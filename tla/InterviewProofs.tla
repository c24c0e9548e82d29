---------------------------- MODULE InterviewProofs ----------------------------
(***************************************************************************)
(* Theorems about one interview: for every reply the model may give, every *)
(* answer of the developer and every failure of a call.                    *)
(***************************************************************************)
EXTENDS Interview, TLAPS

-----------------------------------------------------------------------------
(* The inductive invariant behind the properties, part by part. *)

\* Only an interview that is at its end is complete.
CompleteAtEnd == session.complete => pc \in {"generate", "remove", "write", "fill"} \cup Ended

\* After the last round nothing is asked any more.
RoundLeft == At("question") => session.rounds < MaxRounds(mode)

\* An answer follows a round of its own, in memory and in the file.
RoundAnswered ==
    /\ session.answers <= session.rounds
    /\ pc \in {"save", "ready"} => session.answers < session.rounds

\* What is saved has a question and is not complete.
SavedOpen == saved = NoSession \/ (saved.answers < saved.rounds /\ ~saved.complete)

\* Only the tool saves and removes; only the command line truncates.
DriverKnown ==
    /\ pc \in {"save", "remove"} \/ told => driver = "tool"
    /\ At("fill") => driver = "cli"

\* The tasks are touched at the end of an interview only.
TasksAtEnd == tasks # "none" => At("fill") \/ pc \in Ended

\* A complete interview has converged or has no round left.
CompleteMeans == session.complete => Converged \/ RoundsRunOut

InterviewInv ==
    /\ CompleteAtEnd /\ RoundLeft /\ RoundAnswered /\ SavedOpen /\ DriverKnown
    /\ TasksAtEnd /\ CompleteMeans /\ TasksAreJustified /\ NothingLost

-----------------------------------------------------------------------------
(* What the scores and the operators on a session return. *)

\* The limits of both modes are positive numbers.
LEMMA Limits ==
  ASSUME mode \in Modes
  PROVE  MaxRounds(mode) \in Nat \ {0} /\ Topics(mode) \in Nat
BY DEF Modes, MaxRounds, Topics

\* A weighted score stays within its scale: the weights of a mode add up to 1.
LEMMA AmbiguityRange ==
  ASSUME NEW m \in Modes, NEW c \in Clarities
  PROVE  Ambiguity(m, c) \in 0 .. 1000
<1>1. \A i \in 1 .. 5 : c[i] \in 0 .. 10
  BY DEF Clarities
<1>2. /\ c[1] \in 0 .. 10 /\ c[2] \in 0 .. 10 /\ c[3] \in 0 .. 10
      /\ c[4] \in 0 .. 10 /\ c[5] \in 0 .. 10
  BY <1>1
<1>3. CASE m = "rtc"
  BY <1>2, <1>3 DEF Ambiguity
<1>4. CASE m # "rtc"
  BY <1>2, <1>4 DEF Ambiguity
<1> QED
  BY <1>3, <1>4

\* So does the risk.
LEMMA RiskRange ==
  ASSUME NEW r \in RiskVectors
  PROVE  Risk(r) \in 0 .. 1000
<1>1. \A i \in 1 .. 4 : r[i] \in 0 .. 10
  BY DEF RiskVectors
<1>2. r[1] \in 0 .. 10 /\ r[2] \in 0 .. 10 /\ r[3] \in 0 .. 10 /\ r[4] \in 0 .. 10
  BY <1>1
<1> QED
  BY <1>2 DEF Risk

\* The gate of rtc mode and the levels that are shown to the developer, two
\* definitions in two files, agree: levels 1 and 2 pass, the others do not.
THEOREM GateMeansLevel ==
  ASSUME NEW risk \in 0 .. 1000
  PROVE  GatePassed("rtc", risk) <=> Level(risk) <= 2
<1>1. CASE risk < 200
  BY <1>1 DEF GatePassed, Level
<1>2. CASE 200 <= risk /\ risk < 400
  BY <1>2 DEF GatePassed, Level
<1>3. CASE 400 <= risk /\ risk < 600
  BY <1>3 DEF GatePassed, Level
<1>4. CASE 600 <= risk /\ risk < 800
  BY <1>4 DEF GatePassed, Level
<1>5. CASE 800 <= risk
  BY <1>5 DEF GatePassed, Level
<1> QED
  BY <1>1, <1>2, <1>3, <1>4, <1>5

\* A reply that cannot be parsed passes neither the threshold nor the gate.
THEOREM UnreadIsWorst ==
  ASSUME NEW m \in Modes
  PROVE  /\ ~Clear(m, Ambiguity(m, UnreadClarity))
         /\ ~GatePassed("rtc", Risk(UnreadRisk))
BY DEF Modes, Clear, Ambiguity, AmbiguityThreshold, UnreadClarity, GatePassed, Risk, UnreadRisk

\* A step keeps the mode, and so the sessions there may be.
LEMMA SameSessions ==
  ASSUME UNCHANGED mode
  PROVE  Sessions' = Sessions /\ MaxRounds(mode)' = MaxRounds(mode)
BY DEF Sessions, Coverage, Count

LEMMA FreshSession ==
  ASSUME mode \in Modes, NEW covered \in Coverage
  PROVE  Fresh(covered) \in Sessions
<1>1. 0 \in Count
  BY Limits DEF Count
<1>2. NoResult \in Results
  BY DEF NoResult, Results
<1> QED
  BY <1>1, <1>2 DEF Fresh, Sessions

LEMMA AskedSession ==
  ASSUME mode \in Modes, NEW s \in Sessions, NEW asks \in BOOLEAN, s.rounds < MaxRounds(mode)
  PROVE  /\ Asked(s, asks) \in Sessions
         /\ Asked(s, asks).rounds = s.rounds + 1
         /\ Asked(s, asks).answers = s.answers
         /\ Asked(s, asks).complete = s.complete
         /\ Asked(s, asks).pending = asks
<1>1. s.rounds \in Count
  BY DEF Sessions
<1>2. s.rounds + 1 \in Count
  BY <1>1, Limits DEF Count
<1> QED
  BY <1>2 DEF Asked, Sessions

LEMMA CompletedSession ==
  ASSUME NEW s \in Sessions, NEW result \in Results
  PROVE  /\ Completed(s, result) \in Sessions
         /\ Completed(s, result).rounds = s.rounds
         /\ Completed(s, result).answers = s.answers
         /\ Completed(s, result).scored = s.answers
         /\ Completed(s, result).result = result
         /\ Completed(s, result).complete
BY DEF Completed, Sessions

LEMMA AnsweredSession ==
  ASSUME mode \in Modes, NEW s \in Sessions, NEW covered \in Coverage, s.answers < s.rounds
  PROVE  /\ Answered(s, covered) \in Sessions
         /\ Answered(s, covered).rounds = s.rounds
         /\ Answered(s, covered).answers = s.answers + 1
         /\ Answered(s, covered).complete = s.complete
<1>1. s.answers \in Count /\ s.rounds \in Count
  BY DEF Sessions
<1>2. s.answers + 1 \in Count
  BY <1>1, Limits DEF Count
<1> QED
  BY <1>2 DEF Answered, Sessions

LEMMA KeptSession ==
  ASSUME mode \in Modes, NEW s \in Sessions
  PROVE  /\ Kept(s) \in Sessions
         /\ Kept(s).rounds = s.rounds
         /\ Kept(s).answers = s.answers
         /\ ~Kept(s).complete
<1>1. 0 \in Count
  BY Limits DEF Count
<1>2. NoResult \in Results
  BY DEF NoResult, Results
<1> QED
  BY <1>1, <1>2 DEF Kept, Sessions

\* What the type says of a session's numbers.
LEMMA SessionCounts ==
  ASSUME mode \in Modes, NEW s \in Sessions
  PROVE  /\ MaxRounds(mode) \in Nat
         /\ s.rounds \in Nat /\ s.rounds <= MaxRounds(mode)
         /\ s.answers \in Nat
<1>1. s.rounds \in Count /\ s.answers \in Count
  BY DEF Sessions
<1> QED
  BY <1>1, Limits DEF Count

-----------------------------------------------------------------------------
(* The invariant, step by step. *)

\* An interview begins with a request and nothing else.
LEMMA InitInv == Init => TypeOK /\ InterviewInv
<1> SUFFICES ASSUME Init PROVE TypeOK /\ InterviewInv
  OBVIOUS
<1>1. PICK covered \in Coverage : session = Fresh(covered)
  BY DEF Init
<1>2. mode \in Modes /\ 0 \in Coverage
  BY Limits DEF Init, Coverage
<1>3. session \in Sessions /\ saved \in Sessions
  BY <1>1, <1>2, FreshSession DEF Init, NoSession
<1>4. TypeOK
  BY <1>3 DEF Init, TypeOK, Busy
<1>5. session.rounds = 0 /\ session.answers = 0 /\ ~session.complete
  BY <1>1 DEF Fresh
<1>6. InterviewInv
  BY <1>5
  DEF Init, InterviewInv, CompleteAtEnd, RoundLeft, RoundAnswered, SavedOpen, DriverKnown,
      TasksAtEnd, CompleteMeans, TasksAreJustified, Generating, NothingLost, At
<1> QED
  BY <1>4, <1>6

\* A round is counted before its answer.
LEMMA QuestionKeeps ==
  ASSUME TypeOK, InterviewInv, Question, pc \in {"step", "question"},
         session.rounds < MaxRounds(mode)
  PROVE  TypeOK' /\ InterviewInv'
<1> USE DEF Goto, history
<1>1. PICK asks \in BOOLEAN :
           /\ session' = Asked(session, asks)
           /\ pc' \in {"save", "ready", "generate"}
           /\ pc' = "save" => driver = "tool"
           /\ pc' = "generate" => driver = "cli" /\ ~asks
           /\ UNCHANGED <<mode, driver, saved, tasks, history>>
  BY DEF Question, TypeOK
<1>2. /\ session' \in Sessions
      /\ session'.rounds = session.rounds + 1
      /\ session'.answers = session.answers
      /\ session'.complete = session.complete
      /\ session'.pending \in BOOLEAN
      /\ pc' = "generate" => ~session'.pending /\ driver' = "cli"
  BY <1>1, AskedSession DEF TypeOK
<1>3. TypeOK'
  BY <1>1, <1>2, SameSessions DEF TypeOK, Busy, Waiting
<1>4. ~session'.complete /\ tasks = "none" /\ tasks' = "none"
  BY <1>1, <1>2 DEF InterviewInv, CompleteAtEnd, TasksAtEnd, Ended, At
<1>5. CompleteAtEnd' /\ CompleteMeans' /\ TasksAtEnd' /\ TasksAreJustified'
  BY <1>1, <1>2, <1>4
  DEF CompleteAtEnd, CompleteMeans, TasksAtEnd, TasksAreJustified, Generating
<1>6. RoundLeft'
  BY <1>1 DEF RoundLeft, At
<1>7. RoundAnswered'
  BY <1>2, SessionCounts DEF InterviewInv, RoundAnswered, TypeOK
<1>8. SavedOpen' /\ DriverKnown' /\ NothingLost'
  BY <1>1 DEF InterviewInv, SavedOpen, DriverKnown, NothingLost, At
<1> QED
  BY <1>3, <1>5, <1>6, <1>7, <1>8 DEF InterviewInv

LEMMA AskMissingKeeps ==
  ASSUME TypeOK, InterviewInv, AskMissing
  PROVE  TypeOK' /\ InterviewInv'
BY QuestionKeeps DEF AskMissing, MustAsk, At

\* The gate sends on an interview that has a round left only.
LEMMA AskWeakKeeps ==
  ASSUME TypeOK, InterviewInv, AskWeak
  PROVE  TypeOK' /\ InterviewInv'
BY QuestionKeeps DEF AskWeak, InterviewInv, RoundLeft, At

\* The scores end the interview, or a round is left.
LEMMA ScoreKeeps ==
  ASSUME TypeOK, InterviewInv, Score
  PROVE  TypeOK' /\ InterviewInv'
<1> USE DEF At, Goto, history
<1>1. PICK c \in Clarity \cup {UnreadClarity}, r \in RiskReply \cup {UnreadRisk},
           conflict \in BOOLEAN :
           LET result == [ambiguity |-> Ambiguity(mode, c), risk |-> Risk(r),
                          conflict |-> conflict] IN
           IF Enough(session, result)
           THEN session' = Completed(session, result) /\ pc' = "generate"
           ELSE session' = session /\ pc' = "question"
  BY DEF Score
<1> DEFINE result == [ambiguity |-> Ambiguity(mode, c), risk |-> Risk(r),
                      conflict |-> conflict]
<1>2. /\ pc = "step"
      /\ UNCHANGED <<mode, driver, saved, tasks, history>>
  BY DEF Score
<1>3. c \in Clarities /\ r \in RiskVectors
  BY ClarityAssumption, RiskAssumption DEF UnreadClarity, UnreadRisk, Clarities, RiskVectors
<1>4. result.ambiguity \in 0 .. 1000 /\ result.risk \in 0 .. 1000 /\ result \in Results
  BY <1>3, AmbiguityRange, RiskRange DEF TypeOK, Results
<1>5. /\ RoundAnswered /\ SavedOpen /\ DriverKnown /\ NothingLost /\ ~session.complete
      /\ tasks = "none"
  BY <1>2 DEF InterviewInv, CompleteAtEnd, TasksAtEnd, Ended
<1>6. SavedOpen' /\ DriverKnown' /\ NothingLost' /\ TasksAtEnd'
  BY <1>1, <1>2, <1>5 DEF SavedOpen, DriverKnown, NothingLost, TasksAtEnd
<1>7. CASE Enough(session, result)
  <2> HIDE DEF result
  <2>1. session' = Completed(session, result) /\ pc' = "generate"
    BY <1>1, <1>7 DEF result
  <2>2. /\ session' \in Sessions
        /\ session'.rounds = session.rounds /\ session'.answers = session.answers
        /\ session'.scored = session.answers /\ session'.result = result
        /\ session'.complete
    BY <2>1, <1>4, CompletedSession DEF TypeOK
  <2>3. TypeOK'
    BY <2>1, <2>2, <1>2, SameSessions DEF TypeOK, Busy
  <2>4. CompleteAtEnd' /\ RoundLeft' /\ RoundAnswered'
    BY <2>1, <2>2, <1>5 DEF CompleteAtEnd, RoundLeft, RoundAnswered
  <2>5. CASE session.rounds >= MaxRounds(mode)
    <3>1. session.rounds = MaxRounds(mode)
      BY <2>5, SessionCounts DEF TypeOK
    <3>2. RoundsRunOut'
      BY <3>1, <2>2, <1>2, SameSessions DEF RoundsRunOut
    <3> QED
      BY <3>2, <2>2, <2>3, <2>4, <1>6 DEF CompleteMeans, TasksAreJustified, InterviewInv
  <2>6. CASE Clear(mode, result.ambiguity) /\ GatePassed(mode, result.risk)
    <3>0. GatePassed("rtc", result.risk) => Level(result.risk) <= 2
      BY <1>4, GateMeansLevel
    <3>1. mode = "rtc" => Level(result.risk) <= 2
      BY <2>6, <3>0
    <3>2. Converged'
      BY <3>1, <2>6, <2>2, <1>2 DEF Converged, Clear
    <3> QED
      BY <3>2, <2>2, <2>3, <2>4, <1>6 DEF CompleteMeans, TasksAreJustified, InterviewInv
  <2> QED
    BY <2>5, <2>6, <1>7 DEF Enough
<1>8. CASE ~Enough(session, result)
  <2>1. session' = session /\ pc' = "question"
    BY <1>1, <1>8
  <2>2. session.rounds < MaxRounds(mode)
    BY <1>8, SessionCounts DEF TypeOK, Enough
  <2>3. TypeOK'
    BY <2>1, <1>2, SameSessions DEF TypeOK, Busy
  <2>4. /\ CompleteAtEnd' /\ CompleteMeans' /\ TasksAreJustified'
        /\ RoundLeft' /\ RoundAnswered'
    BY <2>1, <2>2, <1>2, <1>5, SameSessions
    DEF CompleteAtEnd, CompleteMeans, TasksAreJustified, Generating, RoundLeft, RoundAnswered
  <2> QED
    BY <2>3, <2>4, <1>6 DEF InterviewInv
<1> QED
  BY <1>7, <1>8

\* An answer follows the round it belongs to.
LEMMA GiveAnswerKeeps ==
  ASSUME TypeOK, InterviewInv, GiveAnswer
  PROVE  TypeOK' /\ InterviewInv'
<1> USE DEF At, Goto, history
<1>1. PICK covered \in Coverage : session' = Answered(session, covered)
  BY DEF GiveAnswer
<1>2. /\ pc = "ready" /\ pc' = "step"
      /\ UNCHANGED <<mode, driver, saved, tasks, history>>
  BY DEF GiveAnswer
<1>3. session.answers < session.rounds /\ ~session.complete /\ tasks = "none"
  BY <1>2 DEF InterviewInv, RoundAnswered, CompleteAtEnd, TasksAtEnd, Ended
<1>4. /\ session' \in Sessions
      /\ session'.rounds = session.rounds
      /\ session'.answers = session.answers + 1
      /\ ~session'.complete
  BY <1>1, <1>3, AnsweredSession DEF TypeOK
<1>5. TypeOK'
  BY <1>2, <1>4, SameSessions DEF TypeOK, Busy
<1>6. RoundAnswered'
  BY <1>2, <1>3, <1>4, SessionCounts DEF RoundAnswered, TypeOK
<1>7. CompleteAtEnd' /\ CompleteMeans' /\ TasksAtEnd' /\ TasksAreJustified' /\ RoundLeft'
  BY <1>2, <1>3, <1>4
  DEF CompleteAtEnd, CompleteMeans, TasksAtEnd, TasksAreJustified, Generating, RoundLeft
<1>8. SavedOpen' /\ DriverKnown' /\ NothingLost'
  BY <1>2 DEF InterviewInv, SavedOpen, DriverKnown, NothingLost
<1> QED
  BY <1>5, <1>6, <1>7, <1>8 DEF InterviewInv

\* What a call saves has a question, and so is a session.
LEMMA SaveKeeps ==
  ASSUME TypeOK, InterviewInv, Save
  PROVE  TypeOK' /\ InterviewInv'
<1> USE DEF At, Goto
<1>1. /\ pc = "save" /\ pc' = "ready"
      /\ session' = Kept(session) /\ saved' = Kept(session) /\ told'
      /\ UNCHANGED <<mode, driver, tasks, lost>>
  BY DEF Save
<1>2. /\ session' \in Sessions /\ saved' \in Sessions
      /\ session'.rounds = session.rounds /\ session'.answers = session.answers
      /\ saved'.rounds = session.rounds /\ saved'.answers = session.answers
      /\ ~session'.complete /\ ~saved'.complete
  BY <1>1, KeptSession DEF TypeOK
<1>3. session.answers < session.rounds /\ driver = "tool" /\ tasks = "none"
  BY <1>1 DEF InterviewInv, RoundAnswered, DriverKnown, TasksAtEnd, Ended
<1>4. TypeOK'
  BY <1>1, <1>2, SameSessions DEF TypeOK, Waiting, Save
<1>5. /\ CompleteAtEnd' /\ CompleteMeans' /\ TasksAtEnd' /\ TasksAreJustified'
      /\ RoundLeft' /\ DriverKnown'
  BY <1>1, <1>2, <1>3
  DEF CompleteAtEnd, CompleteMeans, TasksAtEnd, TasksAreJustified, Generating, RoundLeft,
      DriverKnown
<1>6. RoundAnswered' /\ SavedOpen'
  BY <1>2, <1>3, SessionCounts DEF RoundAnswered, SavedOpen, TypeOK
<1>7. saved' # NoSession
  BY <1>2, <1>3, SessionCounts DEF NoSession, Fresh, TypeOK
<1> QED
  BY <1>4, <1>5, <1>6, <1>7 DEF InterviewInv, NothingLost

\* The file of a session goes when the session is at its end.
LEMMA RemoveSessionKeeps ==
  ASSUME TypeOK, InterviewInv, RemoveSession
  PROVE  TypeOK' /\ InterviewInv'
<1> USE DEF At, Goto, history
<1>1. /\ pc = "remove" /\ pc' = "write" /\ saved' = NoSession
      /\ UNCHANGED <<mode, driver, session, tasks, history>>
  BY DEF RemoveSession
<1>2. saved' \in Sessions
  BY <1>1, Limits, FreshSession DEF TypeOK, NoSession, Coverage
<1>3. TypeOK'
  BY <1>1, <1>2, SameSessions DEF TypeOK, Busy
<1>4. InterviewInv'
  BY <1>1, SameSessions
  DEF InterviewInv, CompleteAtEnd, RoundLeft, RoundAnswered, SavedOpen, DriverKnown,
      TasksAtEnd, CompleteMeans, Converged, RoundsRunOut, TasksAreJustified, Generating,
      NothingLost, Ended
<1> QED
  BY <1>3, <1>4

\* A call that fails leaves the session as its file has it; only between the removal
\* of the file and the writing of the tasks there is none.
LEMMA CallFailsKeeps ==
  ASSUME TypeOK, InterviewInv, CallFails
  PROVE  TypeOK' /\ InterviewInv'
<1> USE DEF At, Goto
<1>1. /\ pc \in Busy /\ driver = "tool"
      /\ session' = saved /\ lost' = (lost \/ pc = "write")
      /\ pc' = IF saved = NoSession THEN "dead" ELSE "ready"
      /\ UNCHANGED <<mode, driver, saved, tasks, told>>
  BY DEF CallFails
<1>2. TypeOK'
  BY <1>1, SameSessions DEF TypeOK, Waiting, Ended
<1>3. /\ NoSession.answers = 0 /\ NoSession.rounds = 0 /\ ~NoSession.complete
  BY DEF NoSession, Fresh
<1>4. RoundAnswered' /\ SavedOpen'
  BY <1>1, <1>3, SessionCounts DEF InterviewInv, SavedOpen, RoundAnswered, TypeOK
<1>a. ~session'.complete /\ tasks = "none" /\ tasks' = "none"
  BY <1>1, <1>3
  DEF InterviewInv, SavedOpen, TasksAtEnd, DriverKnown, Busy, Ended
<1>5. /\ CompleteAtEnd' /\ CompleteMeans' /\ TasksAtEnd' /\ TasksAreJustified'
      /\ RoundLeft' /\ DriverKnown'
  BY <1>1, <1>a
  DEF InterviewInv, CompleteAtEnd, CompleteMeans, TasksAtEnd, TasksAreJustified, Generating,
      RoundLeft, DriverKnown
<1>6. NothingLost'
  BY <1>1 DEF InterviewInv, NothingLost
<1> QED
  BY <1>2, <1>4, <1>5, <1>6 DEF InterviewInv

\* The other steps touch neither the session nor its file.
LEMMA OthersKeep ==
  ASSUME TypeOK, InterviewInv,
         \/ ContinueWithout \/ Generate \/ ReplaceTasks \/ TruncateTasks \/ FillTasks
         \/ ProgramDies
  PROVE  TypeOK' /\ InterviewInv'
<1> USE DEF At, Goto, history
<1> USE DEF ContinueWithout, Generate, ReplaceTasks, TruncateTasks, FillTasks, ProgramDies
<1>1. UNCHANGED <<mode, driver, session, saved, history>>
  OBVIOUS
<1>2. TypeOK'
  BY <1>1, SameSessions DEF TypeOK, Busy, Ended
<1>3. RoundAnswered' /\ SavedOpen' /\ CompleteMeans'
  BY <1>1, SameSessions
  DEF InterviewInv, RoundAnswered, SavedOpen, CompleteMeans, Converged, RoundsRunOut
<1>4. CompleteAtEnd' /\ RoundLeft' /\ DriverKnown' /\ TasksAtEnd'
  BY <1>1 DEF InterviewInv, CompleteAtEnd, RoundLeft, DriverKnown, TasksAtEnd, Ended
<1>a. Generating' => Generating
  BY DEF InterviewInv, TasksAtEnd, Generating, Ended
<1>b. TasksAreJustified'
  BY <1>1, <1>3, <1>a DEF InterviewInv, TasksAreJustified, CompleteMeans
<1>5. NothingLost'
  BY <1>1 DEF InterviewInv, NothingLost, DriverKnown
<1> QED
  BY <1>2, <1>3, <1>4, <1>5, <1>b DEF InterviewInv

\* Every step keeps the invariant.
LEMMA StepInv == TypeOK /\ InterviewInv /\ [Next]_vars => TypeOK' /\ InterviewInv'
<1> SUFFICES ASSUME TypeOK, InterviewInv, [Next]_vars PROVE TypeOK' /\ InterviewInv'
  OBVIOUS
<1>1. CASE Next
  BY <1>1, AskMissingKeeps, ScoreKeeps, AskWeakKeeps, GiveAnswerKeeps, SaveKeeps,
     RemoveSessionKeeps, CallFailsKeeps, OthersKeep
  DEF Next
<1>2. CASE UNCHANGED vars
  <2>1. UNCHANGED <<mode, driver, pc, session, saved, tasks, told, lost>>
    BY <1>2 DEF vars, history
  <2>2. TypeOK'
    BY <2>1, SameSessions DEF TypeOK
  <2>3. InterviewInv'
    BY <2>1, SameSessions
    DEF InterviewInv, CompleteAtEnd, RoundLeft, RoundAnswered, SavedOpen, DriverKnown,
        TasksAtEnd, CompleteMeans, Converged, RoundsRunOut, TasksAreJustified, Generating,
        NothingLost, At
  <2> QED
    BY <2>2, <2>3
<1> QED
  BY <1>1, <1>2

-----------------------------------------------------------------------------
\* The strengthened invariant of an interview under either driver.
THEOREM Inductive == Spec => [](TypeOK /\ InterviewInv)
<1> QED
  BY InitInv, StepInv, PTL DEF Spec

\* Rounds, answers and scores stay within the limits of the mode.
THEOREM TypeCorrect == Spec => []TypeOK
<1> QED
  BY Inductive, PTL

\* Tasks are generated and written for an interview that has converged or has run out of
\* rounds, in both cases with all of its answers scored, or for one of the command line to
\* which the model had no question, whatever the model replies.
THEOREM TasksCorrect == Spec => []TasksAreJustified
<1>1. InterviewInv => TasksAreJustified
  BY DEF InterviewInv
<1> QED
  BY <1>1, Inductive, PTL

\* An interview its client knows of is in its file or in the tasks, but for a call
\* that is at the exchange or was killed at it.
THEOREM LostCorrect == Spec => []NothingLost
<1>1. InterviewInv => NothingLost
  BY DEF InterviewInv
<1> QED
  BY <1>1, Inductive, PTL

\* Calls that fail and are made again do not answer a question twice.
THEOREM AnswerCorrect == Spec => []OneAnswerPerQuestion
<1>1. InterviewInv => OneAnswerPerQuestion
  BY DEF InterviewInv, RoundAnswered, OneAnswerPerQuestion
<1> QED
  BY <1>1, Inductive, PTL
=============================================================================
