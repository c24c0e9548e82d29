------------------------ MODULE LoopControllerProofs ------------------------
(***************************************************************************)
(* Proofs about LoopController, for any number of tasks, iterations,       *)
(* quality retries and intrusions and any escalation threshold: LoopInv is *)
(* an invariant, and from it follow the properties of the loop and the     *)
(* implementation of TaskLease.                                            *)
(***************************************************************************)
EXTENDS LoopController, TLAPS

-----------------------------------------------------------------------------
(* The inductive invariant. *)

Working == {"agent", "validate", "quality", "pass"}

OwnTokens == 1 .. MaxIterations

\* In an iteration the loop has a task, a run and a token.
Engaged ==
    pc \in Working \cup {"claim", "escalate", "commit"} =>
        task \in Tasks /\ run = "running" /\ iteration \in OwnTokens

\* A file with a token is under way, for the one whose token it is; one without is
\* claimed by no one.
FileClaimed ==
    \A t \in Tasks :
        \/ file[t].claim_token = NoToken /\ file[t].claimed_by = NoClient
        \/ /\ file[t].claim_token \in OwnTokens
           /\ file[t].status = "in_progress" /\ file[t].claimed_by = Loop
        \/ /\ file[t].claim_token = OtherToken
           /\ file[t].status = "in_progress" /\ file[t].claimed_by = Other

\* A token of the loop is in no file but that of its task, and in none after a stop
\* for a reason.
OwnClaim ==
    \A t \in Tasks :
        file[t].claim_token \in OwnTokens =>
            /\ reason = "none"
            /\ pc \in Working \cup {"abort", "stopped"}
            /\ t = task /\ file[t].claim_token = iteration

\* The reason is given at the end only.
ReasonLast == pc \notin {"close", "stopped"} => reason = "none"

\* What the queue shows as done is done in the files; others may have done more.
DoneInFile == \A t \in Tasks : queue[t].status = "done" => file[t].status = "done"

AllDoneSeen == reason = "all_done" => AllDone

\* The task of an iteration comes before all that are left to do.
TaskFirst ==
    /\ pc = "claim" => queue[task].status = "todo"
    /\ pc \in Working => queue[task].status = "in_progress"
    /\ pc \in Working \cup {"claim"} => \A u \in Todo : task <= u

\* The task that failed last is the next one to be taken.
ContextFirst ==
    context # NoTask =>
        /\ pc \in {"head", "escalate"} => IsFirst(context, Todo)
        /\ pc \in Working \cup {"claim"} => context = task
        /\ pc # "commit"

\* The loop's counters agree with the history, until the task is done and they are reset.
Counted ==
    \A t \in Tasks :
        /\ failures[t] <= Threshold
        /\ queue[t].status # "done" =>
               /\ failed[t] - Threshold * escalated[t] =
                      IF failures[t] = Threshold THEN 0 ELSE failures[t]
               /\ rejected[t] = retries[t]

\* A counter at the threshold is reset before the loop goes on: it is that of the task
\* that is being escalated, or the loop has been interrupted in the escalation.
ResetDue ==
    /\ pc = "escalate" => failures[task] = Threshold
    /\ \A t \in Tasks : failures[t] = Threshold =>
           t = task /\ pc \in {"escalate", "abort", "stopped"}

\* Only a done task is credited to anyone.
CreditDone == \A t \in Tasks : credited[t] # {} => file[t].status = "done"

LoopInv ==
    /\ Engaged /\ FileClaimed /\ OwnClaim /\ ReasonLast /\ DoneInFile /\ AllDoneSeen
    /\ TaskFirst /\ ContextFirst /\ Counted /\ ResetDue /\ CreditDone
    /\ EscalationPaced /\ RejectionsBounded

-----------------------------------------------------------------------------
(* Records, tokens and the order of the tasks. *)

USE LoopClientsAssumption, LoopNumbersAssumption, NoClientAssumption

\* Claimed, the update of a record that claim_task makes, yields a record: in
\* progress, with the claimant and the token it was given.
LEMMA ClaimedRecord ==
  ASSUME NEW f \in TaskRecord, NEW c \in Clients, NEW k \in Nat
  PROVE  /\ Claimed(f, c, k, 0) \in TaskRecord
         /\ Claimed(f, c, k, 0).status = "in_progress"
         /\ Claimed(f, c, k, 0).claim_token = k
         /\ Claimed(f, c, k, 0).claimed_by = c
  BY DEF Claimed, TaskRecord, Statuses

\* Released, the update that complete_task and requeue_task make, yields a record
\* with the status it was given, no claimant and no token.
LEMMA ReleasedRecord ==
  ASSUME NEW f \in TaskRecord, NEW status \in Statuses
  PROVE  /\ Released(f, status) \in TaskRecord
         /\ Released(f, status).status = status
         /\ Released(f, status).claim_token = NoToken
         /\ Released(f, status).claimed_by = NoClient
  BY DEF Released, TaskRecord, NoToken

\* The tokens of the loop, the token of others and None are told apart.
LEMMA TokensDiffer ==
  /\ NoToken \notin OwnTokens /\ OtherToken \notin OwnTokens /\ OtherToken # NoToken
  /\ OwnTokens \subseteq Nat /\ OtherToken \in Nat
  BY DEF NoToken, OwnTokens, OtherToken

\* What a step leaves alone keeps what is said about it.
LEMMA Frames ==
  /\ FileClaimed /\ UNCHANGED file => FileClaimed'
  /\ DoneInFile /\ UNCHANGED <<queue, file>> => DoneInFile'
  /\ Counted /\ UNCHANGED <<queue, counters>> => Counted'
  /\ CreditDone /\ UNCHANGED <<credited, file>> => CreditDone'
  /\ EscalationPaced /\ UNCHANGED counters => EscalationPaced'
  /\ RejectionsBounded /\ UNCHANGED counters => RejectionsBounded'
  /\ UNCHANGED queue => Todo' = Todo /\ (AllDone' <=> AllDone)
<1>1. FileClaimed /\ UNCHANGED file => FileClaimed'
  BY DEF FileClaimed, OwnTokens, OtherToken
<1>2. DoneInFile /\ UNCHANGED <<queue, file>> => DoneInFile'
  BY DEF DoneInFile
<1>3. Counted /\ UNCHANGED <<queue, counters>> => Counted'
  BY DEF Counted, counters
<1>4. CreditDone /\ UNCHANGED <<credited, file>> => CreditDone'
  BY DEF CreditDone
<1>5. EscalationPaced /\ UNCHANGED counters => EscalationPaced'
  BY DEF EscalationPaced, counters
<1>6. RejectionsBounded /\ UNCHANGED counters => RejectionsBounded'
  BY DEF RejectionsBounded, counters
<1>7. UNCHANGED queue => Todo' = Todo /\ (AllDone' <=> AllDone)
  BY DEF Todo, AllDone
<1> QED
  BY <1>1, <1>2, <1>3, <1>4, <1>5, <1>6, <1>7

-----------------------------------------------------------------------------
(* The head of the loop. *)

\* The three ways to stop at the head: all_done only when the queue shows it.
LEMMA StopKeeps ==
  ASSUME TypeOK, LoopInv, pc = "head", NEW why \in Reasons, why = "all_done" => AllDone,
         Stop(why)
  PROVE  TypeOK' /\ LoopInv'
<1>1. TypeOK'
  BY DEF TypeOK, Stop, counters
<1>2. Engaged' /\ ReasonLast' /\ TaskFirst' /\ ContextFirst'
  BY DEF Stop, Working, Engaged, ReasonLast, TaskFirst, ContextFirst
<1>3. OwnClaim' /\ ResetDue'
  BY DEF Stop, LoopInv, OwnClaim, ResetDue, Working, counters
<1>4. AllDoneSeen'
  BY Frames DEF Stop, AllDoneSeen
<1>5. FileClaimed' /\ DoneInFile' /\ Counted' /\ CreditDone' /\ EscalationPaced'
      /\ RejectionsBounded'
  BY Frames DEF Stop, LoopInv
<1> QED
  BY <1>1, <1>2, <1>3, <1>4, <1>5 DEF LoopInv

\* The next task is the first one left to do, and so the one that failed last, if any.
LEMMA NextTaskKeeps ==
  ASSUME TypeOK, LoopInv, NextTask
  PROVE  TypeOK' /\ LoopInv'
<1>1. task' \in Todo /\ \A u \in Todo : task' <= u
  BY DEF NextTask, IsFirst
<1>2. task' \in Tasks
  BY <1>1 DEF Todo
<1>3. iteration' \in OwnTokens /\ iteration' \in 0 .. MaxIterations
  BY DEF NextTask, TypeOK, OwnTokens
<1>4. TypeOK'
  BY <1>2, <1>3 DEF NextTask, TypeOK, counters
<1>5. Engaged'
  BY <1>2, <1>3 DEF NextTask, Engaged
<1>6. OwnClaim' /\ ResetDue'
  BY DEF NextTask, LoopInv, OwnClaim, ResetDue, Working, counters
<1>7. ReasonLast' /\ AllDoneSeen'
  BY DEF NextTask, LoopInv, ReasonLast, AllDoneSeen
<1>8. TaskFirst'
  BY <1>1, Frames DEF NextTask, TaskFirst, Todo, Working
<1>9. ContextFirst'
  <2> SUFFICES ASSUME context # NoTask PROVE context = task'
    BY DEF NextTask, ContextFirst, Working
  <2>1. IsFirst(context, Todo)
    BY DEF NextTask, LoopInv, ContextFirst
  <2> QED
    BY <1>1, <1>2, <2>1 DEF IsFirst, TypeOK, Tasks, Todo
<1>10. FileClaimed' /\ DoneInFile' /\ Counted' /\ CreditDone' /\ EscalationPaced'
       /\ RejectionsBounded'
  BY Frames DEF NextTask, LoopInv
<1> QED
  BY <1>4, <1>5, <1>6, <1>7, <1>8, <1>9, <1>10 DEF LoopInv

\* A start that is refused leads to the end of the loop, which holds no claim.
LEMMA StartRefusedKeeps ==
  ASSUME TypeOK, LoopInv, StartRefused
  PROVE  TypeOK' /\ LoopInv'
<1>1. task' \in Tasks
  BY DEF StartRefused, IsFirst, Todo
<1>2. iteration' \in 0 .. MaxIterations
  BY DEF StartRefused, TypeOK
<1>3. TypeOK'
  BY <1>1, <1>2 DEF StartRefused, TypeOK, counters
<1>4. Engaged' /\ TaskFirst' /\ ContextFirst'
  BY DEF StartRefused, Working, Engaged, TaskFirst, ContextFirst
<1>5. OwnClaim' /\ ResetDue'
  BY DEF StartRefused, LoopInv, OwnClaim, ResetDue, Working, counters
<1>6. ReasonLast' /\ AllDoneSeen'
  BY DEF StartRefused, LoopInv, ReasonLast, AllDoneSeen
<1>7. FileClaimed' /\ DoneInFile' /\ Counted' /\ CreditDone' /\ EscalationPaced'
      /\ RejectionsBounded'
  BY Frames DEF StartRefused, LoopInv
<1> QED
  BY <1>3, <1>4, <1>5, <1>6, <1>7 DEF LoopInv

-----------------------------------------------------------------------------
(* One iteration. *)

\* A step within the iteration, or from anywhere to the end of the loop by an error.
LEMMA AdvanceKeeps ==
  ASSUME TypeOK, LoopInv, NEW to \in Working \cup {"abort"}, Advance(to),
         pc \in Working \/ (to = "abort" /\ pc \in {"head", "claim", "escalate", "commit"})
  PROVE  TypeOK' /\ LoopInv'
<1>1. TypeOK'
  BY DEF TypeOK, Advance, Working, counters
<1>2. Engaged'
  BY DEF Advance, LoopInv, Engaged, Working, OwnTokens
<1>3. OwnClaim' /\ ResetDue'
  BY DEF Advance, LoopInv, OwnClaim, ResetDue, Working, OwnTokens, counters
<1>4. ReasonLast' /\ AllDoneSeen'
  BY Frames DEF Advance, LoopInv, ReasonLast, AllDoneSeen, Working
<1>5. TaskFirst'
  BY Frames DEF Advance, LoopInv, TaskFirst, Working
<1>6. ContextFirst'
  BY DEF Advance, LoopInv, ContextFirst, Working
<1>7. FileClaimed' /\ DoneInFile' /\ Counted' /\ CreditDone' /\ EscalationPaced'
      /\ RejectionsBounded'
  BY Frames DEF Advance, LoopInv
<1> QED
  BY <1>1, <1>2, <1>3, <1>4, <1>5, <1>6, <1>7 DEF LoopInv

\* A claim takes a task that is todo in the file and in the queue, and nothing else.
LEMMA ClaimKeeps ==
  ASSUME TypeOK, LoopInv, Claim
  PROVE  TypeOK' /\ LoopInv'
<1>1. task \in Tasks /\ iteration \in OwnTokens /\ iteration \in Nat /\ run = "running"
  BY TokensDiffer DEF Claim, LoopInv, Engaged, Working
<1>2. Loop \in Clients
  OBVIOUS
<1>3. /\ file' = [file EXCEPT ![task] = Claimed(file[task], Loop, iteration, 0)]
      /\ queue' = [queue EXCEPT ![task] = Claimed(queue[task], Loop, iteration, 0)]
      /\ file \in [Tasks -> TaskRecord] /\ queue \in [Tasks -> TaskRecord]
  BY DEF Claim, TypeOK
<1>4. /\ file'[task] \in TaskRecord /\ queue'[task] \in TaskRecord
      /\ file'[task].status = "in_progress" /\ queue'[task].status = "in_progress"
      /\ file'[task].claim_token = iteration /\ file'[task].claimed_by = Loop
  BY <1>1, <1>2, <1>3, ClaimedRecord
<1>5. \A t \in Tasks : t # task => file'[t] = file[t] /\ queue'[t] = queue[t]
  BY <1>1, <1>3
<1>6. file' \in [Tasks -> TaskRecord] /\ queue' \in [Tasks -> TaskRecord]
  BY <1>1, <1>3, <1>4
<1>7. TypeOK'
  BY <1>6 DEF Claim, TypeOK, counters
<1>8. Engaged'
  BY <1>1 DEF Claim, Engaged, OwnTokens
<1>9. FileClaimed'
  BY <1>1, <1>4, <1>5 DEF LoopInv, FileClaimed, OwnTokens, OtherToken
<1>10. OwnClaim' /\ ReasonLast' /\ AllDoneSeen'
  BY <1>4, <1>5 DEF Claim, LoopInv, OwnClaim, ReasonLast, AllDoneSeen, Working, OwnTokens
<1>11. DoneInFile'
  BY <1>4, <1>5 DEF LoopInv, DoneInFile
<1>12. TaskFirst' /\ ContextFirst'
  BY <1>4, <1>5 DEF Claim, LoopInv, TaskFirst, ContextFirst, Todo, Working
<1>13. Counted' /\ ResetDue'
  BY <1>4, <1>5 DEF Claim, LoopInv, TaskFirst, Counted, ResetDue, counters
<1>14. CreditDone'
  BY <1>4, <1>5 DEF Claim, Claimable, LoopInv, CreditDone
<1>15. EscalationPaced' /\ RejectionsBounded'
  BY Frames DEF Claim, LoopInv
<1> QED
  BY <1>7, <1>8, <1>9, <1>10, <1>11, <1>12, <1>13, <1>14, <1>15 DEF LoopInv

\* The end of the loop's claim, by a requeue or a completion: the file and the queue
\* show the task with the status given and no claim, and the loop holds none any more.
LEMMA Ended ==
  ASSUME TypeOK, LoopInv, pc \in Working, Mine, NEW status \in {"todo", "done"},
         file' = [file EXCEPT ![task] = Released(@, status)],
         queue' = [queue EXCEPT ![task] = Released(@, status)]
  PROVE  /\ file' \in [Tasks -> TaskRecord] /\ queue' \in [Tasks -> TaskRecord]
         /\ task \in Tasks
         /\ file[task].status = "in_progress" /\ queue[task].status = "in_progress"
         /\ file'[task].status = status /\ queue'[task].status = status
         /\ \A t \in Tasks : t # task => file'[t] = file[t] /\ queue'[t] = queue[t]
         /\ \A t \in Tasks : file'[t].claim_token \notin OwnTokens
         /\ FileClaimed' /\ DoneInFile'
         /\ \A u \in Todo' : task <= u
<1>1. task \in Tasks /\ iteration \in OwnTokens
  BY DEF LoopInv, Engaged
<1>2. file \in [Tasks -> TaskRecord] /\ queue \in [Tasks -> TaskRecord]
  BY DEF TypeOK
<1>3. file[task].claim_token \in OwnTokens
  BY <1>1 DEF Mine, HoldsToken
<1>4. file[task].status = "in_progress"
  BY <1>1, <1>3, TokensDiffer DEF LoopInv, FileClaimed
<1>5. queue[task].status = "in_progress"
  BY DEF LoopInv, TaskFirst
<1>6. status \in Statuses
  BY DEF Statuses
<1>7. /\ file'[task] \in TaskRecord /\ queue'[task] \in TaskRecord
      /\ file'[task].status = status /\ queue'[task].status = status
      /\ file'[task].claim_token = NoToken /\ file'[task].claimed_by = NoClient
  BY <1>1, <1>2, <1>6, ReleasedRecord
<1>8. \A t \in Tasks : t # task => file'[t] = file[t] /\ queue'[t] = queue[t]
  BY <1>1, <1>2
<1>9. file' \in [Tasks -> TaskRecord] /\ queue' \in [Tasks -> TaskRecord]
  BY <1>1, <1>2, <1>7
<1>10. \A t \in Tasks : file'[t].claim_token \notin OwnTokens
  BY <1>7, <1>8, TokensDiffer DEF LoopInv, OwnClaim
<1>11. FileClaimed'
  BY <1>7, <1>8 DEF LoopInv, FileClaimed, OwnTokens, OtherToken
<1>12. DoneInFile'
  BY <1>7, <1>8 DEF LoopInv, DoneInFile
<1>13. \A u \in Todo' : task <= u
  BY <1>1, <1>8 DEF LoopInv, TaskFirst, Todo, Tasks
<1> QED
  BY <1>1, <1>4, <1>5, <1>7, <1>8, <1>9, <1>10, <1>11, <1>12, <1>13

\* A task of which the agent or the validators have failed is requeued: it is counted,
\* it is the first left to do, and what is told of it is told of no other.
LEMMA FailureKeeps ==
  ASSUME TypeOK, LoopInv, Failure
  PROVE  TypeOK' /\ LoopInv'
<1>1. pc \in Working /\ Mine
  BY DEF Failure, Requeue, Working
<1>2. /\ file' \in [Tasks -> TaskRecord] /\ queue' \in [Tasks -> TaskRecord]
      /\ task \in Tasks
      /\ file[task].status = "in_progress" /\ queue[task].status = "in_progress"
      /\ file'[task].status = "todo" /\ queue'[task].status = "todo"
      /\ \A t \in Tasks : t # task => file'[t] = file[t] /\ queue'[t] = queue[t]
      /\ \A t \in Tasks : file'[t].claim_token \notin OwnTokens
      /\ FileClaimed' /\ DoneInFile'
      /\ \A u \in Todo' : task <= u
  BY <1>1, Ended DEF Failure, Requeue
<1>3. /\ failed' = [failed EXCEPT ![task] = @ + 1]
      /\ failures' = [failures EXCEPT ![task] = @ + 1]
      /\ escalated' = [escalated EXCEPT ![task] = IF EscalationDue THEN @ + 1 ELSE @]
      /\ pc' = IF EscalationDue THEN "escalate" ELSE "head"
      /\ UNCHANGED <<retries, rejected, task>>
  BY DEF Failure, CountFailure
<1>4. {retries, failures, failed, rejected, escalated} \subseteq [Tasks -> Nat]
  BY DEF TypeOK
<1>5. {retries, failures, failed, rejected, escalated}' \subseteq [Tasks -> Nat]
  BY <1>2, <1>3, <1>4
<1>6. TypeOK'
  BY <1>2, <1>3, <1>5 DEF Failure, TypeOK
<1>7. Counted' /\ EscalationPaced' /\ ResetDue'
  <2>1. \A t \in Tasks : t # task => /\ failed'[t] = failed[t] /\ failures'[t] = failures[t]
                                     /\ escalated'[t] = escalated[t]
    BY <1>2, <1>3, <1>4
  <2>2. \A t \in Tasks : failures[t] # Threshold
    BY <1>1 DEF LoopInv, ResetDue, Working
  <2>3. /\ failures[task] \in 0 .. Threshold - 1
        /\ failed[task] - Threshold * escalated[task] = failures[task]
        /\ rejected[task] = retries[task]
    <3>1. /\ failures[task] <= Threshold /\ failures[task] # Threshold
          /\ failures[task] \in Nat /\ Threshold \in Nat
      BY <1>2, <1>4, <2>2 DEF LoopInv, Counted
    <3>2. failures[task] \in 0 .. Threshold - 1
      BY <3>1
    <3> QED
      BY <1>2, <3>1, <3>2 DEF LoopInv, Counted
  <2>4. /\ failed'[task] = failed[task] + 1 /\ failures'[task] = failures[task] + 1
        /\ failed[task] \in Nat /\ escalated[task] \in Nat /\ Threshold \in Nat \ {0}
    BY <1>2, <1>3, <1>4
  <2>5. /\ failures'[task] \in 1 .. Threshold
        /\ failures'[task] = Threshold <=> EscalationDue
        /\ failed'[task] - Threshold * escalated'[task] =
               IF failures'[task] = Threshold THEN 0 ELSE failures'[task]
    <3>1. CASE ~EscalationDue
      <4>1. escalated'[task] = escalated[task]
        BY <1>2, <1>3, <1>4, <3>1
      <4> QED
        BY <2>3, <2>4, <3>1, <4>1 DEF EscalationDue
    <3>2. CASE EscalationDue
      <4>1. escalated'[task] = escalated[task] + 1
        BY <1>2, <1>3, <1>4, <3>2
      <4>2. failures'[task] = Threshold
        <5>1. failures[task] + 1 >= Threshold
          BY <3>2 DEF EscalationDue
        <5>2. /\ failures[task] \in 0 .. Threshold - 1 /\ Threshold \in Nat
              /\ failures'[task] = failures[task] + 1
          BY <2>3, <2>4
        <5> QED
          BY <5>1, <5>2
      <4>3. Threshold * (escalated[task] + 1) = Threshold * escalated[task] + Threshold
        BY <2>4
      <4> QED
        BY <2>3, <2>4, <3>2, <4>1, <4>2, <4>3
    <3> QED
      BY <3>1, <3>2
  <2>6. Counted'
    BY <1>2, <1>3, <2>1, <2>3, <2>5 DEF LoopInv, Counted
  <2>7. EscalationPaced'
    <3>1. failed'[task] - Threshold * escalated'[task] \in 0 .. Threshold - 1
      BY <2>4, <2>5
    <3> QED
      BY <2>1, <3>1 DEF LoopInv, EscalationPaced
  <2>8. ResetDue'
    BY <1>2, <1>3, <2>1, <2>2, <2>5 DEF ResetDue
  <2> QED
    BY <2>6, <2>7, <2>8
<1>8. RejectionsBounded' /\ CreditDone'
  BY <1>2 DEF Failure, LoopInv, RejectionsBounded, CreditDone
<1>9. Engaged' /\ TaskFirst' /\ ReasonLast' /\ OwnClaim'
  BY <1>1, <1>2, <1>3 DEF Failure, LoopInv, Engaged, TaskFirst, ReasonLast, OwnClaim, Working
<1>10. AllDoneSeen'
  BY <1>1 DEF Failure, LoopInv, ReasonLast, AllDoneSeen, Working
<1>11. ContextFirst'
  BY <1>2, <1>3 DEF Failure, ContextFirst, IsFirst, Todo, Working
<1> QED
  BY <1>2, <1>6, <1>7, <1>8, <1>9, <1>10, <1>11 DEF LoopInv

\* When the escalation returns, the counter of the task begins again, and the task is
\* still the first left to do.
LEMMA EscalatedKeeps ==
  ASSUME TypeOK, LoopInv, Escalated
  PROVE  TypeOK' /\ LoopInv'
<1>1. /\ task \in Tasks /\ failures[task] = Threshold
      /\ failures \in [Tasks -> Nat] /\ failures' = [failures EXCEPT ![task] = 0]
      /\ UNCHANGED <<queue, failed, escalated, rejected, retries>>
  BY DEF Escalated, LoopInv, Engaged, ResetDue, TypeOK
<1>2. /\ failures' \in [Tasks -> Nat] /\ failures'[task] = 0
      /\ \A t \in Tasks : t # task => failures'[t] = failures[t]
  BY <1>1
<1>3. TypeOK'
  BY <1>2 DEF Escalated, TypeOK
<1>4. Counted'
  BY <1>1, <1>2 DEF LoopInv, Counted
<1>5. ResetDue'
  BY <1>1, <1>2 DEF Escalated, LoopInv, ResetDue
<1>6. Engaged' /\ TaskFirst' /\ ContextFirst' /\ ReasonLast' /\ AllDoneSeen' /\ OwnClaim'
  BY Frames DEF Escalated, LoopInv, Engaged, TaskFirst, ContextFirst, ReasonLast, AllDoneSeen,
                OwnClaim, Working
<1>7. EscalationPaced' /\ RejectionsBounded'
  BY DEF Escalated, LoopInv, EscalationPaced, RejectionsBounded
<1>8. FileClaimed' /\ DoneInFile' /\ CreditDone'
  BY Frames DEF Escalated, LoopInv
<1> QED
  BY <1>3, <1>4, <1>5, <1>6, <1>7, <1>8 DEF LoopInv

\* A task that the quality gate sends back has a retry left.
LEMMA QualityFailureKeeps ==
  ASSUME TypeOK, LoopInv, QualityFailure
  PROVE  TypeOK' /\ LoopInv'
<1>1. pc \in Working /\ Mine
  BY DEF QualityFailure, Requeue, Working
<1>2. /\ file' \in [Tasks -> TaskRecord] /\ queue' \in [Tasks -> TaskRecord]
      /\ task \in Tasks
      /\ file[task].status = "in_progress" /\ queue[task].status = "in_progress"
      /\ file'[task].status = "todo" /\ queue'[task].status = "todo"
      /\ \A t \in Tasks : t # task => file'[t] = file[t] /\ queue'[t] = queue[t]
      /\ \A t \in Tasks : file'[t].claim_token \notin OwnTokens
      /\ FileClaimed' /\ DoneInFile'
      /\ \A u \in Todo' : task <= u
  BY <1>1, Ended DEF QualityFailure, Requeue
<1>3. /\ retries[task] < MaxQualityRetries
      /\ retries' = [retries EXCEPT ![task] = @ + 1]
      /\ rejected' = [rejected EXCEPT ![task] = @ + 1]
      /\ UNCHANGED <<failures, failed, escalated>>
  BY DEF QualityFailure
<1>4. {retries, failures, failed, rejected, escalated} \subseteq [Tasks -> Nat]
  BY DEF TypeOK
<1>5. {retries, failures, failed, rejected, escalated}' \subseteq [Tasks -> Nat]
  BY <1>2, <1>3, <1>4
<1>6. TypeOK'
  BY <1>2, <1>5 DEF QualityFailure, TypeOK
<1>7. rejected[task] = retries[task]
  BY <1>2 DEF LoopInv, Counted
<1>8. /\ rejected'[task] = retries[task] + 1 /\ retries'[task] = retries[task] + 1
      /\ retries[task] \in Nat
      /\ \A t \in Tasks : t # task => retries'[t] = retries[t] /\ rejected'[t] = rejected[t]
  BY <1>2, <1>3, <1>4, <1>7
<1>9. Counted' /\ EscalationPaced' /\ ResetDue'
  BY <1>1, <1>2, <1>3, <1>8
  DEF QualityFailure, LoopInv, Counted, EscalationPaced, ResetDue, Working
<1>10. RejectionsBounded' /\ CreditDone'
  BY <1>2, <1>3, <1>8 DEF QualityFailure, LoopInv, RejectionsBounded, CreditDone
<1>11. Engaged' /\ TaskFirst' /\ ReasonLast' /\ OwnClaim'
  BY <1>1, <1>2 DEF QualityFailure, LoopInv, Engaged, TaskFirst, ReasonLast, OwnClaim, Working
<1>12. AllDoneSeen'
  BY <1>1 DEF QualityFailure, LoopInv, ReasonLast, AllDoneSeen, Working
<1>13. ContextFirst'
  BY <1>2 DEF QualityFailure, ContextFirst, IsFirst, Todo, Working
<1> QED
  BY <1>2, <1>6, <1>9, <1>10, <1>11, <1>12, <1>13 DEF LoopInv

\* The task of an agent that cannot be started is requeued before the loop ends.
LEMMA AgentUnavailableKeeps ==
  ASSUME TypeOK, LoopInv, AgentUnavailable
  PROVE  TypeOK' /\ LoopInv'
<1>1. pc \in Working /\ Mine
  BY DEF AgentUnavailable, Requeue, Working
<1>2. /\ file' \in [Tasks -> TaskRecord] /\ queue' \in [Tasks -> TaskRecord]
      /\ task \in Tasks
      /\ file[task].status = "in_progress" /\ queue[task].status = "in_progress"
      /\ file'[task].status = "todo" /\ queue'[task].status = "todo"
      /\ \A t \in Tasks : t # task => file'[t] = file[t] /\ queue'[t] = queue[t]
      /\ \A t \in Tasks : file'[t].claim_token \notin OwnTokens
      /\ FileClaimed' /\ DoneInFile'
  BY <1>1, Ended DEF AgentUnavailable, Requeue
<1>3. TypeOK'
  BY <1>2 DEF AgentUnavailable, TypeOK, Reasons, counters
<1>4. Counted' /\ ResetDue' /\ CreditDone'
  BY <1>1, <1>2
  DEF AgentUnavailable, LoopInv, Counted, ResetDue, CreditDone, Working, counters
<1>5. Engaged' /\ TaskFirst' /\ ContextFirst' /\ ReasonLast' /\ AllDoneSeen' /\ OwnClaim'
  BY <1>2 DEF AgentUnavailable, Engaged, TaskFirst, ContextFirst, ReasonLast, AllDoneSeen,
              OwnClaim, Working
<1>6. EscalationPaced' /\ RejectionsBounded'
  BY Frames DEF AgentUnavailable, LoopInv
<1> QED
  BY <1>2, <1>3, <1>4, <1>5, <1>6 DEF LoopInv

\* A task that passes is done in the file and in the queue, for good, and what was told
\* of its failures is forgotten.
LEMMA PassKeeps ==
  ASSUME TypeOK, LoopInv, Pass
  PROVE  TypeOK' /\ LoopInv'
<1>1. pc \in Working /\ Mine
  BY DEF Pass, Working
<1>2. /\ file' \in [Tasks -> TaskRecord] /\ queue' \in [Tasks -> TaskRecord]
      /\ task \in Tasks
      /\ file[task].status = "in_progress" /\ queue[task].status = "in_progress"
      /\ file'[task].status = "done" /\ queue'[task].status = "done"
      /\ \A t \in Tasks : t # task => file'[t] = file[t] /\ queue'[t] = queue[t]
      /\ \A t \in Tasks : file'[t].claim_token \notin OwnTokens
      /\ FileClaimed' /\ DoneInFile'
  BY <1>1, Ended DEF Pass
<1>3. /\ retries' = [retries EXCEPT ![task] = 0]
      /\ failures' = [failures EXCEPT ![task] = 0]
      /\ credited' = [credited EXCEPT ![task] = @ \cup {Loop}]
      /\ UNCHANGED <<failed, rejected, escalated>>
  BY DEF Pass
<1>4. /\ {retries, failures, failed, rejected, escalated} \subseteq [Tasks -> Nat]
      /\ credited \in [Tasks -> SUBSET Clients]
  BY DEF TypeOK
<1>5. /\ {retries, failures, failed, rejected, escalated}' \subseteq [Tasks -> Nat]
      /\ credited' \in [Tasks -> SUBSET Clients]
  BY <1>2, <1>3, <1>4
<1>6. TypeOK'
  BY <1>2, <1>5 DEF Pass, TypeOK
<1>7. /\ failures'[task] = 0
      /\ \A t \in Tasks : t # task => /\ retries'[t] = retries[t] /\ failures'[t] = failures[t]
                                      /\ credited'[t] = credited[t]
  BY <1>2, <1>3, <1>4
<1>8. Counted'
  <2> SUFFICES ASSUME NEW t \in Tasks
               PROVE  /\ failures'[t] <= Threshold
                      /\ queue'[t].status # "done" =>
                             /\ failed'[t] - Threshold * escalated'[t] =
                                    IF failures'[t] = Threshold THEN 0 ELSE failures'[t]
                             /\ rejected'[t] = retries'[t]
    BY DEF Counted
  <2>1. CASE t = task
    BY <1>2, <1>7, <2>1
  <2>2. CASE t # task
    BY <1>2, <1>3, <1>7, <2>2 DEF LoopInv, Counted
  <2> QED
    BY <2>1, <2>2
<1>9. EscalationPaced' /\ RejectionsBounded' /\ CreditDone' /\ ResetDue'
  BY <1>1, <1>2, <1>3, <1>7
  DEF Pass, LoopInv, EscalationPaced, RejectionsBounded, CreditDone, ResetDue, Working
<1>10. Engaged' /\ TaskFirst' /\ ReasonLast' /\ OwnClaim' /\ ContextFirst'
  BY <1>1, <1>2 DEF Pass, LoopInv, Engaged, TaskFirst, ReasonLast, OwnClaim, ContextFirst,
                    Working
<1>11. AllDoneSeen'
  BY <1>1 DEF Pass, LoopInv, ReasonLast, AllDoneSeen, Working
<1> QED
  BY <1>2, <1>6, <1>8, <1>9, <1>10, <1>11 DEF LoopInv

\* The commit of a task that has passed changes nothing the loop depends on.
LEMMA CommittedKeeps ==
  ASSUME TypeOK, LoopInv, Committed
  PROVE  TypeOK' /\ LoopInv'
<1> USE DEF Committed, Advance
<1>1. TypeOK'
  BY DEF TypeOK, counters
<1>2. context = NoTask
  BY DEF LoopInv, ContextFirst
<1>3. Engaged' /\ TaskFirst' /\ ContextFirst' /\ ReasonLast' /\ AllDoneSeen' /\ OwnClaim'
      /\ ResetDue'
  BY <1>2, Frames DEF LoopInv, Engaged, TaskFirst, ContextFirst, ReasonLast, AllDoneSeen,
                      OwnClaim, ResetDue, Working, counters
<1>4. FileClaimed' /\ DoneInFile' /\ Counted' /\ CreditDone' /\ EscalationPaced'
      /\ RejectionsBounded'
  BY Frames DEF LoopInv
<1> QED
  BY <1>1, <1>3, <1>4 DEF LoopInv

\* The run is finished; files, queue and counters stay as they are.
LEMMA FinishKeeps ==
  ASSUME TypeOK, LoopInv, NEW status \in Reasons \cup {"aborted"}, Finish(status),
         pc \in {"close", "abort"}
  PROVE  TypeOK' /\ LoopInv'
<1>1. TypeOK'
  BY DEF TypeOK, Finish, counters
<1>2. Engaged' /\ TaskFirst' /\ ContextFirst' /\ ReasonLast'
  BY DEF Finish, Engaged, TaskFirst, ContextFirst, ReasonLast, Working
<1>3. OwnClaim' /\ ResetDue'
  BY DEF Finish, LoopInv, OwnClaim, ResetDue, Working, OwnTokens, counters
<1>4. AllDoneSeen'
  BY Frames DEF Finish, LoopInv, AllDoneSeen
<1>5. FileClaimed' /\ DoneInFile' /\ Counted' /\ CreditDone' /\ EscalationPaced'
      /\ RejectionsBounded'
  BY Frames DEF Finish, LoopInv
<1> QED
  BY <1>1, <1>2, <1>3, <1>4, <1>5 DEF LoopInv

-----------------------------------------------------------------------------
(* Others. *)

\* What others write in a file that is not done keeps the loop's state right, if it is
\* the file of a claim of theirs or of no claim, and if credit is for what is done.
LEMMA IntrudeKeeps ==
  ASSUME TypeOK, LoopInv, NEW t \in Tasks, NEW record \in TaskRecord, Intrude(t, record),
         file[t].status # "done",
         \/ record.claim_token = NoToken /\ record.claimed_by = NoClient
         \/ /\ record.claim_token = OtherToken
            /\ record.status = "in_progress" /\ record.claimed_by = Other,
         credited' \in [Tasks -> SUBSET Clients],
         \A u \in Tasks : u # t => credited'[u] = credited[u],
         credited'[t] # credited[t] => record.status = "done"
  PROVE  TypeOK' /\ LoopInv'
<1>1. /\ file' \in [Tasks -> TaskRecord] /\ file'[t] = record
      /\ \A u \in Tasks : u # t => file'[u] = file[u]
  BY DEF Intrude, TypeOK
<1>2. intrusions' \in 0 .. MaxIntrusions
  BY DEF Intrude, TypeOK
<1>3. TypeOK'
  BY <1>1, <1>2 DEF Intrude, TypeOK, counters
<1>4. Engaged' /\ ReasonLast' /\ AllDoneSeen'
  BY Frames DEF Intrude, LoopInv, Engaged, ReasonLast, AllDoneSeen, OwnTokens
<1>5. FileClaimed'
  BY <1>1 DEF LoopInv, FileClaimed, OwnTokens, OtherToken
<1>6. OwnClaim'
  BY <1>1, TokensDiffer DEF Intrude, LoopInv, OwnClaim
<1>7. DoneInFile' /\ CreditDone'
  BY <1>1 DEF Intrude, LoopInv, DoneInFile, CreditDone
<1>8. TaskFirst' /\ ContextFirst' /\ ResetDue'
  BY Frames DEF Intrude, LoopInv, TaskFirst, ContextFirst, ResetDue, counters
<1>9. Counted' /\ EscalationPaced' /\ RejectionsBounded'
  BY Frames DEF Intrude, LoopInv
<1> QED
  BY <1>3, <1>4, <1>5, <1>6, <1>7, <1>8, <1>9 DEF LoopInv

\* A recovery and an MCP session change nothing the loop's state depends on.
LEMMA OthersKeep ==
  ASSUME TypeOK, LoopInv, NEW t \in Tasks,
         ForcedRecovery(t) \/ OtherClaims(t)
           \/ \E status \in {"todo", "done"} : OtherEnds(t, status)
  PROVE  TypeOK' /\ LoopInv'
<1>1. file[t] \in TaskRecord /\ credited \in [Tasks -> SUBSET Clients]
  BY DEF TypeOK
<1>2. CASE ForcedRecovery(t)
  <2>1. Released(file[t], "todo") \in TaskRecord
        /\ Released(file[t], "todo").claim_token = NoToken
        /\ Released(file[t], "todo").claimed_by = NoClient
    BY <1>1, ReleasedRecord DEF Statuses
  <2> QED
    BY <1>1, <1>2, <2>1, IntrudeKeeps DEF ForcedRecovery
<1>3. CASE OtherClaims(t)
  <2>1. /\ Claimed(file[t], Other, OtherToken, 0) \in TaskRecord
        /\ Claimed(file[t], Other, OtherToken, 0).status = "in_progress"
        /\ Claimed(file[t], Other, OtherToken, 0).claim_token = OtherToken
        /\ Claimed(file[t], Other, OtherToken, 0).claimed_by = Other
    BY <1>1, ClaimedRecord, TokensDiffer
  <2> QED
    BY <1>1, <1>3, <2>1, IntrudeKeeps DEF OtherClaims
<1>4. ASSUME NEW status \in {"todo", "done"}, OtherEnds(t, status)
      PROVE  TypeOK' /\ LoopInv'
  <2>1. /\ Released(file[t], status) \in TaskRecord
        /\ Released(file[t], status).status = status
        /\ Released(file[t], status).claim_token = NoToken
        /\ Released(file[t], status).claimed_by = NoClient
    BY <1>1, ReleasedRecord DEF Statuses
  <2>2. file[t].status = "in_progress"
    BY <1>4, TokensDiffer DEF OtherEnds, HoldsToken, LoopInv, FileClaimed
  <2>3. Other \in Clients
    OBVIOUS
  <2>4. /\ credited' \in [Tasks -> SUBSET Clients]
        /\ \A u \in Tasks : u # t => credited'[u] = credited[u]
        /\ credited'[t] # credited[t] => status = "done"
    BY <1>1, <1>4, <2>3 DEF OtherEnds
  <2> QED
    BY <1>4, <2>1, <2>2, <2>4, IntrudeKeeps DEF OtherEnds
<1> QED
  BY <1>2, <1>3, <1>4

-----------------------------------------------------------------------------
(* The invariant and the properties. *)

\* A task the loop begins with: unclaimed, or with a claim of others that the mirror shows.
InheritedFile(f) ==
    /\ f \in TaskRecord
    /\ \/ f.claim_token = NoToken /\ f.claimed_by = NoClient
       \/ f.claim_token = OtherToken /\ f.status = "in_progress" /\ f.claimed_by = Other

LEMMA InitQueue == Init => \A t \in Tasks : InheritedFile(queue[t])
<1> SUFFICES ASSUME Init, NEW t \in Tasks PROVE InheritedFile(queue[t])
  OBVIOUS
<1>1. CASE queue[t] \in {Unclaimed(s) : s \in Statuses}
  BY <1>1 DEF Unclaimed, InheritedFile, TaskRecord, NoToken
<1>2. CASE queue[t] = Inherited(Other, OtherToken)
  <2>1. Unclaimed("todo") \in TaskRecord /\ OtherToken \in Nat /\ Other \in Clients
    BY TokensDiffer DEF Unclaimed, TaskRecord, Statuses, NoToken
  <2> QED
    <3> DEFINE c == Claimed(Unclaimed("todo"), Other, OtherToken, 0)
    <3>1. /\ c \in TaskRecord /\ c.status = "in_progress"
          /\ c.claim_token = OtherToken /\ c.claimed_by = Other
      BY <2>1, ClaimedRecord
    <3>2. queue[t] = c
      BY <1>2 DEF Inherited
    <3> QED
      BY <3>1, <3>2 DEF InheritedFile
<1> QED
  BY <1>1, <1>2 DEF Init

\* A loop that has not begun.
LEMMA InitInv == Init => TypeOK /\ LoopInv
<1> SUFFICES ASSUME Init PROVE TypeOK /\ LoopInv
  OBVIOUS
<1>1. \A t \in Tasks : InheritedFile(queue[t])
  BY InitQueue
<1>2. /\ queue \in [Tasks -> TaskRecord] /\ file = queue
      /\ \A t \in Tasks : InheritedFile(file[t])
  BY <1>1 DEF Init, InheritedFile
<1>3. TypeOK
  BY <1>2 DEF Init, TypeOK, Reasons
<1>4. Engaged /\ ReasonLast /\ AllDoneSeen /\ TaskFirst /\ ContextFirst
  BY DEF Init, Working, Engaged, ReasonLast, AllDoneSeen, TaskFirst, ContextFirst
<1>5. FileClaimed /\ OwnClaim
  BY <1>2, TokensDiffer DEF FileClaimed, OwnClaim, InheritedFile
<1>6. DoneInFile /\ CreditDone
  BY DEF Init, DoneInFile, CreditDone
<1>7. \A t \in Tasks : /\ failures[t] = 0 /\ failed[t] = 0 /\ escalated[t] = 0
                       /\ rejected[t] = 0 /\ retries[t] = 0
  BY DEF Init
<1>8. 0 - Threshold * 0 = 0 /\ 0 \in 0 .. Threshold - 1
  OBVIOUS
<1>9. Counted /\ ResetDue
  BY <1>7, <1>8 DEF Init, Counted, ResetDue
<1>10. EscalationPaced /\ RejectionsBounded
  BY <1>7, <1>8 DEF EscalationPaced, RejectionsBounded
<1> QED
  BY <1>3, <1>4, <1>5, <1>6, <1>9, <1>10 DEF LoopInv

\* Every step keeps it.
LEMMA StepInv == TypeOK /\ LoopInv /\ [Next]_vars => (TypeOK /\ LoopInv)'
<1> SUFFICES ASSUME TypeOK, LoopInv, [Next]_vars PROVE (TypeOK /\ LoopInv)'
  OBVIOUS
<1>1. CASE Head
  <2>1. CASE LoopDone
    BY <2>1, StopKeeps DEF LoopDone, Reasons
  <2>2. CASE OutOfIterations
    BY <2>2, StopKeeps DEF OutOfIterations, Reasons
  <2>3. CASE NothingRunnable
    BY <2>3, StopKeeps DEF NothingRunnable, Reasons
  <2> QED
    BY <1>1, <2>1, <2>2, <2>3, NextTaskKeeps, StartRefusedKeeps DEF Head
<1>2. CASE Iteration
  <2>1. CASE ClaimRefused \/ AgentSucceeds \/ ValidatorsPass \/ QualityPasses
             \/ QualitySkipped \/ Dispossessed
    BY <2>1, AdvanceKeeps DEF ClaimRefused, AgentSucceeds, ValidatorsPass, QualityPasses,
       QualitySkipped, Dispossessed, Working
  <2>2. CASE Interrupted
    <3>1. pc \in Working \cup {"head", "claim", "escalate", "commit"}
      BY <2>2 DEF Interrupted, TypeOK, Working
    <3> QED
      BY <2>2, <3>1, AdvanceKeeps DEF Interrupted
  <2> QED
    BY <1>2, <2>1, <2>2, ClaimKeeps, AgentUnavailableKeeps, FailureKeeps, EscalatedKeeps,
       QualityFailureKeeps, PassKeeps, CommittedKeeps DEF Iteration
<1>3. CASE Close
  BY <1>3, FinishKeeps DEF Close, TypeOK
<1>4. CASE Abort
  BY <1>4, FinishKeeps DEF Abort
<1>5. CASE Others
  BY <1>5, OthersKeep DEF Others
<1>6. CASE UNCHANGED vars
  <2>1. TypeOK'
    BY <1>6 DEF vars, counters, TypeOK
  <2>2. Engaged' /\ ReasonLast' /\ AllDoneSeen' /\ TaskFirst' /\ ContextFirst' /\ OwnClaim'
        /\ ResetDue'
    BY <1>6, Frames DEF vars, counters, LoopInv, Engaged, ReasonLast, AllDoneSeen, TaskFirst,
       ContextFirst, OwnClaim, ResetDue, OwnTokens
  <2>3. FileClaimed' /\ DoneInFile' /\ Counted' /\ CreditDone' /\ EscalationPaced'
        /\ RejectionsBounded'
    BY <1>6, Frames DEF vars, LoopInv
  <2> QED
    BY <2>1, <2>2, <2>3 DEF LoopInv
<1> QED
  BY <1>1, <1>2, <1>3, <1>4, <1>5, <1>6 DEF Next, LoopNext

\* LoopInv holds of every behaviour of the loop, with or without fairness.
THEOREM Inductive == Spec => [](TypeOK /\ LoopInv)
<1> QED
  BY InitInv, StepInv, PTL DEF Spec

\* The loop, its queue and the files of its run never have a value the code does not know.
THEOREM TypeCorrect == Spec => []TypeOK
<1> QED
  BY Inductive, PTL

\* The loop reports all_done only when every task is done in the files of its run.
THEOREM AllDoneCorrect == Spec => []AllDoneIsTrue
<1>1. LoopInv => AllDoneIsTrue
  BY DEF LoopInv, AllDoneSeen, DoneInFile, AllDone, AllDoneIsTrue
<1> QED
  BY <1>1, Inductive, PTL

\* A loop that stops for a reason of its own leaves no task claimed.
THEOREM ClaimsCorrect == Spec => []NothingLeftClaimed
<1>1. LoopInv => NothingLeftClaimed
  BY DEF LoopInv, OwnClaim, NothingLeftClaimed, OwnTokens
<1> QED
  BY <1>1, Inductive, PTL

\* The agent is told of failures of its own task only.
THEOREM ContextCorrect == Spec => []ContextIsOwn
<1>1. LoopInv => ContextIsOwn
  BY DEF LoopInv, ContextFirst, ContextIsOwn, Working
<1> QED
  BY <1>1, Inductive, PTL

\* Every Threshold-th failure of a task is escalated, and no other, for any Threshold.
THEOREM EscalationCorrect == Spec => []EscalationPaced
<1>1. LoopInv => EscalationPaced
  BY DEF LoopInv
<1> QED
  BY <1>1, Inductive, PTL

\* The quality gate sends no task back more than MaxQualityRetries times.
THEOREM RejectionsCorrect == Spec => []RejectionsBounded
<1>1. LoopInv => RejectionsBounded
  BY DEF LoopInv
<1> QED
  BY <1>1, Inductive, PTL

-----------------------------------------------------------------------------
(* How long the loop can run: what Stops owes to the loop and not to fairness. *)

\* Steps of this iteration that may still come, and those that lead out of it.
Ahead(p) ==
    CASE p = "claim" -> 8 [] p = "agent" -> 7 [] p = "validate" -> 6
      [] p = "quality" -> 5 [] p = "pass" -> 4 [] p \in {"escalate", "commit"} -> 3
      [] p = "head" -> 2 [] p \in {"close", "abort"} -> 1 [] p = "stopped" -> 0

\* A new iteration has seven steps, and takes one from those that may come.
StepsLeft == 7 * (MaxIterations - iteration) + Ahead(pc)

RunClosed == pc = "stopped" => run # "running"

LEMMA AheadValue ==
  /\ Ahead("claim") = 8 /\ Ahead("agent") = 7 /\ Ahead("validate") = 6
  /\ Ahead("quality") = 5 /\ Ahead("pass") = 4 /\ Ahead("escalate") = 3
  /\ Ahead("commit") = 3 /\ Ahead("head") = 2
  /\ Ahead("close") = 1 /\ Ahead("abort") = 1 /\ Ahead("stopped") = 0
  BY DEF Ahead

\* A step that is nearer to the end, in the same iteration or the next one.
LEMMA Nearer ==
  ASSUME TypeOK, TypeOK',
         \/ iteration' = iteration /\ Ahead(pc') < Ahead(pc)
         \/ iteration' = iteration + 1 /\ Ahead(pc') < Ahead(pc) + 7
  PROVE  StepsLeft' < StepsLeft
<1>1. Ahead(pc) \in Nat /\ Ahead(pc') \in Nat
  BY AheadValue DEF TypeOK
<1>2. iteration \in Nat /\ iteration' \in Nat
  BY DEF TypeOK
<1> QED
  BY <1>1, <1>2 DEF StepsLeft

\* Failures, rejections and passes may come in any order: each step uses up one of those
\* that are left.
LEMMA LoopNearer ==
  ASSUME TypeOK, LoopInv, TypeOK', LoopNext
  PROVE  StepsLeft' < StepsLeft
<1> USE AheadValue
<1>1. CASE LoopDone \/ OutOfIterations \/ NothingRunnable
  BY <1>1, Nearer DEF LoopDone, OutOfIterations, NothingRunnable, Stop
<1>2. CASE NextTask \/ StartRefused
  BY <1>2, Nearer DEF NextTask, StartRefused
<1>3. CASE Claim \/ ClaimRefused
  BY <1>3, Nearer DEF Claim, ClaimRefused, Advance
<1>4. CASE AgentSucceeds \/ ValidatorsPass \/ QualityPasses \/ QualitySkipped
  <2>1. iteration' = iteration /\ Ahead(pc') < Ahead(pc)
    BY <1>4 DEF AgentSucceeds, ValidatorsPass, QualityPasses, QualitySkipped, Advance
  <2> QED
    BY <2>1, Nearer
<1>5. CASE AgentUnavailable
  BY <1>5, Nearer DEF AgentUnavailable
<1>6. CASE Failure \/ Escalated \/ QualityFailure \/ Pass \/ Committed
  BY <1>6, Nearer
  DEF Failure, CountFailure, Escalated, QualityFailure, Pass, Committed, Advance
<1>7. CASE Dispossessed \/ Interrupted
  <2>1. /\ pc \in {"head", "claim", "agent", "validate", "quality", "escalate", "pass",
                   "commit"}
        /\ pc' = "abort" /\ iteration' = iteration
    BY <1>7 DEF Dispossessed, Interrupted, Advance, TypeOK
  <2> QED
    BY <2>1, Nearer
<1>8. CASE Close \/ Abort
  BY <1>8, Nearer DEF Close, Abort, Finish
<1> QED
  BY <1>1, <1>2, <1>3, <1>4, <1>5, <1>6, <1>7, <1>8 DEF LoopNext, Head, Iteration

\* A loop of MaxIterations iterations takes at most 7 * MaxIterations + 2 steps of its own,
\* whatever agent, validators and evaluator answer and however often a task is turned back
\* or taken away; what others do does not prolong it.
THEOREM LoopBounded ==
  Spec => /\ [](StepsLeft \in 0 .. 7 * MaxIterations + 2)
          /\ [][\/ LoopNext /\ StepsLeft' < StepsLeft
                \/ Others /\ StepsLeft' = StepsLeft]_vars
<1>1. TypeOK /\ LoopInv => StepsLeft \in 0 .. 7 * MaxIterations + 2
  <2> SUFFICES ASSUME TypeOK, LoopInv PROVE StepsLeft \in 0 .. 7 * MaxIterations + 2
    OBVIOUS
  <2>1. iteration \in 0 .. MaxIterations
    BY DEF TypeOK
  <2>2. CASE Ahead(pc) \in 0 .. 2
    BY <2>1, <2>2 DEF StepsLeft
  <2>3. CASE Ahead(pc) \in 3 .. 8 /\ iteration >= 1
    BY <2>1, <2>3 DEF StepsLeft
  <2>4. pc \in Working \cup {"claim", "escalate", "commit"} => iteration >= 1
    BY DEF LoopInv, Engaged, OwnTokens
  <2> QED
    BY <2>2, <2>3, <2>4, AheadValue DEF TypeOK, Working
<1>2. TypeOK /\ LoopInv /\ [Next]_vars =>
         [\/ LoopNext /\ StepsLeft' < StepsLeft
          \/ Others /\ StepsLeft' = StepsLeft]_vars
  <2> SUFFICES ASSUME TypeOK, LoopInv, Next
               PROVE  \/ LoopNext /\ StepsLeft' < StepsLeft
                      \/ Others /\ StepsLeft' = StepsLeft
    OBVIOUS
  <2>1. TypeOK'
    BY StepInv
  <2>2. CASE LoopNext
    BY <2>1, <2>2, LoopNearer
  <2>3. CASE Others
    BY <2>3 DEF Others, ForcedRecovery, OtherClaims, OtherEnds, Intrude, StepsLeft
  <2> QED
    BY <2>2, <2>3 DEF Next
<1> QED
  BY <1>1, <1>2, Inductive, PTL DEF Spec

\* A loop that has stopped, for a reason or by an error, leaves no running run behind.
THEOREM RunClosedCorrect == Spec => []RunClosed
<1>1. Init => RunClosed
  BY DEF Init, RunClosed
<1>2. TypeOK /\ RunClosed /\ [Next]_vars => RunClosed'
  <2> SUFFICES ASSUME TypeOK, RunClosed, [Next]_vars PROVE RunClosed'
    OBVIOUS
  <2> USE DEF RunClosed
  <2>1. CASE Head
    BY <2>1 DEF Head, LoopDone, OutOfIterations, NothingRunnable, Stop, NextTask, StartRefused
  <2>2. CASE Iteration
    BY <2>2 DEF Iteration, Claim, ClaimRefused, AgentSucceeds, AgentUnavailable,
       ValidatorsPass, Failure, CountFailure, Escalated, QualityPasses, QualitySkipped,
       QualityFailure, Pass, Committed, Dispossessed, Interrupted, Advance
  <2>3. CASE Close \/ Abort
    BY <2>3 DEF Close, Abort, Finish, TypeOK, Reasons
  <2>4. CASE Others
    BY <2>4 DEF Others, ForcedRecovery, OtherClaims, OtherEnds, Intrude
  <2>5. CASE UNCHANGED vars
    BY <2>5 DEF vars
  <2> QED
    BY <2>1, <2>2, <2>3, <2>4, <2>5 DEF Next, LoopNext
<1> QED
  BY <1>1, <1>2, TypeCorrect, PTL DEF Spec

-----------------------------------------------------------------------------
(* The implementation of TaskLease. *)

\* The phases of the three statuses that steps of the loop and of others lead from or to.
LEMMA PhaseValue ==
  ASSUME NEW f
  PROVE  /\ f.status = "todo" => Phase(f) = "open"
         /\ f.status = "in_progress" => Phase(f) = "leased"
         /\ f.status = "done" => Phase(f) = "closed"
         /\ Phase(f) \in {"open", "leased", "closed"}
<1>1. f.status = "todo" => Phase(f) = "open"
  BY DEF Phase
<1>2. f.status = "in_progress" => Phase(f) = "leased"
  BY DEF Phase
<1>3. f.status \notin {"todo", "in_progress"} => Phase(f) = "closed"
  BY Zenon DEF Phase
<1> QED
  BY <1>1, <1>2, <1>3

\* No task is credited before the loop begins, or leased but by a claim it inherits.
LEMMA LeaseInit == Init => Lease!Init
<1> SUFFICES ASSUME Init PROVE Lease!Init
  OBVIOUS
<1>1. \A t \in Tasks : Phase(file[t]) \in {"open", "leased", "closed"}
  BY PhaseValue
<1>2. \A t \in Tasks : /\ file[t].claimed_by \in Clients \cup {NoClient}
                       /\ file[t].claimed_by # NoClient => Phase(file[t]) = "leased"
  BY InitQueue, PhaseValue DEF Init, InheritedFile
<1> QED
  BY <1>1, <1>2 DEF Init, Lease!Init

\* The lease of one task is granted: the file of one task is claimed.
LEMMA GrantStep ==
  ASSUME NEW t \in Tasks, NEW c \in Clients,
         file[t].status = "todo", file'[t].status = "in_progress", file'[t].claimed_by = c,
         \A u \in Tasks : u # t => file'[u] = file[u],
         UNCHANGED credited
  PROVE  Lease!Next
<1>1. Phase(file[t]) = "open" /\ Phase(file'[t]) = "leased"
  BY PhaseValue
<1>2. \A u \in Tasks : u # t => Phase(file'[u]) = Phase(file[u])
  OBVIOUS
<1>3. Lease!Grant(t, c)
  BY <1>1, <1>2 DEF Lease!Grant
<1> QED
  BY <1>3 DEF Lease!Next

\* The lease of one task ends with the task open again.
LEMMA ReturnStep ==
  ASSUME NEW t \in Tasks,
         file[t].status = "in_progress", file'[t].status = "todo",
         file'[t].claimed_by = NoClient,
         \A u \in Tasks : u # t => file'[u] = file[u],
         UNCHANGED credited
  PROVE  Lease!Next
<1>1. Phase(file[t]) = "leased" /\ Phase(file'[t]) = "open"
  BY PhaseValue
<1>2. \A u \in Tasks : u # t => Phase(file'[u]) = Phase(file[u])
  OBVIOUS
<1>3. Lease!Return(t)
  BY <1>1, <1>2 DEF Lease!Return
<1> QED
  BY <1>3 DEF Lease!Next

\* The lease of one task ends with the task closed, to the credit of its holder.
LEMMA CompleteStep ==
  ASSUME TypeOK, LoopInv, NEW t \in Tasks, NEW c \in Clients,
         file[t].status = "in_progress", file[t].claimed_by = c,
         file'[t].status = "done", file'[t].claimed_by = NoClient,
         \A u \in Tasks : u # t => file'[u] = file[u],
         credited' = [credited EXCEPT ![t] = @ \cup {c}]
  PROVE  Lease!Next
<1>1. Phase(file[t]) = "leased" /\ Phase(file'[t]) = "closed"
  BY PhaseValue
<1>2. \A u \in Tasks : u # t => Phase(file'[u]) = Phase(file[u])
  OBVIOUS
<1>3. credited[t] = {}
  BY DEF LoopInv, CreditDone
<1>4. credited' = [credited EXCEPT ![t] = {c}]
  BY <1>3
<1>5. Lease!Complete(t, c)
  BY <1>1, <1>2, <1>4 DEF Lease!Complete
<1> QED
  BY <1>5 DEF Lease!Next

\* Every step of the loop and of others is a step of the leases, or none at all.
LEMMA LeaseStep == TypeOK /\ LoopInv /\ [Next]_vars => [Lease!Next]_(Lease!lease)
<1> SUFFICES ASSUME TypeOK, LoopInv, [Next]_vars PROVE [Lease!Next]_(Lease!lease)
  OBVIOUS
<1>1. ASSUME UNCHANGED <<file, credited>> PROVE [Lease!Next]_(Lease!lease)
  BY <1>1 DEF Lease!lease
<1>2. \A t \in Tasks : file[t] \in TaskRecord
  BY DEF TypeOK
<1>3. file \in [Tasks -> TaskRecord]
  BY DEF TypeOK
<1>4. Loop \in Clients /\ Other \in Clients
  OBVIOUS
<1>5. CASE Claim
  <2>1. task \in Tasks /\ iteration \in Nat
    BY <1>5, TokensDiffer DEF Claim, LoopInv, Engaged
  <2>2. file' = [file EXCEPT ![task] = Claimed(file[task], Loop, iteration, 0)]
        /\ file[task].status = "todo" /\ UNCHANGED credited
    BY <1>5 DEF Claim, Claimable
  <2> DEFINE claim == Claimed(file[task], Loop, iteration, 0)
  <2>3. claim.status = "in_progress" /\ claim.claimed_by = Loop
    BY <1>2, <1>4, <2>1, ClaimedRecord
  <2> HIDE DEF claim
  <2>4. file' = [file EXCEPT ![task] = claim]
    BY <2>2 DEF claim
  <2>5. file'[task].status = "in_progress" /\ file'[task].claimed_by = Loop
        /\ \A u \in Tasks : u # task => file'[u] = file[u]
    BY <1>3, <2>1, <2>3, <2>4
  <2> QED
    BY <1>4, <2>1, <2>2, <2>5, GrantStep
<1>6. ASSUME pc \in Working, Mine, NEW status \in {"todo", "done"},
             file' = [file EXCEPT ![task] = Released(@, status)]
      PROVE  /\ task \in Tasks
             /\ file[task].status = "in_progress" /\ file[task].claimed_by = Loop
             /\ file'[task].status = status /\ file'[task].claimed_by = NoClient
             /\ \A u \in Tasks : u # task => file'[u] = file[u]
  <2>1. task \in Tasks /\ iteration \in OwnTokens
    BY <1>6 DEF LoopInv, Engaged
  <2>2. file[task].status = "in_progress" /\ file[task].claimed_by = Loop
    BY <1>6, <2>1, TokensDiffer DEF Mine, HoldsToken, LoopInv, FileClaimed
  <2>3. status \in Statuses
    BY <1>6 DEF Statuses
  <2>4. file'[task].status = status /\ file'[task].claimed_by = NoClient
        /\ \A u \in Tasks : u # task => file'[u] = file[u]
    BY <1>2, <1>3, <1>6, <2>1, <2>3, ReleasedRecord
  <2> QED
    BY <2>1, <2>2, <2>4
<1>7. CASE Failure \/ QualityFailure \/ AgentUnavailable
  <2>1. /\ pc \in Working /\ Mine /\ UNCHANGED credited
        /\ file' = [file EXCEPT ![task] = Released(@, "todo")]
    BY <1>7 DEF Failure, QualityFailure, AgentUnavailable, Requeue, Working
  <2> QED
    BY <1>6, <2>1, ReturnStep
<1>8. CASE Pass
  <2>1. /\ pc \in Working /\ Mine
        /\ file' = [file EXCEPT ![task] = Released(@, "done")]
        /\ credited' = [credited EXCEPT ![task] = @ \cup {Loop}]
    BY <1>8 DEF Pass, Working
  <2> QED
    BY <1>4, <1>6, <2>1, CompleteStep
<1>9. ASSUME NEW t \in Tasks, ForcedRecovery(t) PROVE [Lease!Next]_(Lease!lease)
  <2>1. /\ file' = [file EXCEPT ![t] = Released(file[t], "todo")]
        /\ file[t].status = "in_progress" /\ UNCHANGED credited
    BY <1>9 DEF ForcedRecovery, Intrude
  <2>2. file'[t].status = "todo" /\ file'[t].claimed_by = NoClient
        /\ \A u \in Tasks : u # t => file'[u] = file[u]
    BY <1>2, <1>3, <2>1, ReleasedRecord DEF Statuses
  <2> QED
    BY <2>1, <2>2, ReturnStep
<1>10. ASSUME NEW t \in Tasks, OtherClaims(t) PROVE [Lease!Next]_(Lease!lease)
  <2>1. /\ file' = [file EXCEPT ![t] = Claimed(file[t], Other, OtherToken, 0)]
        /\ file[t].status = "todo" /\ UNCHANGED credited
    BY <1>10 DEF OtherClaims, Intrude
  <2> DEFINE claim == Claimed(file[t], Other, OtherToken, 0)
  <2>2. claim.status = "in_progress" /\ claim.claimed_by = Other
    BY <1>2, <1>4, ClaimedRecord, TokensDiffer
  <2> HIDE DEF claim
  <2>3. file' = [file EXCEPT ![t] = claim]
    BY <2>1 DEF claim
  <2>4. file'[t].status = "in_progress" /\ file'[t].claimed_by = Other
        /\ \A u \in Tasks : u # t => file'[u] = file[u]
    BY <1>3, <2>2, <2>3
  <2> QED
    BY <1>4, <2>1, <2>4, GrantStep
<1>11. ASSUME NEW t \in Tasks, NEW status \in {"todo", "done"}, OtherEnds(t, status)
       PROVE  [Lease!Next]_(Lease!lease)
  <2>1. /\ file' = [file EXCEPT ![t] = Released(file[t], status)]
        /\ HoldsToken(file[t], OtherToken)
        /\ credited' = IF status = "done" THEN [credited EXCEPT ![t] = @ \cup {Other}]
                       ELSE credited
    BY <1>11 DEF OtherEnds, Intrude
  <2>2. file[t].status = "in_progress" /\ file[t].claimed_by = Other
    BY <2>1, TokensDiffer DEF HoldsToken, LoopInv, FileClaimed
  <2>3. file'[t].status = status /\ file'[t].claimed_by = NoClient
        /\ \A u \in Tasks : u # t => file'[u] = file[u]
    BY <1>2, <1>3, <2>1, ReleasedRecord DEF Statuses
  <2>4. CASE status = "todo"
    BY <2>1, <2>2, <2>3, <2>4, ReturnStep
  <2>5. CASE status = "done"
    BY <1>4, <2>1, <2>2, <2>3, <2>5, CompleteStep
  <2> QED
    BY <2>4, <2>5
<1>12. CASE Head \/ Close \/ Abort
  <2>1. UNCHANGED <<file, credited>>
    BY <1>12 DEF Head, LoopDone, OutOfIterations, NothingRunnable, Stop, NextTask,
       StartRefused, Close, Abort, Finish
  <2> QED
    BY <1>1, <2>1
<1>13. CASE Iteration
  <2>1. CASE ClaimRefused \/ AgentSucceeds \/ ValidatorsPass \/ QualityPasses
             \/ QualitySkipped \/ Escalated \/ Committed \/ Dispossessed \/ Interrupted
    <3>1. UNCHANGED <<file, credited>>
      BY <2>1 DEF ClaimRefused, AgentSucceeds, ValidatorsPass, QualityPasses,
         QualitySkipped, Escalated, Committed, Dispossessed, Interrupted, Advance
    <3> QED
      BY <1>1, <3>1
  <2> QED
    BY <1>5, <1>7, <1>8, <1>13, <2>1 DEF Iteration
<1>14. CASE UNCHANGED vars
  BY <1>1, <1>14 DEF vars
<1> QED
  BY <1>9, <1>10, <1>11, <1>12, <1>13, <1>14 DEF Next, LoopNext, Others

\* The files of the loop's run behave as TaskLease allows, intruders included: the same
\* abstract promise that RuntimeTasks keeps.
THEOREM Implements == Spec => LeaseSpec
<1>1. Init => Lease!Init
  BY LeaseInit
<1>2. TypeOK /\ LoopInv /\ [Next]_vars => [Lease!Next]_(Lease!lease)
  BY LeaseStep
<1> QED
  BY <1>1, <1>2, Inductive, PTL DEF Spec, LeaseSpec, Lease!Spec
=============================================================================
