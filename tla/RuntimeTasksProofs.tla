------------------------ MODULE RuntimeTasksProofs ------------------------
(***************************************************************************)
(* Proofs about RuntimeTasks, for any number of clients, recoveries, tasks *)
(* and tokens and any stretch of time: IndInv is an invariant, and from it *)
(* follow the properties and the implementation of TaskLease.              *)
(***************************************************************************)
EXTENDS RuntimeTasks, TLAPS

\* Claimed, the update of a record that claim_task makes, yields a record: in
\* progress, with the claimant, the token and the stamp it was given, one revision on.
LEMMA ClaimedRecord ==
  ASSUME NEW f \in TaskRecord, NEW c \in Clients, NEW k \in Nat, NEW now \in Nat
  PROVE  /\ Claimed(f, c, k, now) \in TaskRecord
         /\ Claimed(f, c, k, now).status = "in_progress"
         /\ Claimed(f, c, k, now).claim_token = k
         /\ Claimed(f, c, k, now).claimed_by = c
         /\ Claimed(f, c, k, now).revision = f.revision + 1
         /\ Claimed(f, c, k, now).heartbeat_at = now
  BY DEF Claimed, TaskRecord, Statuses

\* Released, the update that complete_task and requeue_task make, yields a record
\* with the status it was given, no claimant, no token, no stamp, one revision on.
LEMMA ReleasedRecord ==
  ASSUME NEW f \in TaskRecord, NEW status \in Statuses
  PROVE  /\ Released(f, status) \in TaskRecord
         /\ Released(f, status).status = status
         /\ Released(f, status).claim_token = NoToken
         /\ Released(f, status).claimed_by = NoClient
         /\ Released(f, status).revision = f.revision + 1
         /\ Released(f, status).heartbeat_at = Never
  BY DEF Released, TaskRecord, NoToken

\* heartbeat moves the stamp of a record and nothing else.
LEMMA BeatFields ==
  ASSUME TypeOK, TokenIssued, NEW c \in Clients, Owing(c)
  PROVE  /\ Beat(c) \in BeatRecord
         /\ Beat(c).client = c /\ Beat(c).task = main[c].task
         /\ Beat(c).token = main[c].token /\ Beat(c).now = clock
  BY DEF TypeOK, TokenIssued, Beat, BeatRecord

\* What an action leaves alone keeps what is said about it: each part of IndInv
\* depends on the variables named here and on no others.
LEMMA Frames ==
  /\ TokenIssued /\ UNCHANGED <<main, issued>> => TokenIssued'
  /\ TokenUnique /\ UNCHANGED main => TokenUnique'
  /\ FileIssued /\ UNCHANGED <<file, issued>> => FileIssued'
  /\ FileReleased /\ UNCHANGED file => FileReleased'
  /\ FileStamped /\ UNCHANGED file => FileStamped'
  /\ ClaimOwned /\ UNCHANGED <<main, file>> => ClaimOwned'
  /\ RevisionSeen /\ UNCHANGED <<main, file>> => RevisionSeen'
  /\ CreditDone /\ UNCHANGED <<credited, file>> => CreditDone'
  /\ CompletedOnce /\ UNCHANGED credited => CompletedOnce'
  /\ ThreadOff /\ UNCHANGED <<main, thread>> => ThreadOff'
  /\ BeatIssued /\ UNCHANGED <<beats, issued>> => BeatIssued'
  /\ BeatUnique /\ UNCHANGED beats => BeatUnique'
  /\ BeatOwned /\ UNCHANGED <<beats, main, thread>> => BeatOwned'
  /\ MainPast /\ UNCHANGED <<main, clock>> => MainPast'
  /\ BeatPast /\ UNCHANGED <<beats, clock>> => BeatPast'
  /\ FilePast /\ UNCHANGED <<file, clock>> => FilePast'
  /\ BeatNewer /\ UNCHANGED <<file, beats>> => BeatNewer'
  /\ CutoffPast /\ UNCHANGED <<recovery, clock>> => CutoffPast'
  /\ AllPunctual /\ UNCHANGED <<main, file, thread, clock>> => AllPunctual'
  /\ ScannedTask /\ UNCHANGED recovery => ScannedTask'
<1>1. TokenIssued /\ UNCHANGED <<main, issued>> => TokenIssued'
  BY DEF TokenIssued, Owing
<1>2. TokenUnique /\ UNCHANGED main => TokenUnique'
  BY DEF TokenUnique, Owing
<1>3. FileIssued /\ UNCHANGED <<file, issued>> => FileIssued'
  BY DEF FileIssued
<1>4. FileReleased /\ UNCHANGED file => FileReleased'
  BY DEF FileReleased
<1>5. FileStamped /\ UNCHANGED file => FileStamped'
  BY DEF FileStamped
<1>6. ClaimOwned /\ UNCHANGED <<main, file>> => ClaimOwned'
  BY DEF ClaimOwned, Owing
<1>7. RevisionSeen /\ UNCHANGED <<main, file>> => RevisionSeen'
  BY DEF RevisionSeen
<1>8. CreditDone /\ UNCHANGED <<credited, file>> => CreditDone'
  BY DEF CreditDone
<1>9. CompletedOnce /\ UNCHANGED credited => CompletedOnce'
  BY DEF CompletedOnce
<1>10. ThreadOff /\ UNCHANGED <<main, thread>> => ThreadOff'
  BY DEF ThreadOff
<1>11. BeatIssued /\ UNCHANGED <<beats, issued>> => BeatIssued'
  BY DEF BeatIssued
<1>12. BeatUnique /\ UNCHANGED beats => BeatUnique'
  BY DEF BeatUnique
<1>13. BeatOwned /\ UNCHANGED <<beats, main, thread>> => BeatOwned'
  BY DEF BeatOwned, Owing
<1>14. MainPast /\ UNCHANGED <<main, clock>> => MainPast'
  BY DEF MainPast
<1>15. BeatPast /\ UNCHANGED <<beats, clock>> => BeatPast'
  BY DEF BeatPast
<1>16. FilePast /\ UNCHANGED <<file, clock>> => FilePast'
  BY DEF FilePast
<1>17. BeatNewer /\ UNCHANGED <<file, beats>> => BeatNewer'
  BY DEF BeatNewer
<1>18. CutoffPast /\ UNCHANGED <<recovery, clock>> => CutoffPast'
  BY DEF CutoffPast
<1>19. AllPunctual /\ UNCHANGED <<main, file, thread, clock>> => AllPunctual'
  BY DEF AllPunctual, Punctual, Holds, Beating
<1>20. ScannedTask /\ UNCHANGED recovery => ScannedTask'
  BY DEF ScannedTask
<1> QED
  BY <1>1, <1>2, <1>3, <1>4, <1>5, <1>6, <1>7, <1>8, <1>9, <1>10, <1>11, <1>12, <1>13,
     <1>14, <1>15, <1>16, <1>17, <1>18, <1>19, <1>20

\* claim_task's caller picks task and revision from a look without the lock, and a
\* fresh token: the new claim expects what the file has, and no file has its token.
LEMMA BeginClaimKeeps ==
  ASSUME TypeOK, IndInv, NEW c \in Clients, NEW t \in Tasks, BeginClaim(c, t)
  PROVE  TypeOK' /\ IndInv'
<1>1. TypeOK'
  <2>1. (main \in [Clients -> MainRecord])'
    BY DEF BeginClaim, TypeOK, MainRecord, MainPCs, Tasks, Statuses, TaskRecord
  <2>2. (issued \in Nat)'
    BY DEF BeginClaim, TypeOK
  <2> QED
    BY <2>1, <2>2 DEF BeginClaim, TypeOK
<1>2. /\ main[c].pc = "idle"
      /\ file[t].status = "todo"
      /\ main'[c].pc = "claiming" /\ main'[c].task = t /\ main'[c].token = issued + 1
      /\ main'[c].now = clock /\ main'[c].expected = file[t].revision
      /\ \A x \in Clients : x # c => main'[x] = main[x]
      /\ issued' = issued + 1
      /\ UNCHANGED <<file, worker, thread, beats, recovery, clock, credited>>
  BY DEF BeginClaim, TypeOK
<1>3. FileReleased' /\ FileStamped' /\ CreditDone' /\ CompletedOnce' /\ BeatUnique' /\
      BeatPast' /\ FilePast' /\ BeatNewer' /\ CutoffPast' /\ ScannedTask'
  BY Frames DEF BeginClaim, IndInv, TokenInv, BeatInv, TimeInv
<1>4. TokenIssued'
  BY <1>1, <1>2 DEF TypeOK, IndInv, TokenInv, TokenIssued, Owing
<1>5. TokenUnique'
  BY <1>1, <1>2 DEF TypeOK, IndInv, TokenInv, TokenUnique, TokenIssued, Owing
<1>6. FileIssued'
  BY <1>1, <1>2 DEF TypeOK, TaskRecord, IndInv, TokenInv, FileIssued
<1>7. ClaimOwned'
  BY <1>1, <1>2 DEF TypeOK, IndInv, TokenInv, ClaimOwned, TokenIssued, FileIssued, Owing
<1>8. RevisionSeen'
  BY <1>1, <1>2 DEF TypeOK, MainRecord, IndInv, RevisionSeen
<1>9. ThreadOff'
  BY <1>1, <1>2 DEF TypeOK, IndInv, BeatInv, ThreadOff
<1>10. BeatIssued'
  BY <1>1, <1>2 DEF TypeOK, IndInv, BeatInv, BeatIssued
<1>11. BeatOwned'
  BY <1>1, <1>2 DEF TypeOK, IndInv, BeatInv, BeatOwned, BeatIssued, Owing
<1>12. MainPast'
  BY <1>1, <1>2 DEF TypeOK, IndInv, TimeInv, MainPast
<1>13. AllPunctual'
  BY NoClientAssumption, StaleAfterAssumption, <1>1, <1>2
  DEF TypeOK, IndInv, TimeInv, AllPunctual, Punctual, Holds, Beating
<1> QED
  BY <1>1, <1>3, <1>4, <1>5, <1>6, <1>7, <1>8, <1>9, <1>10, <1>11, <1>12, <1>13
  DEF IndInv, TokenInv, BeatInv, TimeInv

\* A claim whose expectation still holds puts its token into a todo task, which had
\* none, with the stamp it took before it asked for the lock.
LEMMA ClaimTaskKeeps ==
  ASSUME TypeOK, IndInv, NEW c \in Clients, ClaimTask(c)
  PROVE  TypeOK' /\ IndInv'
<1>1. TypeOK'
  <2>1. main[c].task \in Tasks /\ main[c].token \in Nat /\ main[c].now \in Nat
    BY DEF ClaimTask, TypeOK, MainRecord, IndInv, TokenInv, TokenIssued, Owing
  <2>2. Claimed(file[main[c].task], c, main[c].token, main[c].now) \in TaskRecord
    BY <2>1, ClaimedRecord DEF TypeOK
  <2>3. file' \in [Tasks -> TaskRecord]
    BY <2>2 DEF ClaimTask, TypeOK
  <2>4. main' \in [Clients -> MainRecord]
    BY DEF ClaimTask, TypeOK, MainRecord, MainPCs
  <2> QED
    BY <2>3, <2>4 DEF ClaimTask, TypeOK
<1>2. /\ main[c].pc = "claiming"
      /\ file[main[c].task].status = "todo" /\ file[main[c].task].claim_token = NoToken
      /\ main[c].token \in Nat /\ main[c].now \in Nat
      /\ main'[c].pc = "claimed" /\ main'[c].task = main[c].task
      /\ main'[c].token = main[c].token /\ main'[c].now = main[c].now
      /\ \A x \in Clients : x # c => main'[x] = main[x]
      /\ main[c].task \in Tasks
      /\ file'[main[c].task].status = "in_progress"
      /\ file'[main[c].task].claim_token = main[c].token
      /\ file'[main[c].task].claimed_by = c
      /\ file'[main[c].task].revision = file[main[c].task].revision + 1
      /\ file'[main[c].task].heartbeat_at = main[c].now
      /\ \A x \in Tasks : x # main[c].task => file'[x] = file[x]
      /\ UNCHANGED <<worker, thread, beats, recovery, clock, issued, credited>>
  <2>1. main[c].task \in Tasks /\ main[c].token \in Nat /\ main[c].now \in Nat
    BY DEF ClaimTask, TypeOK, MainRecord, IndInv, TokenInv, TokenIssued, Owing
  <2> DEFINE g == Claimed(file[main[c].task], c, main[c].token, main[c].now)
  <2>2. /\ file'[main[c].task] = g
        /\ \A x \in Tasks : x # main[c].task => file'[x] = file[x]
    BY <2>1 DEF ClaimTask, TypeOK
  <2>3. /\ g.status = "in_progress" /\ g.claim_token = main[c].token /\ g.claimed_by = c
        /\ g.revision = file[main[c].task].revision + 1 /\ g.heartbeat_at = main[c].now
    BY DEF Claimed
  <2>4. /\ main'[c] = [main[c] EXCEPT !.pc = "claimed"]
        /\ \A x \in Clients : x # c => main'[x] = main[x]
    BY DEF ClaimTask, TypeOK
  <2>5. /\ main'[c].pc = "claimed" /\ main'[c].task = main[c].task
        /\ main'[c].token = main[c].token /\ main'[c].now = main[c].now
    BY <2>4
  <2> QED
    BY <2>1, <2>2, <2>3, <2>4, <2>5 DEF ClaimTask, Claimable
<1>3. CompletedOnce' /\ BeatIssued' /\ BeatUnique' /\ BeatPast' /\ CutoffPast' /\
      ScannedTask'
  BY Frames DEF ClaimTask, IndInv, BeatInv, TimeInv
<1>4. TokenIssued'
  BY <1>1, <1>2 DEF TypeOK, IndInv, TokenInv, TokenIssued, Owing
<1>5. TokenUnique'
  BY <1>1, <1>2 DEF TypeOK, IndInv, TokenInv, TokenUnique, Owing
<1>6. FileIssued'
  BY <1>1, <1>2 DEF TypeOK, IndInv, TokenInv, FileIssued, TokenIssued, Owing
<1>7. FileReleased'
  BY <1>1, <1>2 DEF TypeOK, IndInv, TokenInv, FileReleased
<1>8. FileStamped'
  BY <1>1, <1>2 DEF TypeOK, IndInv, TokenInv, FileStamped, TokenIssued, Owing, Never
<1>9. ClaimOwned'
  BY <1>1, <1>2 DEF TypeOK, IndInv, TokenInv, ClaimOwned, TokenIssued, TokenUnique, Owing
<1>10. RevisionSeen'
  <2> SUFFICES ASSUME NEW d \in Clients, main'[d].pc = "claiming"
               PROVE  /\ main'[d].expected <= file'[main'[d].task].revision
                      /\ main'[d].expected = file'[main'[d].task].revision =>
                              file'[main'[d].task].status = "todo"
    BY DEF RevisionSeen
  <2>1. d # c /\ main'[d] = main[d]
    BY <1>2
  <2>2. /\ main[d].task \in Tasks
        /\ main[d].expected <= file[main[d].task].revision
        /\ main[d].expected = file[main[d].task].revision => file[main[d].task].status = "todo"
    BY <2>1 DEF IndInv, TokenInv, TokenIssued, Owing, RevisionSeen
  <2>3. main[d].expected \in Nat /\ file[main[d].task].revision \in Nat
    BY <2>2 DEF TypeOK, MainRecord, TaskRecord
  <2>4. CASE main[d].task = main[c].task
    BY <1>2, <2>1, <2>2, <2>3, <2>4
  <2>5. CASE main[d].task # main[c].task
    BY <1>2, <2>1, <2>2, <2>5
  <2> QED
    BY <2>4, <2>5
<1>11. CreditDone'
  BY <1>1, <1>2 DEF TypeOK, IndInv, CreditDone
<1>12. ThreadOff'
  BY <1>1, <1>2 DEF TypeOK, IndInv, BeatInv, ThreadOff
<1>13. BeatOwned'
  BY <1>1, <1>2 DEF IndInv, BeatInv, BeatOwned, Owing
<1>14. MainPast'
  BY <1>1, <1>2 DEF TypeOK, IndInv, TimeInv, MainPast
<1>15. FilePast'
  BY <1>1, <1>2 DEF TypeOK, IndInv, TimeInv, FilePast, MainPast
<1>16. BeatNewer'
  <2>1. \A b \in beats : b.task \in Tasks
    BY DEF TypeOK, BeatRecord
  <2>2. Owing(c) /\ thread[c] = "off"
    BY <1>2 DEF Owing, IndInv, BeatInv, ThreadOff
  <2>3. \A b \in beats : b.token # main[c].token
    BY <2>2 DEF IndInv, BeatInv, BeatOwned
  <2> QED
    BY <1>2, <2>1, <2>3 DEF IndInv, TimeInv, BeatNewer
<1>17. AllPunctual'
  <2> SUFFICES ASSUME NEW d \in Clients PROVE Punctual(d, clock)'
    BY DEF AllPunctual
  <2>1. /\ Punctual(d, clock)
        /\ Owing(d) => main[d].task \in Tasks /\ main[d].token \in 1 .. issued
    BY DEF IndInv, TokenInv, TokenIssued, TimeInv, AllPunctual
  <2>2. CASE d = c
    BY <1>2, <2>1, <2>2 DEF Punctual
  <2>3. CASE d # c /\ main[d].task = main[c].task
    BY <1>2, <2>1, <2>3
    DEF Punctual, Holds, HoldsToken, Owing, IndInv, TokenInv, TokenUnique
  <2>4. CASE d # c /\ main[d].task # main[c].task
    BY <1>2, <2>1, <2>4 DEF Punctual, Holds, HoldsToken, Owing, Beating
  <2> QED
    BY <2>2, <2>3, <2>4
<1> QED
  BY <1>1, <1>3, <1>4, <1>5, <1>6, <1>7, <1>8, <1>9, <1>10, <1>11, <1>12, <1>13, <1>14,
     <1>15, <1>16, <1>17
  DEF IndInv, TokenInv, BeatInv, TimeInv

\* A claim that is refused leaves the files alone and its client without a claim.
LEMMA ClaimRefusedKeeps ==
  ASSUME TypeOK, IndInv, NEW c \in Clients, ClaimRefused(c)
  PROVE  TypeOK' /\ IndInv'
<1>1. TypeOK'
  <2>1. (main \in [Clients -> MainRecord])'
    BY DEF ClaimRefused, TypeOK, MainRecord, MainPCs, Tasks, Resting, NoToken
  <2> QED
    BY <2>1 DEF ClaimRefused, TypeOK
<1>2. /\ main[c].pc = "claiming"
      /\ main'[c].pc = "idle" /\ main'[c].task = 0 /\ main'[c].token = 0
      /\ main'[c].now = 0
      /\ \A x \in Clients : x # c => main'[x] = main[x]
      /\ UNCHANGED <<file, worker, thread, beats, recovery, clock, issued,
         credited>>
  BY DEF ClaimRefused, TypeOK, MainPCs, Tasks, Resting, NoToken
<1>3. FileIssued' /\ FileReleased' /\ FileStamped' /\ CreditDone' /\ CompletedOnce' /\
      BeatIssued' /\ BeatUnique' /\ BeatPast' /\ FilePast' /\ BeatNewer' /\
      CutoffPast' /\ ScannedTask'
  BY Frames DEF ClaimRefused, IndInv, TokenInv, BeatInv, TimeInv
<1>4. TokenIssued'
  BY <1>1, <1>2 DEF TypeOK, IndInv, TokenInv, TokenIssued, Owing
<1>5. TokenUnique'
  BY <1>1, <1>2 DEF TypeOK, IndInv, TokenInv, TokenUnique, Owing
<1>6. ClaimOwned'
  BY <1>2 DEF IndInv, ClaimOwned, Owing
<1>7. RevisionSeen'
  BY <1>1, <1>2 DEF TypeOK, IndInv, RevisionSeen
<1>8. ThreadOff'
  BY <1>1, <1>2 DEF TypeOK, IndInv, BeatInv, ThreadOff
<1>9. BeatOwned'
  BY <1>1, <1>2 DEF IndInv, BeatInv, BeatOwned, Owing
<1>10. MainPast'
  BY <1>1, <1>2 DEF TypeOK, IndInv, TimeInv, MainPast
<1>11. AllPunctual'
  BY <1>1, <1>2 DEF IndInv, TimeInv, AllPunctual, Punctual, Holds, Beating
<1> QED
  BY <1>1, <1>3, <1>4, <1>5, <1>6, <1>7, <1>8, <1>9, <1>10, <1>11
  DEF IndInv, TokenInv, BeatInv, TimeInv

\* Heartbeat.__enter__ starts the thread of a client that holds a claim.
LEMMA EnterHeartbeatKeeps ==
  ASSUME TypeOK, IndInv, NEW c \in Clients, EnterHeartbeat(c)
  PROVE  TypeOK' /\ IndInv'
<1>1. TypeOK'
  <2>1. Beat(c) \in BeatRecord
    BY BeatFields DEF EnterHeartbeat, IndInv, TokenInv, Owing
  <2>2. beats' \subseteq BeatRecord
    BY <2>1 DEF EnterHeartbeat, TypeOK
  <2>3. worker' \in [Clients -> WorkerRecord]
    BY DEF EnterHeartbeat, TypeOK, WorkerRecord, MainRecord
  <2>4. main' \in [Clients -> MainRecord]
    BY DEF EnterHeartbeat, TypeOK, MainRecord, MainPCs
  <2> QED
    BY <2>2, <2>3, <2>4 DEF EnterHeartbeat, TypeOK
<1>2. /\ main[c].pc = "claimed"
      /\ thread[c] = "off"
      /\ main[c].token \in 1 .. issued
      /\ \A x \in beats : x.token # main[c].token
      /\ main'[c].pc = "entering" /\ main'[c].task = main[c].task
      /\ main'[c].token = main[c].token /\ main'[c].now = main[c].now
      /\ \A x \in Clients : x # c => main'[x] = main[x]
      /\ thread'[c] = "beating"
      /\ \A x \in Clients : x # c => thread'[x] = thread[x]
      /\ beats' = beats \cup {Beat(c)}
      /\ Beat(c).client = c /\ Beat(c).task = main[c].task
      /\ Beat(c).token = main[c].token /\ Beat(c).now = clock
      /\ UNCHANGED <<file, recovery, clock, issued, credited>>
  <2>1. /\ Beat(c).client = c /\ Beat(c).task = main[c].task
        /\ Beat(c).token = main[c].token /\ Beat(c).now = clock
    BY BeatFields DEF EnterHeartbeat, IndInv, TokenInv, Owing
  <2>2. Owing(c)
    BY DEF EnterHeartbeat, Owing
  <2>3. thread[c] # "beating" /\ main[c].token \in 1 .. issued
    BY <2>2 DEF EnterHeartbeat, IndInv, BeatInv, ThreadOff, TokenInv, TokenIssued
  <2>4. \A x \in beats : x.token # main[c].token
    BY <2>2, <2>3 DEF IndInv, BeatInv, BeatOwned
  <2> QED
    BY <2>1, <2>2, <2>3, <2>4 DEF EnterHeartbeat, TypeOK, IndInv, BeatInv, ThreadOff
<1>3. FileIssued' /\ FileReleased' /\ FileStamped' /\ CreditDone' /\ CompletedOnce' /\
      FilePast' /\ CutoffPast' /\ ScannedTask'
  BY Frames DEF EnterHeartbeat, IndInv, TokenInv, TimeInv
<1>4. TokenIssued'
  BY <1>1, <1>2 DEF TypeOK, IndInv, TokenInv, TokenIssued, Owing
<1>5. TokenUnique'
  BY <1>1, <1>2 DEF TypeOK, IndInv, TokenInv, TokenUnique, Owing
<1>6. ClaimOwned'
  BY <1>1, <1>2 DEF TypeOK, IndInv, ClaimOwned, TokenIssued, Owing
<1>7. RevisionSeen'
  BY NoClientAssumption, <1>1, <1>2 DEF IndInv, RevisionSeen
<1>8. ThreadOff'
  BY <1>1, <1>2 DEF TypeOK, IndInv, BeatInv, ThreadOff
<1>9. BeatIssued'
  BY <1>1, <1>2 DEF TypeOK, IndInv, BeatInv, BeatIssued
<1>10. BeatUnique'
  BY <1>1, <1>2 DEF TypeOK, IndInv, BeatInv, BeatUnique, BeatIssued
<1>11. BeatOwned'
  <2> SUFFICES ASSUME NEW b \in beats', NEW d \in Clients, Owing(d)', b.token = main'[d].token
               PROVE  b.client = d /\ b.task = main'[d].task /\ thread'[d] = "beating"
    BY DEF BeatOwned
  <2>1. Owing(d) /\ Owing(c) /\ main'[d].token = main[d].token /\ main'[d].task = main[d].task
    BY <1>2 DEF Owing
  <2>2. CASE b \in beats
    BY <1>2, <2>1, <2>2 DEF IndInv, BeatInv, BeatOwned
  <2>3. CASE b = Beat(c)
    BY <1>2, <2>1, <2>3 DEF IndInv, TokenInv, TokenUnique
  <2> QED
    BY <1>2, <2>2, <2>3
<1>12. MainPast'
  BY <1>1, <1>2 DEF TypeOK, IndInv, TimeInv, MainPast
<1>13. BeatPast'
  BY <1>1, <1>2 DEF TypeOK, IndInv, TimeInv, BeatPast
<1>14. BeatNewer'
  BY <1>1, <1>2 DEF IndInv, TokenInv, TimeInv, BeatNewer, FilePast, TokenIssued, Owing
<1>15. AllPunctual'
  <2> SUFFICES ASSUME NEW d \in Clients PROVE Punctual(d, clock)'
    BY DEF AllPunctual
  <2>1. /\ Punctual(d, clock)
        /\ Owing(d) => main[d].task \in Tasks /\ main[d].token \in 1 .. issued
    BY DEF IndInv, TokenInv, TokenIssued, TimeInv, AllPunctual
  <2>2. CASE d = c
    BY <1>2, <2>1, <2>2 DEF Punctual, Holds, Beating
  <2>3. CASE d # c
    BY <1>2, <2>1, <2>3 DEF Punctual, Holds, Beating
  <2> QED
    BY <2>2, <2>3
<1> QED
  BY <1>1, <1>3, <1>4, <1>5, <1>6, <1>7, <1>8, <1>9, <1>10, <1>11, <1>12, <1>13, <1>14,
     <1>15
  DEF IndInv, TokenInv, BeatInv, TimeInv

\* complete_task and requeue_task with the token in the file: the token goes, and if
\* the task is done, its first and only credit is given.
LEMMA EndTaskKeeps ==
  ASSUME TypeOK, IndInv, NEW c \in Clients, NEW status \in {"todo", "done"}, EndTask(c, status)
  PROVE  TypeOK' /\ IndInv'
<1>1. TypeOK'
  <2>1. main[c].task \in Tasks /\ main[c].token \in Nat
    BY DEF EndTask, TypeOK, IndInv, TokenInv, TokenIssued, Owing
  <2>2. Released(file[main[c].task], status) \in TaskRecord
    BY <2>1, ReleasedRecord DEF TypeOK, Statuses
  <2>3. file' \in [Tasks -> TaskRecord]
    BY <2>2 DEF EndTask, TypeOK
  <2>4. main' \in [Clients -> MainRecord]
    BY DEF EndTask, TypeOK, MainRecord, MainPCs
  <2>5. credited[main[c].task] \cup {<<c, main[c].token>>} \in SUBSET (Clients \X Nat)
    BY <2>1 DEF TypeOK
  <2>6. credited' \in [Tasks -> SUBSET (Clients \X Nat)]
    BY <2>5 DEF EndTask, TypeOK
  <2> QED
    BY <2>3, <2>4, <2>6 DEF EndTask, TypeOK
<1>2. /\ main[c].pc = "working"
      /\ file[main[c].task].claim_token = main[c].token
      /\ file[main[c].task].status = "in_progress"
      /\ main[c].token \in Nat /\ main[c].token # NoToken
      /\ credited[main[c].task] = {}
      /\ main'[c].pc = "ended" /\ main'[c].task = main[c].task
      /\ main'[c].token = main[c].token /\ main'[c].now = main[c].now
      /\ \A x \in Clients : x # c => main'[x] = main[x]
      /\ main[c].task \in Tasks
      /\ file'[main[c].task].status = status /\ file'[main[c].task].claim_token = NoToken
      /\ file'[main[c].task].claimed_by = NoClient
      /\ file'[main[c].task].revision = file[main[c].task].revision + 1
      /\ file'[main[c].task].heartbeat_at = Never
      /\ \A x \in Tasks : x # main[c].task => file'[x] = file[x]
      /\ credited'[main[c].task] = IF status = "done"
            THEN credited[main[c].task] \cup {<<c, main[c].token>>}
            ELSE credited[main[c].task]
      /\ \A x \in Tasks : x # main[c].task => credited'[x] = credited[x]
      /\ UNCHANGED <<worker, thread, beats, recovery, clock, issued>>
  <2>1. main[c].task \in Tasks
    BY DEF EndTask, TypeOK, IndInv, TokenInv, TokenIssued, Owing
  <2> DEFINE g == Released(file[main[c].task], status)
  <2>2. /\ file'[main[c].task] = g
        /\ \A x \in Tasks : x # main[c].task => file'[x] = file[x]
    BY <2>1 DEF EndTask, TypeOK
  <2>3. /\ g.status = status /\ g.claim_token = NoToken /\ g.claimed_by = NoClient
        /\ g.revision = file[main[c].task].revision + 1 /\ g.heartbeat_at = Never
    BY <2>1, ReleasedRecord DEF TypeOK, Statuses
  <2>4. /\ main'[c] = [main[c] EXCEPT !.pc = "ended"]
        /\ \A x \in Clients : x # c => main'[x] = main[x]
    BY DEF EndTask, TypeOK
  <2>5. /\ main'[c].pc = "ended" /\ main'[c].task = main[c].task
        /\ main'[c].token = main[c].token /\ main'[c].now = main[c].now
    BY <2>4
  <2>6. /\ credited'[main[c].task] = IF status = "done"
                THEN credited[main[c].task] \cup {<<c, main[c].token>>}
                ELSE credited[main[c].task]
        /\ \A x \in Tasks : x # main[c].task => credited'[x] = credited[x]
    BY <2>1 DEF EndTask, TypeOK
  <2>7. main[c].token \in Nat /\ main[c].token # NoToken
    BY DEF EndTask, TypeOK, IndInv, TokenInv, TokenIssued, Owing, NoToken
  <2>8. file[main[c].task].status = "in_progress" /\ credited[main[c].task] = {}
    BY <2>1, <2>7 DEF EndTask, HoldsToken, IndInv, TokenInv, FileReleased, CreditDone
  <2> QED
    BY <2>7, <2>8, <2>1, <2>2, <2>3, <2>4, <2>5, <2>6 DEF EndTask, HoldsToken
<1>3. BeatIssued' /\ BeatUnique' /\ BeatPast' /\ CutoffPast' /\ ScannedTask'
  BY Frames DEF EndTask, IndInv, BeatInv, TimeInv
<1>4. TokenIssued'
  BY <1>1, <1>2 DEF TypeOK, IndInv, TokenInv, TokenIssued, Owing
<1>5. TokenUnique'
  BY <1>2 DEF IndInv, TokenInv, TokenUnique, Owing
<1>6. FileIssued'
  BY <1>1, <1>2 DEF TypeOK, IndInv, TokenInv, FileIssued, TokenIssued, Owing, NoToken
<1>7. FileReleased'
  BY <1>1, <1>2 DEF TypeOK, IndInv, TokenInv, FileReleased
<1>8. FileStamped'
  BY <1>1, <1>2 DEF TypeOK, IndInv, TokenInv, FileStamped
<1>9. ClaimOwned'
  <2> SUFFICES ASSUME NEW d \in Clients, NEW t \in Tasks,
                      Owing(d)', file'[t].claim_token = main'[d].token
               PROVE  /\ t = main'[d].task
                      /\ main'[d].pc \notin {"claiming", "ended"}
                      /\ file'[t].claimed_by = d
    BY DEF ClaimOwned
  <2>1. Owing(d) /\ main'[d].token = main[d].token /\ main'[d].token # NoToken
    BY <1>2 DEF IndInv, TokenInv, TokenIssued, Owing, NoToken
  <2>2. t # main[c].task
    BY <1>2, <2>1
  <2>3. d # c
    BY <1>2, <2>1, <2>2 DEF IndInv, ClaimOwned
  <2> QED
    BY <1>2, <2>1, <2>2, <2>3 DEF IndInv, ClaimOwned
<1>10. RevisionSeen'
  <2>1. /\ \A d \in Clients : main[d].expected \in Nat
        /\ \A t \in Tasks : file[t].revision \in Nat
    BY DEF TypeOK, MainRecord, TaskRecord
  <2> SUFFICES ASSUME NEW d \in Clients, main'[d].pc = "claiming"
               PROVE  /\ main'[d].expected <= file'[main'[d].task].revision
                      /\ main'[d].expected = file'[main'[d].task].revision =>
                            file'[main'[d].task].status = "todo"
    BY DEF RevisionSeen
  <2>2. main'[d] = main[d] /\ main[d].task \in Tasks
    BY <1>2 DEF IndInv, TokenInv, TokenIssued, Owing
  <2>3. /\ main[d].expected <= file[main[d].task].revision
        /\ main[d].expected = file[main[d].task].revision => file[main[d].task].status = "todo"
    BY <2>2 DEF IndInv, RevisionSeen
  <2> QED
    BY <1>2, <2>1, <2>2, <2>3
<1>11. CreditDone'
  BY <1>1, <1>2 DEF TypeOK, IndInv, CreditDone
<1>12. CompletedOnce'
  BY <1>1, <1>2 DEF TypeOK, IndInv, CompletedOnce
<1>13. ThreadOff'
  BY <1>1, <1>2 DEF TypeOK, IndInv, BeatInv, ThreadOff
<1>14. BeatOwned'
  BY <1>2 DEF IndInv, BeatInv, BeatOwned, Owing
<1>15. MainPast'
  BY <1>1, <1>2 DEF TypeOK, IndInv, TimeInv, MainPast
<1>16. FilePast'
  BY <1>1, <1>2 DEF TypeOK, IndInv, TimeInv, FilePast, Never
<1>17. BeatNewer'
  <2>1. \A b \in beats : b.task \in Tasks /\ b.token \in 1 .. issued
    BY DEF TypeOK, BeatRecord, IndInv, BeatInv, BeatIssued
  <2> QED
    BY <1>2, <2>1 DEF IndInv, TimeInv, BeatNewer, NoToken
<1>18. AllPunctual'
  <2> SUFFICES ASSUME NEW d \in Clients PROVE Punctual(d, clock)'
    BY DEF AllPunctual
  <2>1. /\ Punctual(d, clock)
        /\ Owing(d) => main[d].task \in Tasks /\ main[d].token \in 1 .. issued
    BY DEF IndInv, TokenInv, TokenIssued, TimeInv, AllPunctual
  <2>2. CASE d = c
    BY <1>2, <2>2 DEF Punctual, Holds
  <2>3. CASE d # c /\ main[d].task = main[c].task
    BY <1>2, <2>1, <2>3 DEF Punctual, Holds, HoldsToken, Owing, NoToken
  <2>4. CASE d # c /\ main[d].task # main[c].task
    BY <1>2, <2>1, <2>4 DEF Punctual, Holds, HoldsToken, Owing, Beating
  <2> QED
    BY <2>2, <2>3, <2>4
<1> QED
  BY <1>1, <1>3, <1>4, <1>5, <1>6, <1>7, <1>8, <1>9, <1>10, <1>11, <1>12, <1>13, <1>14,
     <1>15, <1>16, <1>17, <1>18
  DEF IndInv, TokenInv, BeatInv, TimeInv

\* complete_task and requeue_task without the token in the file change no file.
LEMMA EndRefusedKeeps ==
  ASSUME TypeOK, IndInv, NEW c \in Clients, EndRefused(c)
  PROVE  TypeOK' /\ IndInv'
<1>1. TypeOK'
  <2>1. (main \in [Clients -> MainRecord])'
    BY DEF EndRefused, TypeOK, MainRecord, MainPCs, Tasks, Resting, NoToken
  <2>2. (thread \in [Clients -> {"off", "waiting", "beating"}])'
    BY DEF EndRefused, TypeOK
  <2> QED
    BY <2>1, <2>2 DEF EndRefused, TypeOK
<1>2. /\ main[c].pc = "working"
      /\ file[main[c].task].claim_token # main[c].token
      /\ main'[c].pc = "idle" /\ main'[c].task = 0 /\ main'[c].token = 0
      /\ main'[c].now = 0
      /\ \A x \in Clients : x # c => main'[x] = main[x]
      /\ thread'[c] = "off"
      /\ \A x \in Clients : x # c => thread'[x] = thread[x]
      /\ UNCHANGED <<file, worker, beats, recovery, clock, issued, credited>>
  BY DEF EndRefused, HoldsToken, TypeOK, MainPCs, Tasks, Resting, NoToken
<1>3. FileIssued' /\ FileReleased' /\ FileStamped' /\ CreditDone' /\ CompletedOnce' /\
      BeatIssued' /\ BeatUnique' /\ BeatPast' /\ FilePast' /\ BeatNewer' /\
      CutoffPast' /\ ScannedTask'
  BY Frames DEF EndRefused, IndInv, TokenInv, BeatInv, TimeInv
<1>4. TokenIssued'
  BY <1>1, <1>2 DEF TypeOK, IndInv, TokenInv, TokenIssued, Owing
<1>5. TokenUnique'
  BY <1>1, <1>2 DEF TypeOK, IndInv, TokenInv, TokenUnique, Owing
<1>6. ClaimOwned'
  BY <1>1, <1>2 DEF TypeOK, IndInv, ClaimOwned, TokenIssued, Owing
<1>7. RevisionSeen'
  BY <1>1, <1>2 DEF TypeOK, IndInv, RevisionSeen
<1>8. ThreadOff'
  BY <1>1, <1>2 DEF TypeOK, IndInv, BeatInv, ThreadOff
<1>9. BeatOwned'
  BY <1>1, <1>2 DEF IndInv, BeatInv, BeatOwned, Owing
<1>10. MainPast'
  BY <1>1, <1>2 DEF TypeOK, IndInv, TimeInv, MainPast
<1>11. AllPunctual'
  BY NoClientAssumption, StaleAfterAssumption, NTasksAssumption, ForcesAssumption, <1>1,
     <1>2
  DEF TypeOK, MainRecord, IndInv, TimeInv, AllPunctual, Punctual, Holds, Beating
<1> QED
  BY <1>1, <1>3, <1>4, <1>5, <1>6, <1>7, <1>8, <1>9, <1>10, <1>11
  DEF IndInv, TokenInv, BeatInv, TimeInv

\* Heartbeat.__exit__ forgets the thread, whether or not a beat is in flight.
LEMMA LeaveHeartbeatKeeps ==
  ASSUME TypeOK, IndInv, NEW c \in Clients, LeaveHeartbeat(c)
  PROVE  TypeOK' /\ IndInv'
<1>1. TypeOK'
  <2>1. (worker \in [Clients -> WorkerRecord])'
    BY DEF LeaveHeartbeat, TypeOK, MainPCs, WorkerRecord
  <2>2. (main \in [Clients -> MainRecord])'
    BY DEF LeaveHeartbeat, TypeOK, MainRecord, MainPCs, Tasks, Resting, NoToken
  <2>3. (thread \in [Clients -> {"off", "waiting", "beating"}])'
    BY DEF LeaveHeartbeat, TypeOK
  <2> QED
    BY <2>1, <2>2, <2>3 DEF LeaveHeartbeat, TypeOK
<1>2. /\ main[c].pc = "ended"
      /\ main'[c].pc = "idle" /\ main'[c].task = 0 /\ main'[c].token = 0
      /\ main'[c].now = 0
      /\ \A x \in Clients : x # c => main'[x] = main[x]
      /\ thread'[c] = "off"
      /\ \A x \in Clients : x # c => thread'[x] = thread[x]
      /\ UNCHANGED <<file, beats, recovery, clock, issued, credited>>
  BY DEF LeaveHeartbeat, TypeOK, MainPCs, Tasks, Resting, NoToken
<1>3. FileIssued' /\ FileReleased' /\ FileStamped' /\ CreditDone' /\ CompletedOnce' /\
      BeatIssued' /\ BeatUnique' /\ BeatPast' /\ FilePast' /\ BeatNewer' /\
      CutoffPast' /\ ScannedTask'
  BY Frames DEF LeaveHeartbeat, IndInv, TokenInv, BeatInv, TimeInv
<1>4. TokenIssued'
  BY <1>1, <1>2 DEF TypeOK, IndInv, TokenInv, TokenIssued, Owing
<1>5. TokenUnique'
  BY <1>2 DEF IndInv, TokenInv, TokenUnique, Owing
<1>6. ClaimOwned'
  BY <1>1, <1>2 DEF TypeOK, IndInv, ClaimOwned, TokenIssued, Owing
<1>7. RevisionSeen'
  BY <1>1, <1>2 DEF TypeOK, IndInv, RevisionSeen
<1>8. ThreadOff'
  BY <1>1, <1>2 DEF TypeOK, IndInv, BeatInv, ThreadOff
<1>9. BeatOwned'
  BY <1>1, <1>2 DEF IndInv, BeatInv, BeatOwned, Owing
<1>10. MainPast'
  BY <1>1, <1>2 DEF TypeOK, IndInv, TimeInv, MainPast
<1>11. AllPunctual'
  BY <1>1, <1>2 DEF IndInv, TimeInv, AllPunctual, Punctual, Holds, Beating
<1> QED
  BY <1>1, <1>3, <1>4, <1>5, <1>6, <1>7, <1>8, <1>9, <1>10, <1>11
  DEF IndInv, TokenInv, BeatInv, TimeInv

\* A client that is killed leaves its claim in the file and stops beating.
LEMMA CrashKeeps ==
  ASSUME TypeOK, IndInv, NEW c \in Clients, Crash(c)
  PROVE  TypeOK' /\ IndInv'
<1>1. TypeOK'
  <2>1. (main \in [Clients -> MainRecord])'
    BY DEF Crash, TypeOK, MainRecord, MainPCs, Tasks, Resting, NoToken
  <2>2. (thread \in [Clients -> {"off", "waiting", "beating"}])'
    BY DEF Crash, TypeOK
  <2>3. (beats \subseteq BeatRecord)'
    BY DEF Crash, TypeOK, MainPCs
  <2> QED
    BY <2>1, <2>2, <2>3 DEF Crash, TypeOK
<1>2. /\ main[c].pc # "crashed"
      /\ main'[c].pc = "crashed" /\ main'[c].task = 0 /\ main'[c].token = 0
      /\ main'[c].now = 0
      /\ \A x \in Clients : x # c => main'[x] = main[x]
      /\ thread'[c] = "off"
      /\ \A x \in Clients : x # c => thread'[x] = thread[x]
      /\ beats' = {b \in beats : b.client # c}
      /\ UNCHANGED <<file, worker, recovery, clock, issued, credited>>
  BY DEF Crash, TypeOK, MainPCs, Tasks, Resting, NoToken
<1>3. FileIssued' /\ FileReleased' /\ FileStamped' /\ CreditDone' /\ CompletedOnce' /\
      FilePast' /\ CutoffPast' /\ ScannedTask'
  BY Frames DEF Crash, IndInv, TokenInv, TimeInv
<1>4. TokenIssued'
  BY <1>1, <1>2 DEF TypeOK, IndInv, TokenInv, TokenIssued, Owing
<1>5. TokenUnique'
  BY <1>1, <1>2 DEF TypeOK, IndInv, TokenInv, TokenUnique, Owing
<1>6. ClaimOwned'
  BY <1>1, <1>2 DEF TypeOK, IndInv, ClaimOwned, TokenIssued, Owing
<1>7. RevisionSeen'
  BY <1>1, <1>2 DEF TypeOK, IndInv, RevisionSeen
<1>8. ThreadOff'
  BY <1>1, <1>2 DEF TypeOK, IndInv, BeatInv, ThreadOff
<1>9. BeatIssued'
  BY <1>1, <1>2 DEF TypeOK, IndInv, BeatInv, BeatIssued
<1>10. BeatUnique'
  BY <1>1, <1>2 DEF TypeOK, IndInv, BeatInv, BeatUnique, BeatIssued
<1>11. BeatOwned'
  BY <1>1, <1>2 DEF IndInv, BeatInv, BeatOwned, Owing
<1>12. MainPast'
  BY <1>1, <1>2 DEF TypeOK, IndInv, TimeInv, MainPast
<1>13. BeatPast'
  BY <1>1, <1>2 DEF TypeOK, IndInv, TimeInv, BeatPast
<1>14. BeatNewer'
  BY <1>1, <1>2 DEF TypeOK, IndInv, TimeInv, BeatNewer, FilePast, BeatOwned
<1>15. AllPunctual'
  BY <1>1, <1>2 DEF IndInv, TimeInv, AllPunctual, Punctual, Holds, Beating
<1> QED
  BY <1>1, <1>3, <1>4, <1>5, <1>6, <1>7, <1>8, <1>9, <1>10, <1>11, <1>12, <1>13, <1>14,
     <1>15
  DEF IndInv, TokenInv, BeatInv, TimeInv

\* A client that starts again has no claim and no thread.
LEMMA RestartKeeps ==
  ASSUME TypeOK, IndInv, NEW c \in Clients, Restart(c)
  PROVE  TypeOK' /\ IndInv'
<1>1. TypeOK'
  <2>1. (main \in [Clients -> MainRecord])'
    BY DEF Restart, TypeOK, MainRecord, MainPCs, Tasks, Resting, NoToken
  <2> QED
    BY <2>1 DEF Restart, TypeOK
<1>2. /\ main[c].pc = "crashed"
      /\ main'[c].pc = "idle" /\ main'[c].task = 0 /\ main'[c].token = 0
      /\ main'[c].now = 0
      /\ \A x \in Clients : x # c => main'[x] = main[x]
      /\ UNCHANGED <<file, worker, thread, beats, recovery, clock, issued,
         credited>>
  BY DEF Restart, TypeOK, MainPCs, Tasks, Resting, NoToken
<1>3. FileIssued' /\ FileReleased' /\ FileStamped' /\ CreditDone' /\ CompletedOnce' /\
      BeatIssued' /\ BeatUnique' /\ BeatPast' /\ FilePast' /\ BeatNewer' /\
      CutoffPast' /\ ScannedTask'
  BY Frames DEF Restart, IndInv, TokenInv, BeatInv, TimeInv
<1>4. TokenIssued'
  BY <1>1, <1>2 DEF TypeOK, IndInv, TokenInv, TokenIssued, Owing
<1>5. TokenUnique'
  BY <1>1, <1>2 DEF TypeOK, IndInv, TokenInv, TokenUnique, Owing
<1>6. ClaimOwned'
  BY <1>1, <1>2 DEF TypeOK, IndInv, ClaimOwned, TokenIssued, Owing
<1>7. RevisionSeen'
  BY <1>1, <1>2 DEF TypeOK, IndInv, RevisionSeen
<1>8. ThreadOff'
  BY <1>1, <1>2 DEF TypeOK, IndInv, BeatInv, ThreadOff
<1>9. BeatOwned'
  BY <1>1, <1>2 DEF IndInv, BeatInv, BeatOwned, Owing
<1>10. MainPast'
  BY <1>1, <1>2 DEF TypeOK, IndInv, TimeInv, MainPast
<1>11. AllPunctual'
  BY <1>1, <1>2 DEF IndInv, TimeInv, AllPunctual, Punctual, Holds, Beating
<1> QED
  BY <1>1, <1>3, <1>4, <1>5, <1>6, <1>7, <1>8, <1>9, <1>10, <1>11
  DEF IndInv, TokenInv, BeatInv, TimeInv

\* A thread sets out to beat with its client's token and the time of now.
LEMMA StartBeatKeeps ==
  ASSUME TypeOK, IndInv, NEW c \in Clients, StartBeat(c)
  PROVE  TypeOK' /\ IndInv'
<1>1. TypeOK'
  <2>1. Beat(c) \in BeatRecord
    BY BeatFields DEF StartBeat, IndInv, TokenInv, Owing
  <2>2. beats' \subseteq BeatRecord
    BY <2>1 DEF StartBeat, TypeOK
  <2> QED
    BY <2>2 DEF StartBeat, TypeOK
<1>2. /\ main[c].pc \in {"working", "ended"}
      /\ thread[c] = "waiting"
      /\ main[c].token \in 1 .. issued
      /\ \A x \in beats : x.token # main[c].token
      /\ thread'[c] = "beating"
      /\ \A x \in Clients : x # c => thread'[x] = thread[x]
      /\ beats' = beats \cup {Beat(c)}
      /\ Beat(c).client = c /\ Beat(c).task = main[c].task
      /\ Beat(c).token = main[c].token /\ Beat(c).now = clock
      /\ UNCHANGED <<file, worker, main, recovery, clock, issued, credited>>
  <2>1. /\ Beat(c).client = c /\ Beat(c).task = main[c].task
        /\ Beat(c).token = main[c].token /\ Beat(c).now = clock
    BY BeatFields DEF StartBeat, IndInv, TokenInv, Owing
  <2>2. Owing(c)
    BY DEF StartBeat, Owing
  <2>3. thread[c] # "beating" /\ main[c].token \in 1 .. issued
    BY <2>2 DEF StartBeat, IndInv, TokenInv, TokenIssued
  <2>4. \A x \in beats : x.token # main[c].token
    BY <2>2, <2>3 DEF IndInv, BeatInv, BeatOwned
  <2> QED
    BY <2>1, <2>2, <2>3, <2>4 DEF StartBeat, TypeOK
<1>3. TokenIssued' /\ TokenUnique' /\ FileIssued' /\ FileReleased' /\ FileStamped' /\
      ClaimOwned' /\ RevisionSeen' /\ CreditDone' /\ CompletedOnce' /\ MainPast'
      /\ FilePast' /\ CutoffPast' /\ ScannedTask'
  BY Frames DEF StartBeat, IndInv, TokenInv, TimeInv
<1>4. ThreadOff'
  BY <1>1, <1>2 DEF TypeOK, IndInv, BeatInv, ThreadOff
<1>5. BeatIssued'
  BY <1>1, <1>2 DEF TypeOK, IndInv, BeatInv, BeatIssued
<1>6. BeatUnique'
  BY <1>1, <1>2 DEF TypeOK, IndInv, BeatInv, BeatUnique
<1>7. BeatOwned'
  BY <1>1, <1>2 DEF IndInv, TokenInv, BeatInv, BeatOwned, TokenUnique, Owing
<1>8. BeatPast'
  BY <1>1, <1>2 DEF TypeOK, IndInv, TimeInv, BeatPast
<1>9. BeatNewer'
  BY <1>1, <1>2 DEF TypeOK, TaskRecord, BeatRecord, IndInv, TimeInv, BeatNewer, FilePast
<1>10. AllPunctual'
  BY <1>1, <1>2 DEF IndInv, TimeInv, AllPunctual, Punctual, Holds, Beating
<1> QED
  BY <1>1, <1>3, <1>4, <1>5, <1>6, <1>7, <1>8, <1>9, <1>10
  DEF IndInv, TokenInv, BeatInv, TimeInv

\* A beat with the token in the file moves the stamp forward.
LEMMA WriteBeatKeeps ==
  ASSUME TypeOK, IndInv, NEW b \in beats, WriteBeat(b)
  PROVE  TypeOK' /\ IndInv'
<1>1. TypeOK'
  <2>1. b \in BeatRecord
    BY DEF TypeOK
  <2>2. [file[b.task] EXCEPT !.heartbeat_at = b.now] \in TaskRecord
    BY <2>1 DEF TypeOK, TaskRecord, BeatRecord
  <2>3. file' \in [Tasks -> TaskRecord]
    BY <2>1, <2>2 DEF WriteBeat, TypeOK
  <2>4. [b EXCEPT !.pc = "written"] \in BeatRecord
    BY <2>1 DEF BeatRecord
  <2>5. beats' \subseteq BeatRecord
    BY <2>4 DEF WriteBeat, TypeOK
  <2> QED
    BY <2>3, <2>5 DEF WriteBeat, TypeOK
<1>2. /\ file[b.task].claim_token = b.token /\ file[b.task].status = "in_progress"
      /\ b.task \in Tasks /\ b.now \in Nat /\ b.token \in Nat
      /\ file'[b.task].heartbeat_at = b.now /\ file'[b.task].status = file[b.task].status
      /\ file'[b.task].claim_token = file[b.task].claim_token
      /\ file'[b.task].claimed_by = file[b.task].claimed_by
      /\ file'[b.task].revision = file[b.task].revision
      /\ \A x \in Tasks : x # b.task => file'[x] = file[x]
      /\ \A x \in beats' : x \in beats \/ (x.client = b.client /\ x.task = b.task /\
         x.token = b.token /\ x.now = b.now /\ b \notin beats')
      /\ UNCHANGED <<worker, main, thread, recovery, clock, issued, credited>>
  BY DEF WriteBeat, Beats, TypeOK, MainPCs, WorkerRecord, BeatRecord, RecoveryRecord
<1>3. TokenIssued' /\ TokenUnique' /\ CompletedOnce' /\ ThreadOff' /\ MainPast' /\
      CutoffPast' /\ ScannedTask'
  BY Frames DEF WriteBeat, IndInv, TokenInv, BeatInv, TimeInv
<1>4. FileIssued'
  BY <1>1, <1>2 DEF TypeOK, IndInv, TokenInv, FileIssued
<1>5. FileReleased'
  BY <1>1, <1>2 DEF TypeOK, IndInv, TokenInv, FileReleased
<1>6. FileStamped'
  BY <1>1, <1>2 DEF TypeOK, IndInv, TokenInv, FileStamped, TokenIssued, Never
<1>7. ClaimOwned'
  BY <1>1, <1>2 DEF TypeOK, IndInv, ClaimOwned, TokenIssued, Owing
<1>8. RevisionSeen'
  BY <1>1, <1>2 DEF TypeOK, IndInv, TokenInv, RevisionSeen, TokenIssued, Owing
<1>9. CreditDone'
  BY <1>1, <1>2 DEF TypeOK, IndInv, CreditDone
<1>10. BeatIssued'
  BY <1>1, <1>2 DEF TypeOK, IndInv, BeatInv, BeatIssued
<1>11. BeatUnique'
  <2>1. \A x \in beats' : x = [b EXCEPT !.pc = "written"] \/ (x \in beats /\ x # b)
    BY DEF WriteBeat
  <2>2. [b EXCEPT !.pc = "written"].token = b.token
    OBVIOUS
  <2> QED
    BY <2>1, <2>2 DEF IndInv, BeatInv, BeatUnique
<1>12. BeatOwned'
  BY <1>1, <1>2 DEF IndInv, BeatInv, BeatOwned, Owing
<1>13. BeatPast'
  BY <1>1, <1>2 DEF TypeOK, IndInv, TimeInv, BeatPast
<1>14. FilePast'
  BY <1>1, <1>2 DEF TypeOK, IndInv, TimeInv, FilePast, BeatPast
<1>15. BeatNewer'
  BY <1>1, <1>2 DEF TypeOK, BeatRecord, IndInv, BeatInv, TimeInv, BeatNewer, BeatUnique
<1>16. AllPunctual'
  <2> SUFFICES ASSUME NEW d \in Clients
               PROVE  Punctual(d, clock)'
    BY DEF AllPunctual
  <2>1. Punctual(d, clock)
    BY DEF IndInv, TimeInv, AllPunctual
  <2>2. main[d].pc = "claiming" => clock - main[d].now < StaleAfter
    BY <2>1 DEF Punctual
  <2>3. ASSUME Holds(d)', Beating(d)'
        PROVE  clock - file'[main[d].task].heartbeat_at < StaleAfter
    <3>1. main[d].task \in Tasks /\ Holds(d) /\ Beating(d)
      BY <1>2, <2>3 DEF Holds, Beating, HoldsToken, Owing, IndInv, TokenInv, TokenIssued
    <3>2. clock - file[main[d].task].heartbeat_at < StaleAfter
      BY <2>1, <3>1 DEF Punctual
    <3>3. CASE main[d].task = b.task
      <4>1. file[b.task].heartbeat_at <= b.now
        BY <1>2 DEF IndInv, TimeInv, BeatNewer
      <4>2. clock \in Nat /\ file[b.task].heartbeat_at \in Int
        BY <1>2 DEF TypeOK, TaskRecord, Never
      <4> QED
        BY <1>2, <3>2, <3>3, <4>1, <4>2, StaleAfterAssumption
    <3>4. CASE main[d].task # b.task
      BY <1>2, <3>1, <3>2, <3>4
    <3> QED
      BY <3>3, <3>4
  <2> QED
    BY <1>2, <2>2, <2>3 DEF Punctual
<1> QED
  BY <1>1, <1>3, <1>4, <1>5, <1>6, <1>7, <1>8, <1>9, <1>10, <1>11, <1>12, <1>13, <1>14,
     <1>15, <1>16
  DEF IndInv, TokenInv, BeatInv, TimeInv

\* A beat whose token has left the file ends without a change.
LEMMA BeatRefusedKeeps ==
  ASSUME TypeOK, IndInv, NEW b \in beats, BeatRefused(b)
  PROVE  TypeOK' /\ IndInv'
<1>1. TypeOK'
  <2>1. b \in BeatRecord /\ b.client \in Clients
    BY DEF TypeOK, BeatRecord
  <2>2. main' \in [Clients -> MainRecord]
    BY <2>1 DEF BeatRefused, BeatReturns, TypeOK, MainRecord, MainPCs
  <2>3. thread' \in [Clients -> {"off", "waiting", "beating"}]
    BY <2>1 DEF BeatRefused, BeatReturns, TypeOK
  <2>4. beats' \subseteq BeatRecord
    BY DEF BeatRefused, BeatReturns, TypeOK
  <2> QED
    BY <2>2, <2>3, <2>4 DEF BeatRefused, TypeOK
<1>2. /\ file[b.task].claim_token # b.token \/ file[b.task].status # "in_progress"
      /\ beats' = beats \ {b}
      /\ b.client \in Clients
      /\ \A x \in Clients : main'[x].task = main[x].task /\ main'[x].token =
         main[x].token /\ main'[x].now = main[x].now /\ main'[x].expected =
         main[x].expected
      /\ \A x \in Clients : main'[x].pc = main[x].pc \/ (main[x].pc = "entering" /\
         main'[x].pc = "working")
      /\ \A x \in Clients : x # b.client \/ ~Own(b) => main'[x] = main[x] /\
         thread'[x] = thread[x]
      /\ Own(b) => thread'[b.client] # "beating"
      /\ UNCHANGED <<file, worker, recovery, clock, issued, credited>>
  <2>1. b.client \in Clients
    BY DEF TypeOK, BeatRecord
  <2>2. \A x \in Clients : x # b.client => main'[x] = main[x] /\ thread'[x] = thread[x]
    BY <2>1 DEF BeatRefused, BeatReturns
  <2>3. /\ main'[b.client] = [main[b.client] EXCEPT !.pc =
                IF Own(b) /\ main[b.client].pc = "entering" THEN "working" ELSE main[b.client].pc]
        /\ ~Own(b) => thread'[b.client] = thread[b.client]
        /\ Own(b) => thread'[b.client] # "beating"
    BY <2>1 DEF BeatRefused, BeatReturns, TypeOK
  <2>4. /\ main'[b.client].task = main[b.client].task
        /\ main'[b.client].token = main[b.client].token
        /\ main'[b.client].now = main[b.client].now
        /\ main'[b.client].expected = main[b.client].expected
        /\ main'[b.client].pc = IF Own(b) /\ main[b.client].pc = "entering"
                                THEN "working" ELSE main[b.client].pc
    BY <2>1, <2>3
  <2>5. ~Own(b) => main'[b.client] = main[b.client]
    BY <2>1, <2>3 DEF TypeOK, MainRecord
  <2> QED
    BY <2>1, <2>2, <2>3, <2>4, <2>5 DEF BeatRefused, BeatReturns, Beats
<1>3. FileIssued' /\ FileReleased' /\ FileStamped' /\ CreditDone' /\ CompletedOnce' /\
      FilePast' /\ CutoffPast' /\ ScannedTask'
  BY Frames DEF BeatRefused, IndInv, TokenInv, TimeInv
<1>4. TokenIssued'
  BY <1>1, <1>2 DEF Own, TypeOK, IndInv, TokenInv, TokenIssued, Owing
<1>5. TokenUnique'
  BY <1>1, <1>2 DEF Own, TypeOK, IndInv, TokenInv, TokenUnique, Owing
<1>6. ClaimOwned'
  BY <1>1, <1>2 DEF Own, TypeOK, IndInv, ClaimOwned, TokenIssued, Owing
<1>7. RevisionSeen'
  BY <1>1, <1>2 DEF Own, TypeOK, IndInv, RevisionSeen
<1>8. ThreadOff'
  BY <1>1, <1>2 DEF Own, TypeOK, IndInv, BeatInv, ThreadOff
<1>9. BeatIssued'
  BY <1>1, <1>2 DEF Own, TypeOK, IndInv, BeatInv, BeatIssued
<1>10. BeatUnique'
  BY <1>1, <1>2 DEF Own, TypeOK, IndInv, BeatInv, BeatUnique, BeatIssued
<1>11. BeatOwned'
  BY <1>1, <1>2 DEF Own, IndInv, BeatInv, BeatOwned, BeatUnique, Owing
<1>12. MainPast'
  BY <1>1, <1>2 DEF Own, TypeOK, IndInv, TimeInv, MainPast
<1>13. BeatPast'
  BY <1>1, <1>2 DEF Own, TypeOK, IndInv, TimeInv, BeatPast
<1>14. BeatNewer'
  BY <1>1, <1>2 DEF Own, TypeOK, IndInv, TimeInv, BeatNewer, FilePast, BeatOwned
<1>15. AllPunctual'
  BY <1>1, <1>2 DEF Own, IndInv, TimeInv, AllPunctual, Punctual, Holds, Beating
<1> QED
  BY <1>1, <1>3, <1>4, <1>5, <1>6, <1>7, <1>8, <1>9, <1>10, <1>11, <1>12, <1>13, <1>14,
     <1>15
  DEF IndInv, TokenInv, BeatInv, TimeInv

\* A beat ends by writing the worker file, and its thread may beat again.
LEMMA SyncBeatKeeps ==
  ASSUME TypeOK, IndInv, NEW b \in beats, SyncBeat(b)
  PROVE  TypeOK' /\ IndInv'
<1>1. TypeOK'
  <2>1. b \in BeatRecord /\ b.client \in Clients
    BY DEF TypeOK, BeatRecord
  <2>2. main' \in [Clients -> MainRecord]
    BY <2>1 DEF SyncBeat, BeatReturns, TypeOK, MainRecord, MainPCs
  <2>3. thread' \in [Clients -> {"off", "waiting", "beating"}]
    BY <2>1 DEF SyncBeat, BeatReturns, TypeOK
  <2>4. beats' \subseteq BeatRecord
    BY DEF SyncBeat, BeatReturns, TypeOK
  <2>5. worker' \in [Clients -> WorkerRecord]
    BY <2>1 DEF SyncBeat, TypeOK, WorkerRecord, BeatRecord, Tasks
  <2> QED
    BY <2>2, <2>3, <2>4, <2>5 DEF SyncBeat, TypeOK
<1>2. /\ beats' = beats \ {b}
      /\ b.client \in Clients
      /\ \A x \in Clients : main'[x].task = main[x].task /\ main'[x].token =
         main[x].token /\ main'[x].now = main[x].now /\ main'[x].expected =
         main[x].expected
      /\ \A x \in Clients : main'[x].pc = main[x].pc \/ (main[x].pc = "entering" /\
         main'[x].pc = "working")
      /\ \A x \in Clients : x # b.client \/ ~Own(b) => main'[x] = main[x] /\
         thread'[x] = thread[x]
      /\ Own(b) => thread'[b.client] # "beating"
      /\ Own(b) => thread'[b.client] = "waiting"
      /\ UNCHANGED <<file, recovery, clock, issued, credited>>
  <2>1. b.client \in Clients
    BY DEF TypeOK, BeatRecord
  <2>2. \A x \in Clients : x # b.client => main'[x] = main[x] /\ thread'[x] = thread[x]
    BY <2>1 DEF SyncBeat, BeatReturns
  <2>3. /\ main'[b.client] = [main[b.client] EXCEPT !.pc =
                IF Own(b) /\ main[b.client].pc = "entering" THEN "working" ELSE main[b.client].pc]
        /\ ~Own(b) => thread'[b.client] = thread[b.client]
        /\ Own(b) => thread'[b.client] = "waiting"
    BY <2>1 DEF SyncBeat, BeatReturns, TypeOK
  <2>4. /\ main'[b.client].task = main[b.client].task
        /\ main'[b.client].token = main[b.client].token
        /\ main'[b.client].now = main[b.client].now
        /\ main'[b.client].expected = main[b.client].expected
        /\ main'[b.client].pc = IF Own(b) /\ main[b.client].pc = "entering"
                                THEN "working" ELSE main[b.client].pc
    BY <2>1, <2>3
  <2>5. ~Own(b) => main'[b.client] = main[b.client]
    BY <2>1, <2>3 DEF TypeOK, MainRecord
  <2> QED
    BY <2>1, <2>2, <2>3, <2>4, <2>5 DEF SyncBeat, BeatReturns
<1>3. FileIssued' /\ FileReleased' /\ FileStamped' /\ CreditDone' /\ CompletedOnce' /\
      FilePast' /\ CutoffPast' /\ ScannedTask'
  BY Frames DEF SyncBeat, IndInv, TokenInv, TimeInv
<1>4. TokenIssued'
  BY <1>1, <1>2 DEF Own, TypeOK, IndInv, TokenInv, TokenIssued, Owing
<1>5. TokenUnique'
  BY <1>1, <1>2 DEF Own, TypeOK, IndInv, TokenInv, TokenUnique, Owing
<1>6. ClaimOwned'
  BY <1>1, <1>2 DEF Own, TypeOK, IndInv, ClaimOwned, TokenIssued, Owing
<1>7. RevisionSeen'
  BY <1>1, <1>2 DEF Own, TypeOK, IndInv, RevisionSeen
<1>8. ThreadOff'
  BY <1>1, <1>2 DEF Own, TypeOK, IndInv, BeatInv, ThreadOff
<1>9. BeatIssued'
  BY <1>1, <1>2 DEF Own, TypeOK, IndInv, BeatInv, BeatIssued
<1>10. BeatUnique'
  BY <1>1, <1>2 DEF Own, TypeOK, IndInv, BeatInv, BeatUnique, BeatIssued
<1>11. BeatOwned'
  BY <1>1, <1>2 DEF Own, IndInv, BeatInv, BeatOwned, BeatUnique, Owing
<1>12. MainPast'
  BY <1>1, <1>2 DEF Own, TypeOK, IndInv, TimeInv, MainPast
<1>13. BeatPast'
  BY <1>1, <1>2 DEF Own, TypeOK, IndInv, TimeInv, BeatPast
<1>14. BeatNewer'
  BY <1>1, <1>2 DEF Own, TypeOK, IndInv, TimeInv, BeatNewer, FilePast, BeatOwned
<1>15. AllPunctual'
  BY <1>1, <1>2 DEF Own, IndInv, TimeInv, AllPunctual, Punctual, Holds, Beating
<1> QED
  BY <1>1, <1>3, <1>4, <1>5, <1>6, <1>7, <1>8, <1>9, <1>10, <1>11, <1>12, <1>13, <1>14,
     <1>15
  DEF IndInv, TokenInv, BeatInv, TimeInv

\* A recovery fixes its cutoff, StaleAfter before now, and starts at the first task.
LEMMA BeginRecoverKeeps ==
  ASSUME TypeOK, IndInv, NEW r \in Recoverers, NEW force \in Forces, BeginRecover(r, force)
  PROVE  TypeOK' /\ IndInv'
<1>1. TypeOK'
  <2>1. (recovery \in [Recoverers -> RecoveryRecord])'
    BY StaleAfterAssumption, ForcesAssumption DEF BeginRecover, TypeOK, RecoveryRecord
  <2> QED
    BY <2>1 DEF BeginRecover, TypeOK
<1>2. /\ recovery'[r].cutoff = clock - StaleAfter
      /\ recovery'[r].pc = "scan"
      /\ \A x \in Recoverers : x # r => recovery'[x] = recovery[x]
      /\ UNCHANGED <<file, worker, main, thread, beats, clock, issued, credited>>
  BY DEF BeginRecover, TypeOK
<1>3. TokenIssued' /\ TokenUnique' /\ FileIssued' /\ FileReleased' /\ FileStamped' /\
      ClaimOwned' /\ RevisionSeen' /\ CreditDone' /\ CompletedOnce' /\
      ThreadOff' /\ BeatIssued' /\ BeatUnique' /\ BeatOwned' /\ MainPast' /\
      BeatPast' /\ FilePast' /\ BeatNewer' /\ AllPunctual'
  BY Frames DEF BeginRecover, IndInv, TokenInv, BeatInv, TimeInv
<1>4. CutoffPast'
  BY <1>1, <1>2 DEF TypeOK, RecoveryRecord, IndInv, TimeInv, CutoffPast
<1>5. ScannedTask'
  BY <1>1, <1>2 DEF TypeOK, IndInv, ScannedTask
<1> QED
  BY <1>1, <1>3, <1>4, <1>5 DEF IndInv, TokenInv, BeatInv, TimeInv

\* A recovery's look without the lock changes only how far it has come.
LEMMA ScanTaskKeeps ==
  ASSUME TypeOK, IndInv, NEW r \in Recoverers, ScanTask(r)
  PROVE  TypeOK' /\ IndInv'
<1>1. TypeOK'
  <2>1. recovery[r].task + 1 \in Nat
    BY DEF TypeOK, RecoveryRecord
  <2>2. CASE recovery' = [recovery EXCEPT ![r].pc = "lock"]
    BY <2>2 DEF ScanTask, TypeOK, RecoveryRecord
  <2>3. CASE recovery' = [recovery EXCEPT ![r].task = recovery[r].task + 1]
    BY <2>1, <2>3 DEF ScanTask, TypeOK, RecoveryRecord
  <2> QED
    BY <2>2, <2>3 DEF ScanTask
<1>2. /\ recovery[r].pc # "idle"
      /\ recovery'[r].cutoff = recovery[r].cutoff
      /\ recovery'[r].pc = "scan" \/ (recovery'[r].pc = "lock" /\ recovery'[r].task
         = recovery[r].task /\ recovery[r].task \in Tasks)
      /\ \A x \in Recoverers : x # r => recovery'[x] = recovery[x]
      /\ UNCHANGED <<file, worker, main, thread, beats, clock, issued, credited>>
  BY DEF ScanTask, TypeOK, MainPCs, WorkerRecord, RecoveryRecord
<1>3. TokenIssued' /\ TokenUnique' /\ FileIssued' /\ FileReleased' /\ FileStamped' /\
      ClaimOwned' /\ RevisionSeen' /\ CreditDone' /\ CompletedOnce' /\
      ThreadOff' /\ BeatIssued' /\ BeatUnique' /\ BeatOwned' /\ MainPast' /\
      BeatPast' /\ FilePast' /\ BeatNewer' /\ AllPunctual'
  BY Frames DEF ScanTask, IndInv, TokenInv, BeatInv, TimeInv
<1>4. CutoffPast'
  BY <1>1, <1>2 DEF TypeOK, IndInv, TimeInv, CutoffPast
<1>5. ScannedTask'
  BY <1>1, <1>2 DEF TypeOK, IndInv, ScannedTask
<1> QED
  BY <1>1, <1>3, <1>4, <1>5 DEF IndInv, TokenInv, BeatInv, TimeInv

\* A recovery's requeue takes the token out of a task that is in progress; unless it
\* is forced, the stamp it met is old, so the claimant was not beating.
LEMMA RecoverTaskKeeps ==
  ASSUME TypeOK, IndInv, NEW r \in Recoverers, RecoverTask(r)
  PROVE  TypeOK' /\ IndInv'
<1>1. TypeOK'
  <2>1. recovery[r].task \in Tasks
    BY DEF RecoverTask, IndInv, ScannedTask
  <2>2. Released(file[recovery[r].task], "todo") \in TaskRecord
    BY <2>1, ReleasedRecord DEF TypeOK, Statuses
  <2>3. file' \in [Tasks -> TaskRecord]
    BY <2>2 DEF RecoverTask, TypeOK
  <2>4. file[recovery[r].task].claimed_by \in Clients \cup {NoClient}
    BY <2>1 DEF TypeOK, TaskRecord
  <2>5. recovery' \in [Recoverers -> RecoveryRecord]
    BY <2>4 DEF RecoverTask, TypeOK, RecoveryRecord
  <2> QED
    BY <2>3, <2>5 DEF RecoverTask, TypeOK
<1>2. /\ recovery[r].pc # "idle"
      /\ file[recovery[r].task].status = "in_progress"
      /\ recovery[r].task \in Tasks
      /\ file'[recovery[r].task].status = "todo"
      /\ file'[recovery[r].task].claim_token = NoToken
      /\ file'[recovery[r].task].claimed_by = NoClient
      /\ file'[recovery[r].task].revision = file[recovery[r].task].revision + 1
      /\ file'[recovery[r].task].heartbeat_at = Never
      /\ \A x \in Tasks : x # recovery[r].task => file'[x] = file[x]
      /\ recovery'[r].cutoff = recovery[r].cutoff
      /\ recovery'[r].pc = "sync" /\ recovery'[r].task = recovery[r].task
      /\ \A x \in Recoverers : x # r => recovery'[x] = recovery[x]
      /\ UNCHANGED <<worker, main, thread, beats, clock, issued, credited>>
  <2>1. recovery[r].task \in Tasks
    BY DEF RecoverTask, IndInv, ScannedTask
  <2> DEFINE g == Released(file[recovery[r].task], "todo")
  <2>2. /\ file'[recovery[r].task] = g
        /\ \A x \in Tasks : x # recovery[r].task => file'[x] = file[x]
    BY <2>1 DEF RecoverTask, TypeOK
  <2>3. /\ g.status = "todo" /\ g.claim_token = NoToken /\ g.claimed_by = NoClient
        /\ g.revision = file[recovery[r].task].revision + 1 /\ g.heartbeat_at = Never
    BY <2>1, ReleasedRecord DEF TypeOK, Statuses
  <2>4. /\ recovery'[r].cutoff = recovery[r].cutoff
        /\ recovery'[r].pc = "sync"
        /\ recovery'[r].task = recovery[r].task
        /\ \A x \in Recoverers : x # r => recovery'[x] = recovery[x]
    BY DEF RecoverTask, TypeOK
  <2> QED
    BY <2>1, <2>2, <2>3, <2>4 DEF RecoverTask, Recoverable
<1>3. TokenIssued' /\ TokenUnique' /\ CompletedOnce' /\ ThreadOff' /\ BeatIssued' /\
      BeatUnique' /\ BeatOwned' /\ MainPast' /\ BeatPast'
  BY Frames DEF RecoverTask, IndInv, TokenInv, BeatInv, TimeInv
<1>4. FileIssued'
  BY <1>1, <1>2 DEF TypeOK, IndInv, TokenInv, FileIssued, TokenIssued, NoToken
<1>5. FileReleased'
  BY <1>2 DEF IndInv, TokenInv, FileReleased
<1>6. FileStamped'
  BY <1>1, <1>2 DEF TypeOK, IndInv, TokenInv, FileStamped
<1>7. ClaimOwned'
  <2>1. \A d \in Clients : Owing(d) => main[d].token \in 1 .. issued
    BY DEF IndInv, TokenInv, TokenIssued
  <2> QED
    BY <1>2, <2>1 DEF IndInv, ClaimOwned, Owing, NoToken
<1>8. RevisionSeen'
  <2>1. /\ \A d \in Clients : main[d].expected \in Nat
        /\ \A t \in Tasks : file[t].revision \in Nat
    BY DEF TypeOK, MainRecord, TaskRecord
  <2> SUFFICES ASSUME NEW d \in Clients, main'[d].pc = "claiming"
               PROVE  /\ main'[d].expected <= file'[main'[d].task].revision
                      /\ main'[d].expected = file'[main'[d].task].revision =>
                            file'[main'[d].task].status = "todo"
    BY DEF RevisionSeen
  <2>2. main'[d] = main[d] /\ main[d].task \in Tasks
    BY <1>2 DEF IndInv, TokenInv, TokenIssued, Owing
  <2>3. /\ main[d].expected <= file[main[d].task].revision
        /\ main[d].expected = file[main[d].task].revision => file[main[d].task].status = "todo"
    BY <2>2 DEF IndInv, RevisionSeen
  <2> QED
    BY <1>2, <2>1, <2>2, <2>3
<1>9. CreditDone'
  BY <1>1, <1>2 DEF TypeOK, IndInv, CreditDone
<1>10. FilePast'
  BY <1>1, <1>2 DEF TypeOK, IndInv, TimeInv, FilePast, MainPast, BeatPast, Never
<1>11. BeatNewer'
  BY <1>1, <1>2 DEF TypeOK, TaskRecord, BeatRecord, IndInv, TimeInv, BeatNewer, Never
<1>12. CutoffPast'
  BY <1>1, <1>2 DEF TypeOK, IndInv, TimeInv, CutoffPast
<1>13. AllPunctual'
  <2> SUFFICES ASSUME NEW d \in Clients PROVE Punctual(d, clock)'
    BY DEF AllPunctual
  <2>1. /\ Punctual(d, clock)
        /\ Owing(d) => main[d].task \in Tasks /\ main[d].token \in 1 .. issued
    BY DEF IndInv, TokenInv, TokenIssued, TimeInv, AllPunctual
  <2>2. CASE main[d].task = recovery[r].task
    BY <1>2, <2>1, <2>2 DEF Punctual, Holds, HoldsToken, Owing, NoToken
  <2>3. CASE main[d].task # recovery[r].task
    BY <1>2, <2>1, <2>3 DEF Punctual, Holds, HoldsToken, Owing, Beating
  <2> QED
    BY <2>2, <2>3
<1>14. ScannedTask'
  BY <1>1, <1>2 DEF TypeOK, IndInv, ScannedTask
<1> QED
  BY <1>1, <1>3, <1>4, <1>5, <1>6, <1>7, <1>8, <1>9, <1>10, <1>11, <1>12, <1>13, <1>14
  DEF IndInv, TokenInv, BeatInv, TimeInv

\* A recovery that finds the claim renewed under the lock goes on to the next task.
LEMMA SkipTaskKeeps ==
  ASSUME TypeOK, IndInv, NEW r \in Recoverers, SkipTask(r)
  PROVE  TypeOK' /\ IndInv'
<1>1. TypeOK'
  <2>1. recovery[r].task + 1 \in Nat
    BY DEF TypeOK, RecoveryRecord
  <2>2. [recovery[r] EXCEPT !.pc = "scan", !.task = recovery[r].task + 1] \in RecoveryRecord
    BY <2>1 DEF TypeOK, RecoveryRecord
  <2>3. recovery' \in [Recoverers -> RecoveryRecord]
    BY <2>2 DEF SkipTask, TypeOK
  <2> QED
    BY <2>3 DEF SkipTask, TypeOK
<1>2. /\ recovery[r].pc # "idle"
      /\ recovery'[r].cutoff = recovery[r].cutoff
      /\ recovery'[r].pc = "scan"
      /\ \A x \in Recoverers : x # r => recovery'[x] = recovery[x]
      /\ UNCHANGED <<file, worker, main, thread, beats, clock, issued, credited>>
  BY DEF SkipTask, TypeOK
<1>3. TokenIssued' /\ TokenUnique' /\ FileIssued' /\ FileReleased' /\ FileStamped' /\
      ClaimOwned' /\ RevisionSeen' /\ CreditDone' /\ CompletedOnce' /\
      ThreadOff' /\ BeatIssued' /\ BeatUnique' /\ BeatOwned' /\ MainPast' /\
      BeatPast' /\ FilePast' /\ BeatNewer' /\ AllPunctual'
  BY Frames DEF SkipTask, IndInv, TokenInv, BeatInv, TimeInv
<1>4. CutoffPast'
  BY <1>1, <1>2 DEF TypeOK, IndInv, TimeInv, CutoffPast
<1>5. ScannedTask'
  BY <1>1, <1>2 DEF TypeOK, IndInv, ScannedTask
<1> QED
  BY <1>1, <1>3, <1>4, <1>5 DEF IndInv, TokenInv, BeatInv, TimeInv

\* After a requeue a recovery writes the claimant's worker file and goes on.
LEMMA SyncRecoveredKeeps ==
  ASSUME TypeOK, IndInv, NEW r \in Recoverers, SyncRecovered(r)
  PROVE  TypeOK' /\ IndInv'
<1>1. TypeOK'
  <2>1. (worker \in [Clients -> WorkerRecord])'
    BY DEF SyncRecovered, TypeOK, MainPCs, WorkerRecord
  <2>2. recovery[r].task + 1 \in Nat
    BY DEF TypeOK, RecoveryRecord
  <2>3. [recovery[r] EXCEPT !.pc = "scan", !.task = recovery[r].task + 1, !.of = NoClient]
            \in RecoveryRecord
    BY <2>2 DEF TypeOK, RecoveryRecord
  <2>4. recovery \in [Recoverers -> RecoveryRecord]
    BY DEF TypeOK
  <2>5. recovery' = [recovery EXCEPT ![r] = [recovery[r] EXCEPT !.pc = "scan",
                                        !.task = recovery[r].task + 1, !.of = NoClient]]
    BY DEF SyncRecovered
  <2>6. recovery' \in [Recoverers -> RecoveryRecord]
    BY <2>3, <2>4, <2>5
  <2> QED
    BY <2>1, <2>6 DEF SyncRecovered, TypeOK
<1>2. /\ recovery[r].pc # "idle"
      /\ recovery'[r].cutoff = recovery[r].cutoff
      /\ recovery'[r].pc = "scan"
      /\ \A x \in Recoverers : x # r => recovery'[x] = recovery[x]
      /\ UNCHANGED <<file, main, thread, beats, clock, issued, credited>>
  BY DEF SyncRecovered, TypeOK
<1>3. TokenIssued' /\ TokenUnique' /\ FileIssued' /\ FileReleased' /\ FileStamped' /\
      ClaimOwned' /\ RevisionSeen' /\ CreditDone' /\ CompletedOnce' /\
      ThreadOff' /\ BeatIssued' /\ BeatUnique' /\ BeatOwned' /\ MainPast' /\
      BeatPast' /\ FilePast' /\ BeatNewer' /\ AllPunctual'
  BY Frames DEF SyncRecovered, IndInv, TokenInv, BeatInv, TimeInv
<1>4. CutoffPast'
  BY <1>1, <1>2 DEF TypeOK, IndInv, TimeInv, CutoffPast
<1>5. ScannedTask'
  BY <1>1, <1>2 DEF TypeOK, IndInv, ScannedTask
<1> QED
  BY <1>1, <1>3, <1>4, <1>5 DEF IndInv, TokenInv, BeatInv, TimeInv

\* A recovery that has been over all tasks is at rest again.
LEMMA EndRecoverKeeps ==
  ASSUME TypeOK, IndInv, NEW r \in Recoverers, EndRecover(r)
  PROVE  TypeOK' /\ IndInv'
<1>1. TypeOK'
  <2>1. (recovery \in [Recoverers -> RecoveryRecord])'
    BY DEF EndRecover, NoRecovery, TypeOK, MainPCs, WorkerRecord, RecoveryRecord, Tasks
  <2> QED
    BY <2>1 DEF EndRecover, TypeOK
<1>2. /\ recovery'[r].pc = "idle"
      /\ \A x \in Recoverers : x # r => recovery'[x] = recovery[x]
      /\ UNCHANGED <<file, worker, main, thread, beats, clock, issued, credited>>
  BY DEF EndRecover, NoRecovery, TypeOK
<1>3. TokenIssued' /\ TokenUnique' /\ FileIssued' /\ FileReleased' /\ FileStamped' /\
      ClaimOwned' /\ RevisionSeen' /\ CreditDone' /\ CompletedOnce' /\
      ThreadOff' /\ BeatIssued' /\ BeatUnique' /\ BeatOwned' /\ MainPast' /\
      BeatPast' /\ FilePast' /\ BeatNewer' /\ AllPunctual'
  BY Frames DEF EndRecover, IndInv, TokenInv, BeatInv, TimeInv
<1>4. CutoffPast'
  BY <1>1, <1>2 DEF TypeOK, IndInv, TimeInv, CutoffPast
<1>5. ScannedTask'
  BY <1>1, <1>2 DEF TypeOK, IndInv, ScannedTask
<1> QED
  BY <1>1, <1>3, <1>4, <1>5 DEF IndInv, TokenInv, BeatInv, TimeInv

\* Time passes: stamps and cutoffs lie further back, and clients stay punctual because
\* Tick waits for the beat of whoever would not be.
LEMMA TickKeeps ==
  ASSUME TypeOK, IndInv, Tick
  PROVE  TypeOK' /\ IndInv'
<1>1. TypeOK'
  <2>1. (clock \in Nat)'
    BY DEF Tick, TypeOK
  <2> QED
    BY <2>1 DEF Tick, TypeOK
<1>2. /\ \A c \in Clients : Punctual(c, clock + 1)
      /\ clock' = clock + 1
      /\ UNCHANGED <<file, worker, main, thread, beats, recovery, issued, credited>>
  BY DEF Tick
<1>3. TokenIssued' /\ TokenUnique' /\ FileIssued' /\ FileReleased' /\ FileStamped' /\
      ClaimOwned' /\ RevisionSeen' /\ CreditDone' /\ CompletedOnce' /\
      ThreadOff' /\ BeatIssued' /\ BeatUnique' /\ BeatOwned' /\ BeatNewer' /\
      ScannedTask'
  BY Frames DEF Tick, IndInv, TokenInv, BeatInv, TimeInv
<1>4. MainPast'
  BY <1>1, <1>2 DEF TypeOK, MainRecord, IndInv, TimeInv, MainPast
<1>5. BeatPast'
  BY <1>1, <1>2 DEF TypeOK, BeatRecord, IndInv, TimeInv, BeatPast
<1>6. FilePast'
  BY <1>1, <1>2 DEF TypeOK, TaskRecord, IndInv, TimeInv, FilePast, Never
<1>7. CutoffPast'
  BY StaleAfterAssumption, <1>1, <1>2
  DEF TypeOK, RecoveryRecord, IndInv, TimeInv, CutoffPast
<1>8. AllPunctual'
  BY <1>1, <1>2 DEF AllPunctual, Punctual, Holds, Beating
<1> QED
  BY <1>1, <1>3, <1>4, <1>5, <1>6, <1>7, <1>8 DEF IndInv, TokenInv, BeatInv, TimeInv

-----------------------------------------------------------------------------
\* A file that a new run begins with: unclaimed, or claimed under the task's old token.
InheritedFile(f, t) ==
    /\ f \in TaskRecord
    /\ \/ f.claim_token = NoToken /\ f.claimed_by = NoClient /\ f.heartbeat_at = Never
       \/ f.claim_token = t /\ f.status = "in_progress" /\ f.heartbeat_at = 0

\* RuntimeStore.start writes no other file.
LEMMA InitFiles == Init => \A t \in Tasks : InheritedFile(file[t], t)
<1> SUFFICES ASSUME Init, NEW t \in Tasks PROVE InheritedFile(file[t], t)
  OBVIOUS
<1>1. CASE file[t] \in {Unclaimed(s) : s \in Statuses}
  BY <1>1 DEF Unclaimed, InheritedFile, TaskRecord, NoToken
<1>2. CASE file[t] \in {Inherited(c, k) : c \in Clients, k \in Tasks}
  <2>1. PICK c \in Clients, k \in Tasks : file[t] = Inherited(c, k)
    BY <1>2
  <2>2. Unclaimed("todo") \in TaskRecord /\ k \in Nat /\ 0 \in Nat /\ k # NoToken
    BY DEF Unclaimed, TaskRecord, Statuses, NoToken, Tasks
  <2>3. file[t] \in TaskRecord /\ file[t].status = "in_progress"
        /\ file[t].claim_token = k /\ file[t].heartbeat_at = 0
    BY <2>1, <2>2, ClaimedRecord DEF Inherited
  <2> QED
    BY <2>2, <2>3 DEF Init, InheritedFile
<1> QED
  BY <1>1, <1>2 DEF Init

\* IndInv holds of a run whose task files have just been written.
LEMMA InitInv == Init => TypeOK /\ IndInv
<1> SUFFICES ASSUME Init PROVE TypeOK /\ IndInv
  OBVIOUS
<1>1. /\ \A t \in Tasks : InheritedFile(file[t], t)
      /\ \A c \in Clients : main[c] = Resting
      /\ \A r \in Recoverers : recovery[r] = NoRecovery
  BY InitFiles DEF Init
<1>2. /\ Resting \in MainRecord /\ Resting.pc = "idle" /\ Resting.now = 0
      /\ NoRecovery \in RecoveryRecord /\ NoRecovery.pc = "idle"
  BY DEF Resting, NoRecovery, MainRecord, MainPCs, RecoveryRecord, NoToken
<1>3. \A c \in Clients : ~Owing(c) /\ ~Holds(c)
  BY <1>1, <1>2 DEF Owing, Holds
<1>4. TypeOK
  <2>1. file \in [Tasks -> TaskRecord]
    BY <1>1 DEF Init, InheritedFile
  <2>2. worker \in [Clients -> WorkerRecord]
    BY DEF Init, WorkerRecord
  <2>3. main \in [Clients -> MainRecord] /\ recovery \in [Recoverers -> RecoveryRecord]
    BY <1>2 DEF Init
  <2> QED
    BY <2>1, <2>2, <2>3, NTasksAssumption DEF Init, TypeOK
<1>5. TokenInv
  BY <1>1, <1>3, NTasksAssumption
  DEF Init, InheritedFile, TokenInv, TokenIssued, TokenUnique, FileIssued, FileReleased,
      FileStamped, NoToken, Never, Tasks
<1>6. ClaimOwned /\ RevisionSeen /\ ScannedTask
  BY <1>1, <1>2, <1>3 DEF ClaimOwned, RevisionSeen, ScannedTask
<1>7. CreditDone /\ CompletedOnce
  BY DEF Init, CreditDone, CompletedOnce
<1>8. BeatInv
  BY <1>3 DEF Init, BeatInv, ThreadOff, BeatIssued, BeatUnique, BeatOwned
<1>9. TimeInv
  BY <1>1, <1>2, <1>3
  DEF Init, InheritedFile, TimeInv, MainPast, BeatPast, FilePast, BeatNewer, CutoffPast,
      AllPunctual, Punctual, Never
<1> QED
  BY <1>4, <1>5, <1>6, <1>7, <1>8, <1>9 DEF IndInv

\* Every step of a client, a beat, a recovery or the clock keeps IndInv.
LEMMA NextInv == TypeOK /\ IndInv /\ [Next]_vars => TypeOK' /\ IndInv'
<1> SUFFICES ASSUME TypeOK, IndInv, [Next]_vars PROVE TypeOK' /\ IndInv'
  OBVIOUS
<1>1. CASE ClientNext
  BY <1>1, BeginClaimKeeps, ClaimTaskKeeps, ClaimRefusedKeeps, EnterHeartbeatKeeps,
     EndTaskKeeps, EndRefusedKeeps, LeaveHeartbeatKeeps, CrashKeeps, RestartKeeps,
     StartBeatKeeps
  DEF ClientNext
<1>2. CASE BeatNext
  BY <1>2, WriteBeatKeeps, BeatRefusedKeeps, SyncBeatKeeps DEF BeatNext
<1>3. CASE RecoverNext
  BY <1>3, BeginRecoverKeeps, ScanTaskKeeps, RecoverTaskKeeps, SkipTaskKeeps,
     SyncRecoveredKeeps, EndRecoverKeeps
  DEF RecoverNext
<1>4. CASE Tick
  BY <1>4, TickKeeps
<1>5. CASE UNCHANGED vars
  <2>1. TypeOK'
    BY <1>5 DEF vars, TypeOK
  <2>2. IndInv'
    BY <1>5, Frames DEF vars, IndInv, TokenInv, BeatInv, TimeInv
  <2> QED
    BY <2>1, <2>2
<1> QED
  BY <1>1, <1>2, <1>3, <1>4, <1>5 DEF Next

\* The parts of IndInv hold together in every state that claims, beats, requeues,
\* recoveries and crashes lead to: the invariant the other theorems rest on.
THEOREM Inductive == Spec => [](TypeOK /\ IndInv)
  BY InitInv, NextInv, PTL DEF Spec

\* No file, worker, thread or call ever has a value the code does not know.
THEOREM TypeCorrect == Spec => []TypeOK
<1>1. Spec => [](TypeOK /\ IndInv)
  BY Inductive
<1> QED
  BY <1>1, PTL

\* A client whose token is in its task's file is the file's claimant.
THEOREM HolderCorrect == Spec => []HolderIsClaimant
<1>1. TypeOK /\ IndInv => HolderIsClaimant
  <2> SUFFICES ASSUME TypeOK, IndInv, NEW c \in Clients, Holds(c)
               PROVE  /\ file[main[c].task].status = "in_progress"
                      /\ file[main[c].task].claimed_by = c
    BY DEF HolderIsClaimant
  <2>1. /\ Owing(c) /\ main[c].task \in Tasks /\ main[c].token # NoToken
        /\ file[main[c].task].claim_token = main[c].token
    BY DEF Holds, HoldsToken, Owing, IndInv, TokenInv, TokenIssued, NoToken
  <2> QED
    BY <2>1 DEF IndInv, TokenInv, FileReleased, ClaimOwned
<1> QED
  BY <1>1, Inductive, PTL

\* The revision a claim expects is never reused for another state of the task.
THEOREM RevisionCorrect == Spec => []ExpectedMeansUnchanged
<1>1. TypeOK /\ IndInv => ExpectedMeansUnchanged
  BY DEF IndInv, TokenInv, TokenIssued, FileReleased, RevisionSeen, ExpectedMeansUnchanged,
         Claimable, Owing
<1> QED
  BY <1>1, Inductive, PTL

\* No task is completed twice.
THEOREM CompletionCorrect == Spec => []CompletedOnce
<1>1. TypeOK /\ IndInv => CompletedOnce
  BY DEF IndInv
<1> QED
  BY <1>1, Inductive, PTL

\* Only a forced recovery takes the claim of a client that is beating.
THEOREM PunctualCorrect == Spec => PunctualClaimKept
<1> DEFINE Kept == \A c \in Clients :
          Holds(c) /\ Beating(c) /\ ~Holds(c)' /\ main'[c] = main[c]
              => \E r \in Recoverers : recovery[r].force /\ recovery'[r] # recovery[r]
<1>1. TypeOK /\ IndInv /\ [Next]_vars => [Kept]_vars
  <2> SUFFICES ASSUME TypeOK, IndInv, Next, NEW c \in Clients,
                      Holds(c), Beating(c), ~Holds(c)', main'[c] = main[c]
               PROVE  \E r \in Recoverers : recovery[r].force /\ recovery'[r] # recovery[r]
    OBVIOUS
  <2> DEFINE t == main[c].task
  <2>1. /\ Owing(c) /\ t \in Tasks /\ main[c].token # NoToken
        /\ file[t].claim_token = main[c].token /\ file'[t].claim_token # main[c].token
        /\ file[t].status = "in_progress"
    BY DEF Holds, HoldsToken, Owing, IndInv, TokenInv, TokenIssued, FileReleased, NoToken
  <2>2. ASSUME NEW d \in Clients, ClaimTask(d) PROVE FALSE
    BY <2>1, <2>2 DEF ClaimTask, Claimable
  <2>3. ASSUME NEW d \in Clients, NEW status \in {"todo", "done"}, EndTask(d, status) PROVE FALSE
    <3>1. main[d].task = t /\ Owing(d) /\ main[d].token = main[c].token
      BY <2>1, <2>3 DEF EndTask, HoldsToken, Owing
    <3>2. d = c
      BY <2>1, <3>1 DEF IndInv, TokenInv, TokenUnique
    <3> QED
      BY <2>3, <3>2 DEF EndTask, TypeOK, MainRecord
  <2>4. ASSUME NEW b \in beats, WriteBeat(b) PROVE FALSE
    BY <2>1, <2>4 DEF WriteBeat
  <2>5. ASSUME NEW r \in Recoverers, RecoverTask(r)
        PROVE  recovery[r].force /\ recovery'[r] # recovery[r]
    <3>1. recovery[r].task = t
      BY <2>1, <2>5 DEF RecoverTask
    <3>2. recovery'[r] # recovery[r]
      BY <2>5 DEF RecoverTask, TypeOK, RecoveryRecord
    <3>3. ~IsStale(file[t], recovery[r].cutoff)
      <4>1. clock - file[t].heartbeat_at < StaleAfter /\ file[t].heartbeat_at # Never
        BY <2>1 DEF IndInv, TimeInv, AllPunctual, Punctual, TokenInv, FileStamped
      <4>2. recovery[r].cutoff <= clock - StaleAfter
        BY <2>5 DEF RecoverTask, IndInv, TimeInv, CutoffPast
      <4>3. /\ file[t].heartbeat_at \in Int /\ clock \in Int /\ recovery[r].cutoff \in Int
            /\ StaleAfter \in Int
        BY <2>1, StaleAfterAssumption DEF TypeOK, TaskRecord, RecoveryRecord, Never
      <4> QED
        BY <4>1, <4>2, <4>3 DEF IsStale
    <3> QED
      BY <2>5, <3>1, <3>2, <3>3 DEF RecoverTask, Recoverable
  <2>6. CASE UNCHANGED file
    BY <2>1, <2>6
  <2>7. CASE ClientNext
    BY <2>2, <2>3, <2>6, <2>7
    DEF ClientNext, BeginClaim, ClaimRefused, EnterHeartbeat, EndRefused, LeaveHeartbeat,
        Crash, Restart, StartBeat
  <2>8. CASE BeatNext
    BY <2>4, <2>6, <2>8 DEF BeatNext, BeatRefused, SyncBeat
  <2>9. CASE RecoverNext
    BY <2>5, <2>6, <2>9
    DEF RecoverNext, BeginRecover, ScanTask, SkipTask, SyncRecovered, EndRecover
  <2>10. CASE Tick
    BY <2>6, <2>10 DEF Tick
  <2> QED
    BY <2>7, <2>8, <2>9, <2>10 DEF Next
<1> QED
  BY <1>1, Inductive, PTL DEF Spec, PunctualClaimKept

-----------------------------------------------------------------------------
(* The run's files implement the leases. *)

\* The files of a new run stand for tasks that are leased to no one, or still to the one
\* whose claim the run has inherited.
LEMMA LeaseInit == Init => Lease!Init
<1> SUFFICES ASSUME Init PROVE Lease!Init
  OBVIOUS
<1>1. \A t \in Tasks : /\ Phase(file[t]) \in {"open", "leased", "closed"}
                       /\ file[t].claimed_by \in Clients \cup {NoClient}
                       /\ file[t].claimed_by # NoClient => Phase(file[t]) = "leased"
                       /\ {x[1] : x \in credited[t]} = {}
  BY InitFiles DEF Init, InheritedFile, TaskRecord, Phase
<1> QED
  BY <1>1 DEF Lease!Init

\* A claim grants the lease of an open task.
LEMMA LeaseClaim ==
  ASSUME TypeOK, IndInv, NEW c \in Clients, ClaimTask(c)
  PROVE  Lease!Next
<1> DEFINE t == main[c].task
<1>1. /\ t \in Tasks /\ file[t].status = "todo"
      /\ file' = [file EXCEPT ![t] = Claimed(file[t], c, main[c].token, main[c].now)]
      /\ credited' = credited
  BY DEF ClaimTask, Claimable, IndInv, TokenInv, TokenIssued, Owing
<1>2. /\ file'[t].status = "in_progress" /\ file'[t].claimed_by = c
      /\ \A u \in Tasks : u # t => file'[u] = file[u]
  BY <1>1 DEF TypeOK, Claimed
<1>3. /\ [u \in Tasks |-> Phase(file'[u])] =
           [[u \in Tasks |-> Phase(file[u])] EXCEPT ![t] = "leased"]
  <2>1. Phase(file'[t]) = "leased"
    BY <1>2 DEF Phase
  <2>2. \A u \in Tasks : u # t => Phase(file'[u]) = Phase(file[u])
    BY <1>2
  <2> QED
    BY <2>1, <2>2
<1>5. [u \in Tasks |-> file'[u].claimed_by] =
      [[u \in Tasks |-> file[u].claimed_by] EXCEPT ![t] = c]
  <2>1. t \in Tasks
    BY <1>1
  <2> HIDE DEF t
  <2> QED
    BY <1>2, <2>1
<1>4. Lease!Grant(t, c)
  BY <1>1, <1>3, <1>5 DEF Lease!Grant, Phase
<1> QED
  BY <1>1, <1>4 DEF Lease!Next

\* complete_task closes the lease of its caller and credits the caller with it,
\* requeue_task returns it.
LEMMA LeaseEnd ==
  ASSUME TypeOK, IndInv, NEW c \in Clients, NEW status \in {"todo", "done"}, EndTask(c, status)
  PROVE  Lease!Next
<1> DEFINE t == main[c].task
<1>1. t \in Tasks /\ Owing(c) /\ file[t].claim_token = main[c].token /\ main[c].token # NoToken
  BY DEF EndTask, HoldsToken, IndInv, TokenInv, TokenIssued, Owing, NoToken
<1>2. file[t].status = "in_progress" /\ file[t].claimed_by = c /\ credited[t] = {}
  BY <1>1 DEF IndInv, TokenInv, FileReleased, ClaimOwned, CreditDone
<1>3. /\ file'[t].status = status /\ file'[t].claimed_by = NoClient
      /\ \A u \in Tasks : u # t => file'[u] = file[u]
  BY <1>1 DEF EndTask, TypeOK, Released
<1>4. CASE status = "todo"
  <2>1. credited' = credited
    BY <1>4 DEF EndTask
  <2>2. Lease!Return(t)
    BY <1>1, <1>2, <1>3, <1>4, <2>1 DEF Lease!Return, Phase
  <2> QED
    BY <1>1, <2>2 DEF Lease!Next, Lease!Return
<1>5. CASE status = "done"
  <2>1. /\ credited'[t] = {<<c, main[c].token>>}
        /\ \A u \in Tasks : u # t => credited'[u] = credited[u]
    BY <1>1, <1>2, <1>5 DEF EndTask, TypeOK
  <2>2. {x[1] : x \in credited'[t]} = {c}
    BY <2>1
  <2>3. [u \in Tasks |-> {x[1] : x \in credited'[u]}] =
        [[u \in Tasks |-> {x[1] : x \in credited[u]}] EXCEPT ![t] = {c}]
    BY <2>1, <2>2
  <2>4. /\ [u \in Tasks |-> Phase(file'[u])] =
           [[u \in Tasks |-> Phase(file[u])] EXCEPT ![t] = "closed"]
        /\ [u \in Tasks |-> file'[u].claimed_by] =
           [[u \in Tasks |-> file[u].claimed_by] EXCEPT ![t] = NoClient]
    BY <1>3, <1>5 DEF Phase
  <2>5. Lease!Complete(t, c)
    BY <1>1, <1>2, <2>3, <2>4 DEF Lease!Complete, Phase
  <2> QED
    BY <1>1, <2>5 DEF Lease!Next
<1> QED
  BY <1>4, <1>5

\* A recovery's requeue returns a lease.
LEMMA LeaseRecover ==
  ASSUME TypeOK, IndInv, NEW r \in Recoverers, RecoverTask(r)
  PROVE  Lease!Next
<1> DEFINE t == recovery[r].task
<1>1. t \in Tasks /\ file[t].status = "in_progress" /\ credited' = credited
  BY DEF RecoverTask, Recoverable, IndInv, ScannedTask
<1>2. /\ file'[t].status = "todo" /\ file'[t].claimed_by = NoClient
      /\ \A u \in Tasks : u # t => file'[u] = file[u]
  BY <1>1 DEF RecoverTask, TypeOK, Released
<1>3. Lease!Return(t)
  BY <1>1, <1>2 DEF Lease!Return, Phase
<1> QED
  BY <1>1, <1>3 DEF Lease!Next, Lease!Return

\* Every step of the files is a step of TaskLease or leaves it where it is.
LEMMA LeaseStep == TypeOK /\ IndInv /\ [Next]_vars => [Lease!Next]_(Lease!lease)
<1> SUFFICES ASSUME TypeOK, IndInv, [Next]_vars PROVE [Lease!Next]_(Lease!lease)
  OBVIOUS
<1>1. CASE UNCHANGED <<file, credited>>
  BY <1>1 DEF Lease!lease
<1>2. ASSUME NEW b \in beats, WriteBeat(b) PROVE [Lease!Next]_(Lease!lease)
  <2>1. \A t \in Tasks : /\ file'[t].status = file[t].status
                         /\ file'[t].claimed_by = file[t].claimed_by
    BY <1>2 DEF WriteBeat
  <2>2. credited' = credited
    BY <1>2 DEF WriteBeat
  <2> QED
    BY <2>1, <2>2 DEF Lease!lease, Phase
<1>3. CASE ClientNext
  BY <1>1, <1>3, LeaseClaim, LeaseEnd
  DEF ClientNext, BeginClaim, ClaimRefused, EnterHeartbeat, EndRefused, LeaveHeartbeat,
      Crash, Restart, StartBeat
<1>4. CASE BeatNext
  BY <1>1, <1>2, <1>4 DEF BeatNext, BeatRefused, SyncBeat
<1>5. CASE RecoverNext
  BY <1>1, <1>5, LeaseRecover
  DEF RecoverNext, BeginRecover, ScanTask, SkipTask, SyncRecovered, EndRecover
<1>6. CASE Tick
  BY <1>1, <1>6 DEF Tick
<1>7. CASE UNCHANGED vars
  BY <1>1, <1>7 DEF vars
<1> QED
  BY <1>3, <1>4, <1>5, <1>6, <1>7 DEF Next

\* A run's task files behave as TaskLease allows.
THEOREM Implements == Spec => LeaseSpec
<1>1. Init => Lease!Init
  BY LeaseInit
<1>2. TypeOK /\ IndInv /\ [Next]_vars => [Lease!Next]_(Lease!lease)
  BY LeaseStep
<1> QED
  BY <1>1, <1>2, Inductive, PTL DEF Spec, LeaseSpec, Lease!Spec
=============================================================================
