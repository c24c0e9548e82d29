----------------------- MODULE InterviewSessionsProofs -----------------------
(***************************************************************************)
(* Proofs about InterviewSessions, for any number of servers, calls,       *)
(* sessions, cleanups and lock files: TypeInv and SessionInv are           *)
(* invariants, whatever expires.  From them follow RevisionOnce and        *)
(* CancelledStaysGone.                                                     *)
(***************************************************************************)
EXTENDS InterviewSessions, TLAPS

-----------------------------------------------------------------------------
(* The inductive invariants. *)

\* A call has a session, one that is about to write may ask one more question, and a lock
\* file that is not there can still be made within the bound.
CallTypeInv(k) ==
    /\ k.pc # "idle" => k.session \in Sessions
    /\ k.pc = "write" => k.base.rounds < MaxRounds

\* What a cleanup has looked at is a session's.
SweepTypeInv == \A w \in Sweepers : sweeper[w].pc # "idle" => sweeper[w].session \in Sessions

TypeInv ==
    /\ TypeOK /\ SweepTypeInv
    /\ \A c \in Calls : CallTypeInv(call[c])
    /\ \A s \in Sessions : lockfile[s] = 0 => made[s] < MaxLocks

\* A session whose file no cleanup has removed.
Lasts(s) == s \notin swept

Stepping == {"step", "await", "scored", "write"}

\* A session that has a file or a lock file is known to a client.
KnownBegun == \A s \in Sessions : Exists(s) \/ lockfile[s] # 0 => s \in begun

\* A session that a client knows and that, if it lasts, has no file any more.
Gone(s) == s \in begun /\ (Lasts(s) => ~Exists(s))

\* A call that a client makes for a session that it knows.
Opened(k) ==
    k.pc \in {"open", "lock", "read"} =>
        /\ k.session \in begun
        /\ ~k.cancels => k.expected # 0
        /\ k.generation = 0 <=> k.pc = "open"

\* As long as a session that lasts has a file, the lock that a call has opened is on the
\* lock file.
LockKept(k) ==
    k.generation # 0 =>
        /\ k.pc \notin {"idle", "open"}
        /\ k.session \in Sessions /\ k.session \in begun
        /\ Lasts(k.session) /\ Exists(k.session) => k.generation = lockfile[k.session]

\* Until the call writes, the file is what it has read, if the session lasts.
BaseIsFile(k) ==
    k.pc \in Stepping /\ k.generation # 0 /\ Lasts(k.session) =>
        Exists(k.session) /\ md[k.session] = k.base

\* A call for a new session, which no lock is taken for.
Fresh(k) == k.pc \in Stepping \cup {"draft", "fill", "replace"} /\ k.generation = 0

\* Its session is not known to a client yet, and has no file.
FreshSession(k) ==
    Fresh(k) => k.session \in Sessions \ begun /\ ~Exists(k.session) /\ k.base = NoFile

CallSafe(k) == Opened(k) /\ LockKept(k) /\ BaseIsFile(k) /\ FreshSession(k)

CallsSafe == \A c \in Calls : CallSafe(call[c])

\* Two calls never hold one lock, nor has another call the session of a fresh one.
Exclusive ==
    \A c, d \in Calls : c # d =>
        /\ ~(Holds(c) /\ Holds(d) /\ SameLock(c, d))
        /\ Fresh(call[c]) => At(d, "idle") \/ call[d].session # call[c].session

\* A cleanup removes lock files of sessions only that are gone, or were removed.
CleanupsLate == \A w \in Sweepers : sweeper[w].pc = "lock" => Gone(sweeper[w].session)

CancelledGone == \A s \in cancelled : Gone(s)

SessionInv ==
    /\ KnownBegun /\ CallsSafe /\ Exclusive /\ CleanupsLate /\ CancelledGone

-----------------------------------------------------------------------------
(* Calls and files. *)

USE MaxRoundsAssumption, MaxLocksAssumption, ExpiringAssumption

\* A session without a file, and a call at rest, are what their types say.
LEMMA RestTyped ==
  /\ NoFile \in File /\ NoFile.revision = 0 /\ NoFile.rounds = 0
  /\ AtRest \in CallRecord
  /\ AtRest.pc = "idle" /\ AtRest.generation = 0 /\ AtRest.session = None
  /\ AtRest.cancels = FALSE /\ AtRest.expected = 0 /\ AtRest.base = NoFile
<1>1. /\ NoFile \in File /\ NoFile.revision = 0 /\ NoFile.rounds = 0
  BY DEF NoFile, File
<1>2. AtRest \in CallRecord
  BY <1>1 DEF AtRest, CallRecord
<1> QED
  BY <1>1, <1>2 DEF AtRest

\* A call at rest is a safe one.
LEMMA RestSafe ==
  CallSafe(AtRest)
  BY RestTyped DEF CallSafe, Opened, LockKept, BaseIsFile, FreshSession, Fresh, Stepping

\* A step of one call leaves the others where they are.
LEMMA OneCall ==
  ASSUME TypeOK, NEW c \in Calls, NEW k \in CallRecord, call' = [call EXCEPT ![c] = k]
  PROVE  /\ call' \in [Calls -> CallRecord] /\ call'[c] = k
         /\ \A d \in Calls : d # c => call'[d] = call[d]
  BY DEF TypeOK

\* A call belongs to a server, whose event loop it gives back or takes.
LEMMA LoopTyped ==
  ASSUME TypeOK, NEW c \in Calls, NEW e \in Calls \cup {None},
         loop' = [loop EXCEPT ![c[1]] = e] \/ loop' = loop
  PROVE  loop' \in [Servers -> Calls \cup {None}]
  BY DEF TypeOK, Calls

\* What the types ask of a call has to be shown for the one that moves.
LEMMA CallTyped ==
  ASSUME TypeInv, NEW c \in Calls, NEW k \in CallRecord, call' = [call EXCEPT ![c] = k],
         CallTypeInv(k)
  PROVE  /\ call' \in [Calls -> CallRecord]
         /\ \A d \in Calls : CallTypeInv(call[d])'
<1>1. /\ call' \in [Calls -> CallRecord] /\ call'[c] = k
      /\ \A d \in Calls : d # c => call'[d] = call[d]
  BY OneCall DEF TypeInv
<1>2. \A d \in Calls : CallTypeInv(call'[d])
  BY <1>1 DEF TypeInv
<1> QED
  BY <1>1, <1>2 DEF CallTypeInv

-----------------------------------------------------------------------------
(* Every step keeps the types. *)

\* A step of a call that leaves files and locks alone.
LEMMA TypeLocal ==
  ASSUME TypeInv, NEW c \in Calls, NEW k \in CallRecord, call' = [call EXCEPT ![c] = k],
         CallTypeInv(k),
         NEW e \in Calls \cup {None}, loop' = [loop EXCEPT ![c[1]] = e] \/ loop' = loop,
         UNCHANGED <<md, expired, lockfile, made, sweeper, cancelled, swept>>,
         begun' \subseteq Sessions, draft' \in Output \cup {None}, tasks' \in Output
  PROVE  TypeInv'
<1>1. /\ call' \in [Calls -> CallRecord]
      /\ \A d \in Calls : CallTypeInv(call[d])'
  BY CallTyped
<1>2. loop' \in [Servers -> Calls \cup {None}]
  BY LoopTyped DEF TypeInv, SweepTypeInv
<1>3. TypeOK'
  BY <1>1, <1>2 DEF TypeInv, TypeOK
<1> QED
  BY <1>1, <1>3 DEF TypeInv, SweepTypeInv

\* A step of a call that moves its session's file.
LEMMA TypeFile ==
  ASSUME TypeInv, NEW c \in Calls, NEW k \in CallRecord, call' = [call EXCEPT ![c] = k],
         CallTypeInv(k),
         NEW e \in Calls \cup {None}, loop' = [loop EXCEPT ![c[1]] = e] \/ loop' = loop,
         NEW s \in Sessions, NEW f \in File, md' = [md EXCEPT ![s] = f],
         expired' = expired \ {s}, begun' \subseteq Sessions, cancelled' \subseteq Sessions,
         UNCHANGED <<lockfile, made, sweeper, draft, tasks, swept>>
  PROVE  TypeInv'
<1>1. /\ call' \in [Calls -> CallRecord]
      /\ \A d \in Calls : CallTypeInv(call[d])'
  BY CallTyped
<1>2. loop' \in [Servers -> Calls \cup {None}]
  BY LoopTyped DEF TypeInv, SweepTypeInv
<1>3. TypeOK'
  BY <1>1, <1>2 DEF TypeInv, TypeOK
<1> QED
  BY <1>1, <1>3 DEF TypeInv, SweepTypeInv

\* The end of a call.
LEMMA TypeAnswer ==
  ASSUME TypeInv, NEW c \in Calls, Answer(c),
         UNCHANGED <<md, expired, lockfile, made, sweeper, cancelled, swept>>,
         begun' \subseteq Sessions, draft' \in Output \cup {None}, tasks' \in Output
  PROVE  TypeInv'
<1>1. CallTypeInv(AtRest)
  BY RestTyped DEF CallTypeInv
<1> QED
  BY <1>1, RestTyped, TypeLocal DEF Answer

\* A call that goes on with its session, from one point to the next.
LEMMA TypeStep ==
  ASSUME TypeInv, NEW c \in Calls, ~At(c, "idle"),
         NEW pc \in {"read", "step", "await", "scored", "write", "draft", "fill", "replace"},
         NEW base \in File, pc = "write" => base.rounds < MaxRounds,
         call' = [call EXCEPT ![c] = [@ EXCEPT !.pc = pc, !.base = base]],
         NEW e \in Calls \cup {None}, loop' = [loop EXCEPT ![c[1]] = e] \/ loop' = loop,
         UNCHANGED <<md, expired, lockfile, made, sweeper, cancelled, swept>>,
         begun' \subseteq Sessions, draft' \in Output \cup {None}, tasks' \in Output
  PROVE  TypeInv'
<1> DEFINE k == [call[c] EXCEPT !.pc = pc, !.base = base]
<1>1. call[c] \in CallRecord /\ CallTypeInv(call[c])
  BY DEF TypeInv, TypeOK
<1>2. k.pc = pc /\ k.base = base /\ k.session = call[c].session /\ k \in CallRecord
  BY <1>1 DEF CallRecord
<1>3. call' = [call EXCEPT ![c] = k]
  OBVIOUS
<1> HIDE DEF k
<1>4. CallTypeInv(k)
  BY <1>1, <1>2 DEF CallTypeInv, At
<1> QED
  BY <1>2, <1>3, <1>4, TypeLocal

\* Only the program counter of the call moves.
LEMMA TypeMove ==
  ASSUME TypeInv, NEW c \in Calls, ~At(c, "idle"),
         NEW pc \in {"read", "step", "await", "scored", "write", "draft", "fill", "replace"},
         pc = "write" => MayAsk(c), call' = [call EXCEPT ![c].pc = pc],
         NEW e \in Calls \cup {None}, loop' = [loop EXCEPT ![c[1]] = e] \/ loop' = loop,
         UNCHANGED <<md, expired, lockfile, made, sweeper, cancelled, swept>>,
         begun' \subseteq Sessions, draft' \in Output \cup {None}, tasks' \in Output
  PROVE  TypeInv'
<1> DEFINE k == [call[c] EXCEPT !.pc = pc]
<1>1. call[c] \in CallRecord /\ CallTypeInv(call[c])
  BY DEF TypeInv, TypeOK
<1>2. k.pc = pc /\ k.base = call[c].base /\ k.session = call[c].session /\ k \in CallRecord
  BY <1>1 DEF CallRecord
<1>3. call' = [call EXCEPT ![c] = k]
  OBVIOUS
<1> HIDE DEF k
<1>4. CallTypeInv(k)
  BY <1>1, <1>2 DEF CallTypeInv, At, MayAsk
<1> QED
  BY <1>2, <1>3, <1>4, TypeLocal

\* The beginning of a call for a session.
LEMMA TypeBegin ==
  ASSUME TypeInv, NEW c \in Calls, NEW k \in CallRecord, Begin(c, k), UNCHANGED begun,
         k.session \in Sessions, k.pc # "write"
  PROVE  TypeInv'
<1>1. CallTypeInv(k)
  BY DEF CallTypeInv
<1>2. UNCHANGED <<md, expired, lockfile, made, draft, tasks>>
  BY DEF Begin, sessions, locks, outputs
<1>3. /\ begun' \subseteq Sessions
      /\ draft' \in Output \cup {None} /\ tasks' \in Output
  BY <1>2 DEF TypeInv, TypeOK
<1> QED
  BY <1>1, <1>2, <1>3, TypeLocal DEF Begin

\* The first lock file, or one more after a cleanup, is within the bound.
LEMMA TypeOpenLock ==
  ASSUME TypeInv, NEW c \in Calls, OpenLock(c)
  PROVE  TypeInv'
<1> DEFINE s == call[c].session
           g == IF lockfile[s] = 0 THEN made[s] + 1 ELSE lockfile[s]
           k == [call[c] EXCEPT !.pc = "lock", !.generation = g]
<1>1. call[c] \in CallRecord /\ CallTypeInv(call[c]) /\ s \in Sessions
  BY DEF TypeInv, TypeOK, CallTypeInv, OpenLock, At
<1>2. lockfile[s] \in 0 .. MaxLocks /\ made[s] \in 0 .. MaxLocks
  BY <1>1 DEF TypeInv, TypeOK
<1>3. g \in 0 .. MaxLocks /\ g # 0
  BY <1>1, <1>2 DEF TypeInv
<1>4. /\ lockfile' = [lockfile EXCEPT ![s] = g]
      /\ made' = [made EXCEPT ![s] = IF lockfile[s] = 0 THEN g ELSE @]
      /\ call' = [call EXCEPT ![c] = k]
      /\ UNCHANGED <<md, expired, loop, sweeper, draft, tasks, begun, cancelled, swept>>
  BY DEF OpenLock, sessions, outputs, history
<1> HIDE DEF g
<1>5. k.pc = "lock" /\ k.session = s /\ k \in CallRecord
  BY <1>1, <1>3 DEF CallRecord
<1> HIDE DEF k
<1>6. CallTypeInv(k)
  BY <1>1, <1>5 DEF CallTypeInv
<1>7. /\ call' \in [Calls -> CallRecord]
      /\ \A d \in Calls : CallTypeInv(call[d])'
  BY <1>4, <1>5, <1>6, CallTyped
<1> HIDE DEF s
<1>8. /\ lockfile' \in [Sessions -> 0 .. MaxLocks]
      /\ made' \in [Sessions -> 0 .. MaxLocks]
  BY <1>3, <1>4 DEF TypeInv, TypeOK
<1>9. \A t \in Sessions : lockfile'[t] = 0 => made'[t] < MaxLocks
  BY <1>1, <1>3, <1>4 DEF TypeInv, TypeOK
<1>10. TypeOK'
  BY <1>4, <1>7, <1>8 DEF TypeInv, TypeOK
<1> QED
  BY <1>4, <1>7, <1>9, <1>10 DEF TypeInv, SweepTypeInv

\* A step of a call, one action after the other.
LEMMA TypeCall ==
  ASSUME TypeInv, NEW c \in Calls, BeginCall(c) \/ Lock(c) \/ Resume(c) \/ Proceed(c)
  PROVE  TypeInv'
<1> USE DEF sessions, locks, outputs, history
<1>1. /\ call[c] \in CallRecord /\ CallTypeInv(call[c])
      /\ draft \in Output \cup {None} /\ tasks \in Output
      /\ begun \subseteq Sessions /\ cancelled \subseteq Sessions
  BY DEF TypeInv, TypeOK
<1>2. ~At(c, "idle") => call[c].session \in Sessions
  BY <1>1 DEF CallTypeInv, At
<1>3. CASE BeginNew(c)
  <2>1. PICK s \in Sessions : /\ Begin(c, [AtRest EXCEPT !.pc = "step", !.session = s])
                              /\ UNCHANGED begun
    BY <1>3 DEF BeginNew
  <2> DEFINE k == [AtRest EXCEPT !.pc = "step", !.session = s]
  <2>2. k.pc = "step" /\ k.session = s /\ k \in CallRecord
    BY RestTyped DEF CallRecord
  <2> HIDE DEF k
  <2>3. Begin(c, k)
    BY <2>1 DEF k
  <2> QED
    BY <2>1, <2>2, <2>3, TypeBegin
<1>4. CASE BeginContinue(c)
  <2>1. PICK s \in begun, r \in 1 .. MaxRounds :
           /\ Begin(c, [AtRest EXCEPT !.pc = "open", !.session = s, !.expected = r])
           /\ UNCHANGED begun
    BY <1>4 DEF BeginContinue
  <2> DEFINE k == [AtRest EXCEPT !.pc = "open", !.session = s, !.expected = r]
  <2>2. s \in Sessions /\ r \in 0 .. MaxRounds
    BY <1>1
  <2>3. k.pc = "open" /\ k.session = s /\ k \in CallRecord
    BY <2>2, RestTyped DEF CallRecord
  <2> HIDE DEF k
  <2>4. Begin(c, k)
    BY <2>1 DEF k
  <2> QED
    BY <2>1, <2>2, <2>3, <2>4, TypeBegin
<1>5. CASE BeginCancel(c)
  <2>1. PICK s \in begun :
           /\ Begin(c, [AtRest EXCEPT !.pc = "open", !.session = s, !.cancels = TRUE])
           /\ UNCHANGED begun
    BY <1>5 DEF BeginCancel
  <2> DEFINE k == [AtRest EXCEPT !.pc = "open", !.session = s, !.cancels = TRUE]
  <2>2. k.pc = "open" /\ k.session = s /\ k \in CallRecord
    BY <1>1, RestTyped DEF CallRecord
  <2> HIDE DEF k
  <2>3. Begin(c, k)
    BY <2>1 DEF k
  <2> QED
    BY <1>1, <2>1, <2>2, <2>3, TypeBegin
<1>6. CASE OpenLock(c)
  BY <1>6, TypeOpenLock
<1>7. CASE Lock(c)
  BY <1>1, <1>7, TypeMove DEF Lock, Step, At
<1>8. CASE Resume(c)
  BY <1>1, <1>8, TypeMove DEF Resume, At
<1>9. CASE Await(c)
  BY <1>1, <1>9, TypeMove DEF Await, At
<1>10. CASE AskMissing(c) \/ AskWeak(c)
  BY <1>1, <1>10, TypeMove DEF AskMissing, AskWeak, Ask, Step, At
<1>11. CASE OpenDraft(c) \/ WriteDraft(c)
  <2>1. call[c].session \in Sessions
    BY <1>2, <1>11 DEF OpenDraft, WriteDraft, At
  <2>2. \A f \in Output \cup {None} : Filled(f, c) \in Output \cup {None}
    BY <2>1 DEF Filled, Output
  <2>3. Filled(tasks, c) \in Output
    BY <1>1, <2>1 DEF Filled, Output
  <2>4. draft' \in Output \cup {None} /\ tasks' \in Output
    <3>1. CASE OpenDraft(c)
      BY <1>1, <3>1 DEF OpenDraft, Output
    <3>2. CASE WriteDraft(c)
      BY <1>1, <2>2, <2>3, <3>2 DEF WriteDraft
    <3> QED
      BY <1>11, <3>1, <3>2
  <2> QED
    BY <1>1, <1>11, <2>4, TypeMove DEF OpenDraft, WriteDraft, Step, At
<1>12. CASE ReadSession(c)
  <2>1. md[call[c].session] \in File
    BY <1>2, <1>12 DEF ReadSession, At, TypeInv, TypeOK
  <2>2. call' = [call EXCEPT ![c] = [@ EXCEPT !.pc = "step", !.base = md[call[c].session]]]
    BY <1>12 DEF ReadSession
  <2> QED
    BY <1>1, <1>12, <2>1, <2>2, TypeStep DEF ReadSession, At
<1>13. CASE Refuse(c) \/ AnswerInvalid(c) \/ ModelUnavailable(c) \/ DraftVanished(c)
  BY <1>1, <1>13, TypeAnswer
     DEF Refuse, AnswerInvalid, ModelUnavailable, DraftVanished, Fail
<1>14. CASE ReplaceTasks(c)
  <2>1. call[c].session \in Sessions
    BY <1>2, <1>14 DEF ReplaceTasks, At
  <2> QED
    BY <1>1, <1>14, <2>1, TypeAnswer DEF ReplaceTasks
<1>15. CASE Cancel(c)
  <2>1. call[c].session \in Sessions
    BY <1>2, <1>15 DEF Cancel, At
  <2>2. CallTypeInv(AtRest)
    BY RestTyped DEF CallTypeInv
  <2>3. cancelled' \subseteq Sessions
    BY <1>1, <1>15, <2>1 DEF Cancel
  <2> QED
    BY <1>1, <1>15, <2>1, <2>2, <2>3, RestTyped, TypeFile DEF Cancel, Answer
<1>16. CASE WriteSession(c)
  <2>1. call[c].session \in Sessions /\ call[c].base \in File
    BY <1>1, <1>2, <1>16 DEF WriteSession, At, CallRecord
  <2>2. NextState(call[c].base) \in File
    BY <1>1, <1>16, <2>1 DEF WriteSession, At, CallTypeInv, NextState, File
  <2>3. CallTypeInv(AtRest)
    BY RestTyped DEF CallTypeInv
  <2>4. begun' \subseteq Sessions
    BY <1>1, <1>16, <2>1 DEF WriteSession
  <2> QED
    BY <1>1, <1>16, <2>1, <2>2, <2>3, <2>4, RestTyped, TypeFile DEF WriteSession, Answer
<1>17. CASE Complete(c)
  <2> DEFINE k == [call[c] EXCEPT !.pc = "draft"]
  <2>1. call[c].session \in Sessions
    BY <1>2, <1>17 DEF Complete, At
  <2>2. k.pc = "draft" /\ k.session = call[c].session /\ k \in CallRecord
    BY <1>1 DEF CallRecord
  <2>3. call' = [call EXCEPT ![c] = k]
    BY <1>17 DEF Complete, Step
  <2> HIDE DEF k
  <2>4. CallTypeInv(k)
    BY <2>1, <2>2 DEF CallTypeInv
  <2> QED
    BY <1>1, <1>17, <2>1, <2>2, <2>3, <2>4, RestTyped, TypeFile DEF Complete, Step
<1> QED
  BY <1>3, <1>4, <1>5, <1>6, <1>7, <1>8, <1>9, <1>10, <1>11, <1>12, <1>13, <1>14, <1>15,
     <1>16, <1>17 DEF BeginCall, Proceed

\* Cleanups and time touch no call.
LEMMA TypeSweep ==
  ASSUME TypeInv,
         \/ \E s \in Sessions : Expire(s)
         \/ \E w \in Sweepers : Sweep(w)
  PROVE  TypeInv'
<1> USE DEF sessions, locks, outputs, history
<1>1. CASE \E s \in Sessions : Expire(s)
  BY <1>1 DEF TypeInv, TypeOK, Expire, SweepTypeInv, CallTypeInv
<1>2. ASSUME NEW w \in Sweepers, NEW s \in Sessions, FindExpired(w, s) \/ FindOrphan(w, s)
      PROVE  TypeInv'
  BY <1>2 DEF TypeInv, TypeOK, FindExpired, FindOrphan, SweepTypeInv, CallTypeInv
<1>3. ASSUME NEW w \in Sweepers, RemoveSession(w) PROVE TypeInv'
  <2>1. /\ md' \in [Sessions -> File] /\ expired' \subseteq Sessions
        /\ swept' \subseteq Sessions
    BY <1>3, RestTyped DEF RemoveSession, TypeInv, SweepTypeInv, TypeOK
  <2>2. sweeper' \in [Sweepers -> [pc : {"idle", "session", "lock"},
                                   session : Sessions \cup {None}]]
    BY <1>3 DEF RemoveSession, TypeInv, TypeOK, Idle
  <2>3. SweepTypeInv'
    BY <1>3 DEF RemoveSession, TypeInv, TypeOK, SweepTypeInv, Idle
  <2> QED
    BY <1>3, <2>1, <2>2, <2>3 DEF RemoveSession, TypeInv, TypeOK, CallTypeInv
<1>4. ASSUME NEW w \in Sweepers, RemoveLock(w) PROVE TypeInv'
  <2> DEFINE t == sweeper[w].session
  <2>1. lockfile' = [lockfile EXCEPT ![t] = 0] /\ made[t] < MaxLocks
    BY <1>4 DEF RemoveLock
  <2> HIDE DEF t
  <2>2. lockfile \in [Sessions -> 0 .. MaxLocks] /\ 0 \in 0 .. MaxLocks
    BY DEF TypeInv, TypeOK
  <2>3. lockfile' \in [Sessions -> 0 .. MaxLocks]
    BY <2>1, <2>2
  <2>4. \A s \in Sessions : lockfile'[s] = 0 => made[s] < MaxLocks
    BY <2>1, <2>2 DEF TypeInv
  <2>5. sweeper' \in [Sweepers -> [pc : {"idle", "session", "lock"},
                                   session : Sessions \cup {None}]]
    BY <1>4 DEF RemoveLock, TypeInv, TypeOK, Idle
  <2>6. SweepTypeInv'
    BY <1>4 DEF RemoveLock, TypeInv, TypeOK, SweepTypeInv, Idle
  <2> QED
    BY <1>4, <2>3, <2>4, <2>5, <2>6 DEF RemoveLock, TypeInv, TypeOK, CallTypeInv
<1> QED
  BY <1>1, <1>2, <1>3, <1>4 DEF Sweep

\* The calls of a server that dies are at rest.
LEMMA TypeCrash ==
  ASSUME TypeInv, NEW v \in Servers, Crash(v)
  PROVE  TypeInv'
<1> USE DEF sessions, locks, outputs, history
<1>1. CallTypeInv(AtRest)
  BY RestTyped DEF CallTypeInv
<1>2. \A d \in Calls : call'[d] = AtRest \/ call'[d] = call[d]
  BY DEF Crash
<1>3. call' \in [Calls -> CallRecord]
  BY RestTyped DEF Crash, TypeInv, TypeOK
<1>4. \A d \in Calls : CallTypeInv(call'[d])
  BY <1>1, <1>2 DEF TypeInv
<1>5. \A d \in Calls : CallTypeInv(call[d])'
  BY <1>4 DEF CallTypeInv
<1>6. draft' \in Output \cup {None} /\ tasks' \in Output
  <2>1. \A f \in Output : Closed(f, v) \in Output
    BY DEF Closed, Output
  <2> QED
    BY <2>1 DEF Crash, TypeInv, TypeOK
<1>7. TypeOK'
  BY <1>3, <1>6 DEF Crash, TypeInv, TypeOK
<1> QED
  BY <1>5, <1>7 DEF Crash, TypeInv, SweepTypeInv

\* TypeInv is inductive, whatever expires.
LEMMA TypeStepInv ==
  ASSUME TypeInv, [Next]_vars
  PROVE  TypeInv'
<1>1. CASE UNCHANGED vars
  BY <1>1 DEF vars, TypeInv, TypeOK, SweepTypeInv, CallTypeInv
<1>2. CASE Next
  BY <1>2, TypeCall, TypeSweep, TypeCrash DEF Next
<1> QED
  BY <1>1, <1>2

\* Nothing is begun when TypeInv starts to hold.
LEMMA TypeInit ==
  Init => TypeInv
<1> SUFFICES ASSUME Init PROVE TypeInv
  OBVIOUS
<1>1. TypeOK
  BY RestTyped DEF Init, TypeOK, Idle, Output
<1>2. \A c \in Calls : CallTypeInv(call[c])
  BY RestTyped DEF Init, CallTypeInv
<1> QED
  BY <1>1, <1>2 DEF Init, TypeInv, SweepTypeInv, Idle

\* Sessions, locks, calls and cleanups keep their types: rounds stay within
\* max_interview_rounds, and each lock file is one of those that were made.
THEOREM TypeCorrect ==
  Spec => []TypeOK
<1>1. TypeInv => TypeOK
  BY DEF TypeInv
<1> QED
  BY <1>1, TypeInit, TypeStepInv, PTL DEF Spec

-----------------------------------------------------------------------------
(* What a step has to establish for SessionInv. *)

USE DEF Lasts

\* A call whose session a step does not touch stays safe.
LEMMA OtherSession ==
  ASSUME NEW d \in Calls, CallSafe(call[d]), call'[d] = call[d], begun \subseteq begun',
         swept \subseteq swept',
         call[d].session \in Sessions =>
             /\ md'[call[d].session] = md[call[d].session]
             /\ lockfile'[call[d].session] = lockfile[call[d].session]
             /\ call[d].session \in begun' => call[d].session \in begun
  PROVE  CallSafe(call[d])'
<1>1. Opened(call[d])'
  BY DEF CallSafe, Opened
<1>2. LockKept(call[d])'
  BY DEF CallSafe, LockKept, Exists
<1>3. BaseIsFile(call[d])'
  BY DEF CallSafe, BaseIsFile, LockKept, Exists, Stepping
<1>4. FreshSession(call[d])'
  BY DEF CallSafe, FreshSession, Fresh, Exists, Stepping
<1> QED
  BY <1>1, <1>2, <1>3, <1>4 DEF CallSafe

\* A call stays safe when its session's file is moved before the call has read it, or
\* a cleanup has removed it.
LEMMA SameSession ==
  ASSUME NEW d \in Calls, CallSafe(call[d]), call'[d] = call[d], begun \subseteq begun',
         lockfile' = lockfile, swept \subseteq swept', ~Fresh(call[d]),
         Lasts(call[d].session)' =>
             /\ call[d].pc \notin Stepping
             /\ call[d].generation # 0 /\ Exists(call[d].session)' => Exists(call[d].session)
  PROVE  CallSafe(call[d])'
<1>1. Opened(call[d])'
  BY DEF CallSafe, Opened
<1>2. LockKept(call[d])'
  BY DEF CallSafe, LockKept
<1>3. BaseIsFile(call[d])' /\ FreshSession(call[d])'
  BY DEF BaseIsFile, FreshSession, Fresh, Stepping
<1> QED
  BY <1>1, <1>2, <1>3 DEF CallSafe

\* While a call is between reading and writing no other is, for the same session: if it is
\* a new one, nobody else knows it, and otherwise their locks are on one lock file, because
\* the session exists, as long as it lasts.
LEMMA OnlyWriter ==
  ASSUME SessionInv, NEW c \in Calls, NEW d \in Calls, c # d,
         call[c].pc \in Stepping \cup {"read"}, call[d].session = call[c].session
  PROVE  ~Fresh(call[d]) /\ (Lasts(call[d].session) => call[d].pc \notin Stepping)
<1>1. CallSafe(call[c]) /\ CallSafe(call[d])
  BY DEF SessionInv, CallsSafe
<1>2. CASE call[c].generation = 0
  <2>1. Fresh(call[c])
    BY <1>1, <1>2 DEF CallSafe, Opened, Fresh, Stepping
  <2>2. At(d, "idle")
    BY <2>1 DEF SessionInv, Exclusive
  <2> QED
    BY <2>2 DEF At, Fresh, Stepping
<1>3. CASE call[c].generation # 0
  <2>1. call[d].session \in begun
    BY <1>1, <1>3 DEF CallSafe, LockKept
  <2>2. ~Fresh(call[d])
    BY <1>1, <2>1 DEF CallSafe, FreshSession
  <2>3. ASSUME Lasts(call[d].session), call[d].pc \in Stepping PROVE FALSE
    <3>1. call[d].generation # 0
      BY <2>2, <2>3 DEF Fresh
    <3>2. Exists(call[c].session)
      BY <1>1, <2>3, <3>1 DEF CallSafe, BaseIsFile
    <3>3. SameLock(c, d)
      BY <1>1, <1>3, <2>3, <3>1, <3>2 DEF CallSafe, LockKept, SameLock
    <3>4. Holds(c) /\ Holds(d)
      BY <1>3, <2>3, <3>1 DEF Holds, At, Stepping
    <3> QED
      BY <3>3, <3>4 DEF SessionInv, Exclusive
  <2> QED
    BY <2>2, <2>3
<1> QED
  BY <1>2, <1>3

\* Exclusion has to be shown for the call that moves.
LEMMA ExclusiveMoves ==
  ASSUME TypeOK, SessionInv, NEW c \in Calls, NEW k \in CallRecord,
         call' = [call EXCEPT ![c] = k],
         \A d \in Calls : d # c =>
             /\ k.generation # 0 /\ k.pc # "lock" /\ Holds(d) =>
                    k.session # call[d].session \/ k.generation # call[d].generation
             /\ Fresh(k) => At(d, "idle") \/ call[d].session # k.session
             /\ Fresh(call[d]) => k.pc = "idle" \/ k.session # call[d].session
  PROVE  Exclusive'
<1>1. /\ call'[c] = k
      /\ \A d \in Calls : d # c => call'[d] = call[d]
  BY OneCall
<1>2. ASSUME NEW d \in Calls, d # c
      PROVE  /\ (Holds(d))' <=> Holds(d)
             /\ At(d, "idle")' <=> At(d, "idle")
             /\ Fresh(call[d])' <=> Fresh(call[d])
  BY <1>1, <1>2 DEF Holds, At, Fresh, Stepping
<1>3. /\ (Holds(c))' <=> k.generation # 0 /\ k.pc # "lock"
      /\ At(c, "idle")' <=> k.pc = "idle"
      /\ Fresh(call[c])' <=> Fresh(k)
  BY <1>1 DEF Holds, At, Fresh, Stepping
<1>4. ASSUME NEW d \in Calls, NEW e \in Calls, d # e
      PROVE  /\ ~(Holds(d) /\ Holds(e) /\ SameLock(d, e))'
             /\ Fresh(call[d])' => At(e, "idle")' \/ call'[e].session # call'[d].session
  <2>1. CASE d # c /\ e # c
    BY <1>1, <1>2, <1>4, <2>1 DEF SessionInv, Exclusive, SameLock
  <2>2. CASE d = c
    BY <1>1, <1>2, <1>3, <1>4, <2>2 DEF SameLock
  <2>3. CASE e = c
    BY <1>1, <1>2, <1>3, <1>4, <2>3 DEF SameLock
  <2> QED
    BY <2>1, <2>2, <2>3
<1> QED
  BY <1>4 DEF Exclusive

\* A call that ends gives way.
LEMMA ExclusiveAtRest ==
  ASSUME TypeOK, SessionInv, NEW c \in Calls, call' = [call EXCEPT ![c] = AtRest]
  PROVE  Exclusive'
<1>1. ~Fresh(AtRest)
  BY RestTyped DEF Fresh, Stepping
<1> QED
  BY <1>1, RestTyped, ExclusiveMoves

\* A call that goes on with the lock that it has, or as fresh as it was, excludes whom it
\* excluded before.
LEMMA ExclusiveGoesOn ==
  ASSUME TypeOK, SessionInv, NEW c \in Calls, NEW k \in CallRecord,
         call' = [call EXCEPT ![c] = k],
         k.session = call[c].session, k.generation = call[c].generation,
         call[c].pc \notin {"idle", "lock"}, Fresh(k) => Fresh(call[c])
  PROVE  Exclusive'
<1>1. ASSUME NEW d \in Calls, d # c
      PROVE  /\ k.generation # 0 /\ k.pc # "lock" /\ Holds(d) =>
                    k.session # call[d].session \/ k.generation # call[d].generation
             /\ Fresh(k) => At(d, "idle") \/ call[d].session # k.session
             /\ Fresh(call[d]) => k.pc = "idle" \/ k.session # call[d].session
  <2>1. /\ ~(Holds(c) /\ Holds(d) /\ SameLock(c, d))
        /\ Fresh(call[c]) => At(d, "idle") \/ call[d].session # call[c].session
        /\ Fresh(call[d]) => At(c, "idle") \/ call[c].session # call[d].session
    BY <1>1 DEF SessionInv, Exclusive
  <2> QED
    BY <2>1 DEF Holds, At, SameLock
<1> QED
  BY <1>1, ExclusiveMoves

\* A step of a call that leaves the files and the locks alone.
LEMMA SafeLocal ==
  ASSUME TypeOK, SessionInv, NEW c \in Calls, NEW k \in CallRecord,
         call' = [call EXCEPT ![c] = k], CallSafe(k), Exclusive',
         UNCHANGED <<md, expired, lockfile, sweeper, begun, cancelled, swept>>
  PROVE  SessionInv'
<1>1. /\ call'[c] = k
      /\ \A d \in Calls : d # c => call'[d] = call[d]
  BY OneCall
<1>2. CallSafe(call'[c])
  BY <1>1
<1>3. CallSafe(call[c])'
  BY <1>2 DEF CallSafe, Opened, LockKept, BaseIsFile, FreshSession, Fresh, Exists, Stepping
<1>4. \A d \in Calls : d # c => CallSafe(call[d])'
  BY <1>1, OtherSession DEF SessionInv, CallsSafe
<1>5. CallsSafe'
  BY <1>3, <1>4 DEF CallsSafe
<1>6. KnownBegun' /\ CleanupsLate' /\ CancelledGone'
  BY DEF SessionInv, KnownBegun, CleanupsLate, CancelledGone, Gone, Exists
<1> QED
  BY <1>5, <1>6 DEF SessionInv

\* The end of a call that changes nothing.
LEMMA SafeFail ==
  ASSUME TypeOK, SessionInv, NEW c \in Calls, Fail(c)
  PROVE  SessionInv'
<1>1. Exclusive'
  BY ExclusiveAtRest DEF Fail, Answer
<1> QED
  BY <1>1, RestTyped, RestSafe, SafeLocal DEF Fail, Answer, sessions, locks, history

\* A call goes on, with the lock and the session that it has.
LEMMA SafeMove ==
  ASSUME TypeOK, SessionInv, NEW c \in Calls,
         NEW pc \in {"await", "scored", "write", "fill", "replace"},
         call[c].pc \in Stepping \cup {"draft", "fill"},
         pc \in {"fill", "replace"} <=> call[c].pc \in {"draft", "fill"},
         call' = [call EXCEPT ![c].pc = pc],
         UNCHANGED <<md, expired, lockfile, sweeper, begun, cancelled, swept>>
  PROVE  SessionInv'
<1> DEFINE k == [call[c] EXCEPT !.pc = pc]
<1>1. call[c] \in CallRecord /\ CallSafe(call[c])
  BY DEF TypeOK, SessionInv, CallsSafe
<1>2. /\ k.pc = pc /\ k.base = call[c].base /\ k.session = call[c].session
      /\ k.generation = call[c].generation /\ k \in CallRecord
  BY <1>1 DEF CallRecord, Stepping
<1>3. call' = [call EXCEPT ![c] = k]
  OBVIOUS
<1> HIDE DEF k
<1>4. pc \notin {"open", "lock", "read", "idle"} /\ call[c].pc \notin {"idle", "lock"}
  BY DEF Stepping
<1>5. Fresh(k) => Fresh(call[c])
  BY <1>2 DEF Fresh
<1>6. CallSafe(k)
  BY <1>1, <1>2, <1>4, <1>5
     DEF CallSafe, Opened, LockKept, BaseIsFile, FreshSession, Stepping
<1>7. Exclusive'
  BY <1>2, <1>3, <1>4, <1>5, ExclusiveGoesOn
<1> QED
  BY <1>2, <1>3, <1>6, <1>7, SafeLocal

\* A step of a call that moves its session's file, between reading and writing.
LEMMA SafeFile ==
  ASSUME TypeOK, SessionInv, NEW c \in Calls, NEW k \in CallRecord,
         call' = [call EXCEPT ![c] = k], call[c].pc \in Stepping \cup {"read"},
         NEW s \in Sessions, s = call[c].session, NEW f \in File, md' = [md EXCEPT ![s] = f],
         expired' = expired \ {s}, UNCHANGED <<lockfile, sweeper, swept>>,
         begun \subseteq begun', begun' \subseteq begun \cup {s},
         cancelled' \subseteq cancelled \cup {s},
         s \in cancelled' => s \in begun /\ (Lasts(s) => f = NoFile),
         f # NoFile => s \in begun' /\ (s \in begun /\ Lasts(s) => Exists(s)),
         CallSafe(call[c])', Exclusive'
  PROVE  SessionInv'
<1>1. /\ call'[c] = k
      /\ \A d \in Calls : d # c => call'[d] = call[d]
  BY OneCall
<1>2. /\ \A t \in Sessions : t # s => md'[t] = md[t]
      /\ md'[s] = f
  BY DEF TypeOK
<1>3. ASSUME NEW d \in Calls, d # c PROVE CallSafe(call[d])'
  <2>1. call'[d] = call[d] /\ CallSafe(call[d])
    BY <1>1, <1>3 DEF SessionInv, CallsSafe
  <2>2. CASE call[d].session # s
    BY <1>2, <2>1, <2>2, OtherSession
  <2>3. CASE call[d].session = s
    <3>1. ~Fresh(call[d]) /\ (Lasts(s) => call[d].pc \notin Stepping)
      BY <1>3, <2>3, OnlyWriter
    <3>2. Exists(s)' /\ call[d].generation # 0 /\ Lasts(s) => Exists(s)
      BY <1>2, <2>1, <2>3 DEF CallSafe, LockKept, Exists, NoFile
    <3> QED
      BY <1>2, <2>1, <2>3, <3>1, <3>2, SameSession
  <2> QED
    BY <2>2, <2>3
<1>4. CallsSafe'
  BY <1>3 DEF CallsSafe
<1>5. \A t \in Sessions : Gone(t) => Gone(t)'
  BY <1>2 DEF Gone, Exists, NoFile
<1>6. Gone(s)' \/ s \notin cancelled'
  BY <1>2 DEF Gone, Exists, NoFile
<1>7. CleanupsLate' /\ CancelledGone'
  <2>1. CleanupsLate'
    BY <1>5 DEF SessionInv, CleanupsLate, Gone, TypeOK
  <2>2. \A t \in cancelled' : Gone(t)'
    BY <1>5, <1>6 DEF SessionInv, CancelledGone, TypeOK
  <2> QED
    BY <2>1, <2>2 DEF CancelledGone
<1>8. KnownBegun'
  BY <1>2 DEF SessionInv, KnownBegun, Exists, NoFile
<1> QED
  BY <1>4, <1>7, <1>8 DEF SessionInv

-----------------------------------------------------------------------------
(* Every step keeps SessionInv. *)

\* A new session is nobody's, and one that a client knows is no fresh call's.
LEMMA BeginSafe ==
  ASSUME TypeInv, SessionInv, NEW c \in Calls, BeginCall(c)
  PROVE  SessionInv'
<1> USE DEF sessions, locks, TypeInv
<1>1. \A d \in Calls : Fresh(call[d]) => call[d].session \notin begun
  BY DEF SessionInv, CallsSafe, CallSafe, FreshSession
<1>2. ASSUME NEW k \in CallRecord, Begin(c, k), begun' = begun, CallSafe(k),
             \A d \in Calls : /\ Fresh(k) => call[d].session # k.session
                              /\ Fresh(call[d]) => call[d].session # k.session,
             k.generation = 0
      PROVE  SessionInv'
  <2>1. Exclusive'
    BY <1>2, ExclusiveMoves DEF Begin
  <2> QED
    BY <1>2, <2>1, SafeLocal DEF Begin
<1>3. CASE BeginNew(c)
  <2>1. PICK s \in Sessions \ (begun \cup {call[d].session : d \in Calls}) :
           /\ Begin(c, [AtRest EXCEPT !.pc = "step", !.session = s])
           /\ UNCHANGED begun
    BY <1>3 DEF BeginNew
  <2> DEFINE k == [AtRest EXCEPT !.pc = "step", !.session = s]
  <2>2. /\ k.pc = "step" /\ k.session = s /\ k.generation = 0 /\ k.base = NoFile
        /\ k \in CallRecord
    BY RestTyped DEF CallRecord, AtRest
  <2>3. Begin(c, k)
    BY <2>1
  <2> HIDE DEF k
  <2>4. CallSafe(k)
    BY <2>2 DEF SessionInv, KnownBegun, CallSafe, Opened, LockKept, BaseIsFile, FreshSession
  <2> QED
    BY <1>2, <2>1, <2>2, <2>3, <2>4
<1>4. ASSUME NEW k \in CallRecord, Begin(c, k), begun' = begun, k.pc = "open",
             k.session \in begun, k.generation = 0, k.cancels \/ k.expected # 0
      PROVE  SessionInv'
  <2>1. CallSafe(k) /\ ~Fresh(k)
    BY <1>4
       DEF CallSafe, Opened, LockKept, BaseIsFile, FreshSession, Fresh, Stepping
  <2> QED
    BY <1>1, <1>2, <1>4, <2>1
<1>5. CASE BeginContinue(c)
  <2>1. PICK s \in begun, r \in 1 .. MaxRounds :
           /\ Begin(c, [AtRest EXCEPT !.pc = "open", !.session = s, !.expected = r])
           /\ UNCHANGED begun
    BY <1>5 DEF BeginContinue
  <2> DEFINE k == [AtRest EXCEPT !.pc = "open", !.session = s, !.expected = r]
  <2>2. r \in 0 .. MaxRounds /\ r # 0 /\ s \in Sessions
    BY DEF TypeOK
  <2>3. /\ k.pc = "open" /\ k.session = s /\ k.generation = 0 /\ k.expected = r
        /\ k \in CallRecord
    BY <2>2, RestTyped DEF CallRecord, AtRest
  <2>4. Begin(c, k)
    BY <2>1
  <2> HIDE DEF k
  <2> QED
    BY <1>4, <2>1, <2>2, <2>3, <2>4
<1>6. CASE BeginCancel(c)
  <2>1. PICK s \in begun :
           /\ Begin(c, [AtRest EXCEPT !.pc = "open", !.session = s, !.cancels = TRUE])
           /\ UNCHANGED begun
    BY <1>6 DEF BeginCancel
  <2> DEFINE k == [AtRest EXCEPT !.pc = "open", !.session = s, !.cancels = TRUE]
  <2>2. s \in Sessions
    BY DEF TypeOK
  <2>3. /\ k.pc = "open" /\ k.session = s /\ k.generation = 0 /\ k.cancels = TRUE
        /\ k \in CallRecord
    BY <2>2, RestTyped DEF CallRecord, AtRest
  <2>4. Begin(c, k)
    BY <2>1
  <2> HIDE DEF k
  <2> QED
    BY <1>4, <2>1, <2>2, <2>3, <2>4
<1> QED
  BY <1>3, <1>5, <1>6 DEF BeginCall

\* A lock file is made for a session only that nobody has locked.
LEMMA OpenLockSafe ==
  ASSUME TypeInv, SessionInv, NEW c \in Calls, OpenLock(c)
  PROVE  SessionInv'
<1> DEFINE s == call[c].session
           g == IF lockfile[s] = 0 THEN made[s] + 1 ELSE lockfile[s]
           k == [call[c] EXCEPT !.pc = "lock", !.generation = g]
<1>1. /\ call[c] \in CallRecord /\ call[c].pc = "open" /\ s \in Sessions
      /\ CallSafe(call[c]) /\ s \in begun /\ call[c].generation = 0
      /\ ~call[c].cancels => call[c].expected # 0
  BY DEF TypeInv, TypeOK, CallTypeInv, OpenLock, At, SessionInv, CallsSafe, CallSafe, Opened
<1>2. lockfile[s] \in 0 .. MaxLocks /\ made[s] \in 0 .. MaxLocks
  BY <1>1 DEF TypeInv, TypeOK
<1>3. g \in 0 .. MaxLocks /\ g # 0 /\ (lockfile[s] # 0 => g = lockfile[s])
  BY <1>1, <1>2 DEF TypeInv
<1>4. /\ lockfile' = [lockfile EXCEPT ![s] = g]
      /\ call' = [call EXCEPT ![c] = k]
      /\ UNCHANGED <<md, expired, sweeper, begun, cancelled, swept>>
  BY DEF OpenLock, sessions, outputs, history
<1> HIDE DEF g
<1>5. /\ k.pc = "lock" /\ k.session = s /\ k.generation = g
      /\ k.expected = call[c].expected /\ k.cancels = call[c].cancels
      /\ k \in CallRecord
  BY <1>1, <1>3 DEF CallRecord
<1> HIDE DEF k
<1>6. /\ call'[c] = k
      /\ \A d \in Calls : d # c => call'[d] = call[d]
  BY <1>4, <1>5, OneCall DEF TypeInv
<1>7. /\ lockfile'[s] = g
      /\ \A t \in Sessions : t # s => lockfile'[t] = lockfile[t]
  BY <1>1, <1>4 DEF TypeInv, TypeOK
<1> HIDE DEF s
<1>8. CallSafe(call[c])'
  <2>1. /\ call'[c].pc = "lock" /\ call'[c].session = s /\ call'[c].generation = g
        /\ call'[c].expected = call[c].expected /\ call'[c].cancels = call[c].cancels
    BY <1>5, <1>6
  <2>2. (Opened(call[c]) /\ LockKept(call[c]))'
    BY <1>1, <1>3, <1>4, <1>7, <2>1 DEF Opened, LockKept
  <2>3. (BaseIsFile(call[c]) /\ FreshSession(call[c]))'
    BY <2>1 DEF BaseIsFile, FreshSession, Fresh, Stepping
  <2> QED
    BY <2>2, <2>3 DEF CallSafe
<1>9. ASSUME NEW d \in Calls, d # c PROVE CallSafe(call[d])'
  <2>1. call'[d] = call[d] /\ CallSafe(call[d])
    BY <1>6, <1>9 DEF SessionInv, CallsSafe
  <2>2. CASE call[d].session # s \/ lockfile[s] # 0
    BY <1>3, <1>4, <1>7, <2>1, <2>2, OtherSession
  <2>3. CASE call[d].session = s /\ lockfile[s] = 0
    <3>1. Opened(call[d])' /\ BaseIsFile(call[d])' /\ FreshSession(call[d])'
      BY <1>4, <2>1
         DEF CallSafe, Opened, BaseIsFile, FreshSession, Fresh, Stepping, Exists
    <3>2. LockKept(call[d])'
      BY <1>4, <2>1, <2>3 DEF CallSafe, LockKept, Exists
    <3> QED
      BY <3>1, <3>2 DEF CallSafe
  <2> QED
    BY <2>2, <2>3
<1>10. Exclusive'
  <2>1. ~Fresh(k)
    BY <1>5 DEF Fresh, Stepping
  <2>2. \A d \in Calls : Fresh(call[d]) => call[d].session # s
    BY <1>1 DEF SessionInv, CallsSafe, CallSafe, FreshSession
  <2> QED
    BY <1>4, <1>5, <2>1, <2>2, ExclusiveMoves DEF TypeInv
<1>11. CallsSafe'
  BY <1>8, <1>9 DEF CallsSafe
<1>12. CleanupsLate' /\ CancelledGone'
  BY <1>4 DEF SessionInv, CleanupsLate, CancelledGone, Gone, Exists
<1>13. KnownBegun'
  BY <1>1, <1>4, <1>7 DEF SessionInv, KnownBegun, Exists
<1> QED
  BY <1>10, <1>11, <1>12, <1>13 DEF SessionInv

\* flock makes sure of the exclusion.
LEMMA LockSafe ==
  ASSUME TypeOK, SessionInv, NEW c \in Calls, Lock(c)
  PROVE  SessionInv'
<1> DEFINE k == [call[c] EXCEPT !.pc = "read"]
<1>1. call[c] \in CallRecord /\ CallSafe(call[c]) /\ call[c].pc = "lock"
  BY DEF TypeOK, SessionInv, CallsSafe, Lock, At
<1>2. /\ k.pc = "read" /\ k.base = call[c].base /\ k.session = call[c].session
      /\ k.generation = call[c].generation /\ k.cancels = call[c].cancels
      /\ k.expected = call[c].expected /\ k \in CallRecord
  BY <1>1 DEF CallRecord
<1>3. call' = [call EXCEPT ![c] = k]
  BY DEF Lock, Step
<1> HIDE DEF k
<1>4. CallSafe(k) /\ ~Fresh(k)
  BY <1>1, <1>2
     DEF CallSafe, Opened, LockKept, BaseIsFile, FreshSession, Fresh, Stepping
<1>5. k.session \in begun
  BY <1>4, <1>2 DEF CallSafe, Opened
<1>6. ASSUME NEW d \in Calls
      PROVE  /\ Fresh(call[d]) => call[d].session # k.session
             /\ Holds(d) => k.session # call[d].session \/ k.generation # call[d].generation
  BY <1>2, <1>5 DEF SessionInv, CallsSafe, CallSafe, FreshSession, Lock, SameLock
<1>7. Exclusive'
  BY <1>2, <1>3, <1>4, <1>6, ExclusiveMoves
<1> QED
  BY <1>2, <1>3, <1>4, <1>7, SafeLocal DEF Lock, sessions, locks, history

\* A call reads the file of the revision that the client was told.
LEMMA ReadSafe ==
  ASSUME TypeInv, SessionInv, NEW c \in Calls, ReadSession(c)
  PROVE  SessionInv'
<1> DEFINE s == call[c].session
           k == [call[c] EXCEPT !.pc = "step", !.base = md[s]]
<1>1. /\ call[c] \in CallRecord /\ CallSafe(call[c]) /\ call[c].pc = "read"
      /\ s \in Sessions /\ md[s] \in File
  BY DEF TypeInv, TypeOK, CallTypeInv, SessionInv, CallsSafe, ReadSession, At
<1>2. /\ k.pc = "step" /\ k.base = md[s] /\ k.session = s
      /\ k.generation = call[c].generation /\ k \in CallRecord
  BY <1>1 DEF CallRecord
<1>3. call' = [call EXCEPT ![c] = k]
  BY DEF ReadSession
<1> HIDE DEF k
<1>4. Exists(s) /\ k.generation # 0
  BY <1>1, <1>2, RestTyped DEF CallSafe, Opened, ReadSession, Exists
<1>5. CallSafe(k)
  BY <1>1, <1>2, <1>4
     DEF CallSafe, Opened, LockKept, BaseIsFile, FreshSession, Fresh
<1>6. Exclusive'
  BY <1>1, <1>2, <1>3, <1>4, ExclusiveGoesOn DEF Fresh, TypeInv
<1> QED
  BY <1>2, <1>3, <1>5, <1>6, SafeLocal DEF ReadSession, locks, sessions, history, TypeInv

\* The cancellation of a session, which is gone then.
LEMMA CancelSafe ==
  ASSUME TypeInv, SessionInv, NEW c \in Calls, Cancel(c)
  PROVE  SessionInv'
<1> DEFINE s == call[c].session
<1>1. /\ call[c] \in CallRecord /\ CallSafe(call[c]) /\ call[c].pc = "read"
      /\ s \in Sessions /\ s \in begun
  BY DEF TypeInv, TypeOK, CallTypeInv, SessionInv, CallsSafe, CallSafe, Opened, Cancel, At
<1>2. /\ md' = [md EXCEPT ![s] = NoFile] /\ expired' = expired \ {s}
      /\ cancelled' = cancelled \cup {s} /\ call' = [call EXCEPT ![c] = AtRest]
      /\ UNCHANGED <<lockfile, sweeper, begun, swept>>
  BY DEF Cancel, Answer, locks
<1> HIDE DEF s
<1>3. call'[c] = AtRest
  BY <1>2, RestTyped, OneCall DEF TypeInv
<1>4. CallSafe(call[c])'
  BY <1>3, RestTyped
     DEF CallSafe, Opened, LockKept, BaseIsFile, FreshSession, Fresh, Stepping
<1>5. Exclusive'
  BY <1>2, ExclusiveAtRest DEF TypeInv
<1> QED
  BY <1>1, <1>2, <1>4, <1>5, RestTyped, SafeFile DEF TypeInv, s

\* The session's next revision: it follows the one that was read, or is the first.
LEMMA WriteSafe ==
  ASSUME TypeInv, SessionInv, NEW c \in Calls, WriteSession(c)
  PROVE  SessionInv'
<1> DEFINE s == call[c].session
           f == NextState(call[c].base)
<1>1. /\ call[c] \in CallRecord /\ CallSafe(call[c]) /\ call[c].pc = "write"
      /\ s \in Sessions /\ CallTypeInv(call[c])
  BY DEF TypeInv, TypeOK, CallTypeInv, SessionInv, CallsSafe, WriteSession, At
<1>2. call[c].base \in File
  BY <1>1 DEF CallRecord
<1>3. f \in File
  BY <1>1, <1>2 DEF CallTypeInv, NextState, File
<1>4. /\ md' = [md EXCEPT ![s] = f] /\ expired' = expired \ {s}
      /\ begun' = begun \cup {s} /\ call' = [call EXCEPT ![c] = AtRest]
      /\ UNCHANGED <<lockfile, sweeper, cancelled, swept>>
  BY DEF WriteSession, Answer, locks
<1> HIDE DEF f
<1>5. s \in begun /\ Lasts(s) => Exists(s)
  BY <1>1 DEF CallSafe, BaseIsFile, FreshSession, Fresh, Stepping
<1> HIDE DEF s
<1>6. call'[c] = AtRest
  BY <1>4, RestTyped, OneCall DEF TypeInv
<1>7. CallSafe(call[c])'
  BY <1>6, RestTyped
     DEF CallSafe, Opened, LockKept, BaseIsFile, FreshSession, Fresh, Stepping
<1>8. Exclusive'
  BY <1>4, ExclusiveAtRest DEF TypeInv
<1>9. call[c].pc \in Stepping \cup {"read"}
  BY <1>1 DEF Stepping
<1>10. s \in cancelled' => s \in begun /\ ~Lasts(s)
  BY <1>4, <1>5 DEF SessionInv, CancelledGone, Gone
<1>11. /\ begun \subseteq begun' /\ begun' \subseteq begun \cup {s} /\ s \in begun'
       /\ cancelled' \subseteq cancelled \cup {s}
       /\ lockfile' = lockfile /\ sweeper' = sweeper
  BY <1>4
<1>12. s = call[c].session /\ TypeOK
  BY DEF TypeInv, s
<1> QED
  BY <1>1, <1>3, <1>4, <1>5, <1>7, <1>8, <1>9, <1>10, <1>11, <1>12, RestTyped, SafeFile

\* The end of the interview, with which its session goes.
LEMMA CompleteSafe ==
  ASSUME TypeInv, SessionInv, NEW c \in Calls, Complete(c)
  PROVE  SessionInv'
<1> DEFINE s == call[c].session
           k == [call[c] EXCEPT !.pc = "draft"]
<1>1. /\ call[c] \in CallRecord /\ CallSafe(call[c]) /\ call[c].pc = "scored"
      /\ s \in Sessions
  BY DEF TypeInv, TypeOK, CallTypeInv, SessionInv, CallsSafe, Complete, At
<1>2. /\ k.pc = "draft" /\ k.session = s /\ k.generation = call[c].generation
      /\ k.base = call[c].base /\ k \in CallRecord
  BY <1>1 DEF CallRecord
<1>3. /\ md' = [md EXCEPT ![s] = NoFile] /\ expired' = expired \ {s}
      /\ call' = [call EXCEPT ![c] = k]
      /\ UNCHANGED <<lockfile, sweeper, begun, cancelled, swept>>
  BY DEF Complete, Step, locks, history
<1> HIDE DEF k
<1>4. call'[c] = k
  BY <1>2, <1>3, OneCall DEF TypeInv
<1>5. md'[s] = NoFile
  BY <1>1, <1>3 DEF TypeInv, TypeOK
<1>6. Fresh(k) => Fresh(call[c])
  BY <1>1, <1>2 DEF Fresh, Stepping
<1>7. CallSafe(call[c])'
  <2>1. (Opened(call[c]) /\ BaseIsFile(call[c]))'
    BY <1>2, <1>4 DEF Opened, BaseIsFile, Stepping
  <2>2. LockKept(call[c])'
    BY <1>1, <1>2, <1>3, <1>4, <1>5 DEF CallSafe, LockKept, Exists
  <2>3. Fresh(call[c])' <=> Fresh(k)
    BY <1>4 DEF Fresh, Stepping
  <2>4. FreshSession(call[c])'
    BY <1>1, <1>2, <1>3, <1>4, <1>5, <1>6, <2>3 DEF CallSafe, FreshSession, Exists
  <2> QED
    BY <2>1, <2>2, <2>4 DEF CallSafe
<1>8. Exclusive'
  BY <1>1, <1>2, <1>3, <1>6, ExclusiveGoesOn DEF TypeInv
<1>9. s \in cancelled' => s \in begun
  BY <1>3 DEF SessionInv, CancelledGone, Gone
<1>10. call[c].pc \in Stepping
  BY <1>1 DEF Stepping
<1> HIDE DEF s
<1> QED
  BY <1>1, <1>2, <1>3, <1>7, <1>8, <1>9, <1>10, RestTyped, SafeFile DEF TypeInv, s

\* The client is told of a session that is gone, if it did not know it.
LEMMA ReplaceSafe ==
  ASSUME TypeInv, SessionInv, NEW c \in Calls, ReplaceTasks(c)
  PROVE  SessionInv'
<1> DEFINE s == call[c].session
<1>1. call[c].pc = "replace" /\ CallSafe(call[c])
  BY DEF SessionInv, CallsSafe, ReplaceTasks, At
<1>2. /\ call' = [call EXCEPT ![c] = AtRest] /\ begun' = begun \cup {s}
      /\ UNCHANGED <<md, expired, lockfile, sweeper, cancelled, swept>>
  BY DEF ReplaceTasks, Answer, sessions, locks
<1>3. /\ call'[c] = AtRest
      /\ \A d \in Calls : d # c => call'[d] = call[d]
  BY <1>2, RestTyped, OneCall DEF TypeInv
<1>4. CallSafe(call[c])'
  BY <1>3, RestTyped
     DEF CallSafe, Opened, LockKept, BaseIsFile, FreshSession, Fresh, Stepping
<1>5. ASSUME NEW d \in Calls, d # c PROVE CallSafe(call[d])'
  <2>1. call'[d] = call[d] /\ CallSafe(call[d])
    BY <1>3, <1>5 DEF SessionInv, CallsSafe
  <2>2. CASE call[d].session # s \/ s \in begun
    BY <1>2, <2>1, <2>2, OtherSession
  <2>3. CASE call[d].session = s /\ s \notin begun
    <3>1. Fresh(call[c])
      BY <1>1, <2>3 DEF CallSafe, LockKept, Fresh
    <3>2. At(d, "idle")
      BY <1>5, <2>3, <3>1 DEF SessionInv, Exclusive
    <3>3. call[d].pc \notin Stepping /\ ~Fresh(call[d])
      BY <3>2 DEF At, Fresh, Stepping
    <3> QED
      BY <1>2, <2>1, <3>3, SameSession DEF Exists
  <2> QED
    BY <2>2, <2>3
<1>6. CallsSafe'
  BY <1>4, <1>5 DEF CallsSafe
<1>7. Exclusive'
  BY <1>2, ExclusiveAtRest DEF TypeInv
<1>8. KnownBegun' /\ CleanupsLate' /\ CancelledGone'
  BY <1>2 DEF SessionInv, KnownBegun, CleanupsLate, CancelledGone, Gone,
              Exists
<1> QED
  BY <1>6, <1>7, <1>8 DEF SessionInv

\* Calls that are in the middle of a step of a session whose file is removed lose their
\* lock, and the session is swept then; no fresh call's is.
LEMMA RemoveSafe ==
  ASSUME TypeInv, SessionInv, NEW w \in Sweepers, RemoveSession(w)
  PROVE  SessionInv'
<1> DEFINE s == sweeper[w].session
<1>1. s \in Sessions /\ swept \subseteq swept' /\ (Exists(s) => s \in swept')
  BY DEF TypeInv, SweepTypeInv, RemoveSession
<1>2. /\ md' = [md EXCEPT ![s] = NoFile] /\ sweeper' = [sweeper EXCEPT ![w] = Idle]
      /\ UNCHANGED <<lockfile, call, begun, cancelled>>
  BY DEF RemoveSession, locks
<1> HIDE DEF s
<1>3. /\ md'[s] = NoFile
      /\ \A t \in Sessions : /\ t # s => md'[t] = md[t]
                             /\ Exists(t)' => Exists(t)
  BY <1>1, <1>2 DEF TypeInv, TypeOK, Exists
<1>4. \A x \in Sweepers : sweeper'[x] = sweeper[x] \/ sweeper'[x].pc = "idle"
  BY <1>2 DEF TypeInv, TypeOK, Idle
<1>5. KnownBegun'
  BY <1>2, <1>3 DEF SessionInv, KnownBegun
<1>6. \A t \in Sessions : Gone(t) => Gone(t)'
  BY <1>1, <1>2, <1>3 DEF Gone
<1>7. CleanupsLate'
  BY <1>4, <1>6 DEF SessionInv, CleanupsLate, TypeInv, TypeOK, Gone
<1>8. CancelledGone'
  BY <1>2, <1>6 DEF SessionInv, CancelledGone, TypeInv, TypeOK
<1>9. ASSUME NEW d \in Calls PROVE CallSafe(call[d])'
  <2>1. CallSafe(call[d]) /\ call'[d] = call[d]
    BY <1>2 DEF SessionInv, CallsSafe
  <2>2. CASE call[d].session # s
    BY <1>1, <1>2, <1>3, <2>1, <2>2, OtherSession
  <2>3. CASE call[d].session = s /\ Exists(s)
    <3>1. ~Fresh(call[d])
      BY <2>1, <2>3 DEF CallSafe, FreshSession
    <3> QED
      BY <1>1, <1>2, <2>1, <2>3, <3>1, SameSession
  <2>4. CASE call[d].session = s /\ ~Exists(s)
    <3>1. md'[s] = md[s]
      BY <1>3, <2>4 DEF Exists
    <3> QED
      BY <1>1, <1>2, <2>1, <2>4, <3>1, OtherSession
  <2> QED
    BY <2>2, <2>3, <2>4
<1>10. CallsSafe'
  BY <1>9 DEF CallsSafe
<1>11. Exclusive'
  BY <1>2 DEF SessionInv, Exclusive, Holds, At, SameLock, Fresh, Stepping
<1> QED
  BY <1>5, <1>7, <1>8, <1>10, <1>11 DEF SessionInv

\* Time, and a cleanup that has found a file to remove, change nothing yet.
LEMMA ExpireSafe ==
  ASSUME TypeInv, SessionInv,
         \/ \E s \in Sessions : Expire(s)
         \/ \E w \in Sweepers, s \in Sessions : FindExpired(w, s)
  PROVE  SessionInv'
<1>1. UNCHANGED <<md, lockfile, call, begun, cancelled, swept>>
  BY DEF Expire, FindExpired, sessions, locks, history
<1>2. \A x \in Sweepers : sweeper'[x] = sweeper[x] \/ sweeper'[x].pc = "session"
  BY DEF Expire, FindExpired, TypeInv, TypeOK
<1>3. CleanupsLate'
  BY <1>1, <1>2 DEF SessionInv, CleanupsLate, Gone, Exists
<1>4. KnownBegun' /\ CancelledGone'
  BY <1>1 DEF SessionInv, KnownBegun, CancelledGone, Gone, Exists
<1>5. CallsSafe'
  BY <1>1, OtherSession DEF SessionInv, CallsSafe
<1>6. Exclusive'
  BY <1>1 DEF SessionInv, Exclusive, Holds, At, SameLock, Fresh, Stepping
<1> QED
  BY <1>3, <1>4, <1>5, <1>6 DEF SessionInv

\* Cleanups remove lock files of sessions that are gone, or were removed.
LEMMA SweepSafe ==
  ASSUME TypeInv, SessionInv, NEW w \in Sweepers, Sweep(w)
  PROVE  SessionInv'
<1> USE DEF sessions, locks, outputs, history
<1>1. CASE RemoveSession(w) \/ \E s \in Sessions : FindExpired(w, s)
  BY <1>1, RemoveSafe, ExpireSafe
<1>2. ASSUME NEW s \in Sessions, FindOrphan(w, s) PROVE SessionInv'
  <2>1. Gone(s)
    BY <1>2 DEF SessionInv, KnownBegun, FindOrphan, Gone
  <2>2. \A x \in Sweepers : \/ sweeper'[x] = sweeper[x]
                            \/ sweeper'[x] = [pc |-> "lock", session |-> s]
    BY <1>2 DEF FindOrphan, TypeInv, TypeOK
  <2>3. UNCHANGED <<md, expired, lockfile, call, begun, cancelled, swept>>
    BY <1>2 DEF FindOrphan
  <2>4. CleanupsLate'
    BY <2>1, <2>2, <2>3 DEF SessionInv, CleanupsLate, Gone, Exists
  <2>5. KnownBegun' /\ CancelledGone'
    BY <2>3 DEF SessionInv, KnownBegun, CancelledGone, Gone, Exists
  <2>6. CallsSafe'
    BY <2>3, OtherSession DEF SessionInv, CallsSafe
  <2>7. Exclusive'
    BY <2>3 DEF SessionInv, Exclusive, Holds, At, SameLock, Fresh, Stepping
  <2> QED
    BY <2>4, <2>5, <2>6, <2>7 DEF SessionInv
<1>3. CASE RemoveLock(w)
  <2> DEFINE s == sweeper[w].session
  <2>1. Gone(s) /\ s \in Sessions
    BY <1>3 DEF SessionInv, CleanupsLate, RemoveLock, Gone, TypeInv, TypeOK
  <2>2. lockfile' = [lockfile EXCEPT ![s] = 0] /\ sweeper' = [sweeper EXCEPT ![w] = Idle]
    BY <1>3 DEF RemoveLock
  <2> HIDE DEF s
  <2>3. \A x \in Sweepers : sweeper'[x] = sweeper[x] \/ sweeper'[x].pc = "idle"
    BY <2>2 DEF TypeInv, TypeOK, Idle
  <2>4. UNCHANGED <<md, expired, call, begun, cancelled, swept>>
    BY <1>3 DEF RemoveLock
  <2>5. \A t \in Sessions : t # s => lockfile'[t] = lockfile[t]
    BY <2>2 DEF TypeInv, TypeOK
  <2>6. CleanupsLate'
    BY <2>3, <2>4 DEF SessionInv, CleanupsLate, Gone, Exists
  <2>7. KnownBegun' /\ CancelledGone'
    BY <2>1, <2>4, <2>5 DEF SessionInv, KnownBegun, CancelledGone, Gone, Exists
  <2>8. ASSUME NEW d \in Calls PROVE CallSafe(call[d])'
    <3>1. CallSafe(call[d]) /\ call'[d] = call[d]
      BY <2>4 DEF SessionInv, CallsSafe
    <3>2. (Opened(call[d]) /\ BaseIsFile(call[d]) /\ FreshSession(call[d]))'
      BY <2>4, <3>1
         DEF CallSafe, Opened, BaseIsFile, FreshSession, Fresh, Stepping, Exists
    <3>3. LockKept(call[d])'
      BY <2>1, <2>4, <2>5, <3>1 DEF CallSafe, LockKept, Exists, Gone
    <3> QED
      BY <3>2, <3>3 DEF CallSafe
  <2>9. CallsSafe'
    BY <2>8 DEF CallsSafe
  <2>10. Exclusive'
    BY <2>4 DEF SessionInv, Exclusive, Holds, At, SameLock, Fresh, Stepping
  <2> QED
    BY <2>6, <2>7, <2>9, <2>10 DEF SessionInv
<1> QED
  BY <1>1, <1>2, <1>3 DEF Sweep

\* The locks of a server that dies are free, and the sessions that it did not tell of
\* nobody's.
LEMMA CrashSafe ==
  ASSUME TypeInv, SessionInv, NEW v \in Servers, Crash(v)
  PROVE  SessionInv'
<1>1. UNCHANGED <<md, expired, lockfile, sweeper, begun, cancelled, swept>>
  BY DEF Crash, sessions, locks, history
<1>2. \A d \in Calls : call'[d] = AtRest \/ call'[d] = call[d]
  BY DEF Crash
<1>3. ASSUME NEW d \in Calls PROVE CallSafe(call[d])'
  <2>1. CASE call'[d] = call[d]
    BY <1>1, <2>1, OtherSession DEF SessionInv, CallsSafe
  <2>2. CASE call'[d] = AtRest
    BY <2>2, RestTyped
       DEF CallSafe, Opened, LockKept, BaseIsFile, FreshSession, Fresh, Stepping
  <2> QED
    BY <1>2, <2>1, <2>2
<1>4. ASSUME NEW d \in Calls, NEW e \in Calls, d # e
      PROVE  /\ ~(Holds(d) /\ Holds(e) /\ SameLock(d, e))'
             /\ Fresh(call[d])' => At(e, "idle")' \/ call'[e].session # call'[d].session
  <2>1. CASE call'[d] = call[d] /\ call'[e] = call[e]
    BY <1>4, <2>1 DEF SessionInv, Exclusive, Holds, At, SameLock, Fresh, Stepping
  <2>2. CASE call'[d] = AtRest \/ call'[e] = AtRest
    BY <2>2, RestTyped DEF Holds, At, Fresh, Stepping
  <2> QED
    BY <1>2, <2>1, <2>2
<1>5. CallsSafe' /\ Exclusive'
  BY <1>3, <1>4 DEF CallsSafe, Exclusive
<1>6. KnownBegun' /\ CleanupsLate' /\ CancelledGone'
  BY <1>1 DEF SessionInv, KnownBegun, CleanupsLate, CancelledGone, Gone,
              Exists
<1> QED
  BY <1>5, <1>6 DEF SessionInv

\* A step of a call, one action after the other.
LEMMA CallStepSafe ==
  ASSUME TypeInv, SessionInv, NEW c \in Calls,
         BeginCall(c) \/ Lock(c) \/ Resume(c) \/ Proceed(c)
  PROVE  SessionInv'
<1> USE DEF TypeInv, sessions, locks, history
<1>1. CASE BeginCall(c)
  BY <1>1, BeginSafe
<1>2. CASE OpenLock(c) \/ Lock(c) \/ ReadSession(c)
  BY <1>2, OpenLockSafe, LockSafe, ReadSafe
<1>3. CASE Cancel(c) \/ WriteSession(c) \/ Complete(c) \/ ReplaceTasks(c)
  BY <1>3, CancelSafe, WriteSafe, CompleteSafe, ReplaceSafe
<1>4. CASE Refuse(c) \/ AnswerInvalid(c) \/ ModelUnavailable(c) \/ DraftVanished(c)
  BY <1>4, SafeFail DEF Refuse, AnswerInvalid, ModelUnavailable, DraftVanished
<1>5. CASE Await(c)
  BY <1>5, SafeMove DEF Await, At, Stepping
<1>6. CASE Resume(c)
  BY <1>6, SafeMove DEF Resume, At, Stepping
<1>7. CASE AskMissing(c) \/ AskWeak(c)
  BY <1>7, SafeMove DEF AskMissing, AskWeak, Ask, Step, At, Stepping
<1>8. CASE OpenDraft(c) \/ WriteDraft(c)
  <2>1. /\ call[c].pc \in {"draft", "fill"}
        /\ \E pc \in {"fill", "replace"} : call' = [call EXCEPT ![c].pc = pc]
        /\ UNCHANGED <<md, expired, lockfile, sweeper, begun, cancelled, swept>>
    BY <1>8 DEF OpenDraft, WriteDraft, Step, At
  <2> QED
    BY <2>1, SafeMove DEF Stepping
<1> QED
  BY <1>1, <1>2, <1>3, <1>4, <1>5, <1>6, <1>7, <1>8 DEF Proceed

\* SessionInv is inductive, with TypeInv.
LEMMA SafeStepInv ==
  ASSUME TypeInv, SessionInv, [Next]_vars
  PROVE  SessionInv'
<1>1. CASE UNCHANGED vars
  <2>1. UNCHANGED <<md, expired, lockfile, call, sweeper, begun, cancelled, swept>>
    BY <1>1 DEF vars
  <2>2. CallsSafe'
    BY <2>1, OtherSession DEF SessionInv, CallsSafe
  <2>3. Exclusive'
    BY <2>1 DEF SessionInv, Exclusive, Holds, At, SameLock, Fresh, Stepping
  <2>4. KnownBegun' /\ CleanupsLate' /\ CancelledGone'
    BY <2>1 DEF SessionInv, KnownBegun, CleanupsLate, CancelledGone, Gone,
                Exists
  <2> QED
    BY <2>2, <2>3, <2>4 DEF SessionInv
<1>2. CASE \E c \in Calls : BeginCall(c) \/ Lock(c) \/ Resume(c) \/ Proceed(c)
  BY <1>2, CallStepSafe
<1>3. CASE \E w \in Sweepers : Sweep(w)
  BY <1>3, SweepSafe
<1>4. CASE \E v \in Servers : Crash(v)
  BY <1>4, CrashSafe
<1>5. CASE \E s \in Sessions : Expire(s)
  BY <1>5, ExpireSafe
<1> QED
  BY <1>1, <1>2, <1>3, <1>4, <1>5 DEF Next

\* No session is known to anybody when SessionInv starts to hold.
LEMMA SafeInit ==
  Init => SessionInv
<1> SUFFICES ASSUME Init PROVE SessionInv
  OBVIOUS
<1>1. \A c \in Calls : call[c] = AtRest
  BY DEF Init
<1>2. CallsSafe
  BY <1>1, RestSafe DEF CallsSafe
<1>3. Exclusive
  BY <1>1, RestTyped DEF Exclusive, Holds, Fresh, Stepping
<1>4. KnownBegun /\ CleanupsLate /\ CancelledGone
  BY DEF Init, KnownBegun, CleanupsLate, CancelledGone, Exists, Idle
<1> QED
  BY <1>2, <1>3, <1>4 DEF SessionInv

-----------------------------------------------------------------------------
(* The theorems. *)

\* Locks, files, calls and cleanups agree, as SessionInv says, whatever expires.
THEOREM Inductive == Spec => [](TypeInv /\ SessionInv)
<1>1. Init => TypeInv /\ SessionInv
  BY TypeInit, SafeInit
<1>2. TypeInv /\ SessionInv /\ [Next]_vars => (TypeInv /\ SessionInv)'
  BY TypeStepInv, SafeStepInv
<1> QED
  BY <1>1, <1>2, PTL DEF Spec

\* Two calls never step one session at a time, although cleanups remove the files that
\* their locks are on, unless a cleanup has removed the session's file as well.
THEOREM StepsAlone ==
  Spec => [](\A c, d \in Calls :
                c # d /\ call[c].session = call[d].session /\ call[c].session \notin swept
                    => call[c].pc \notin Stepping \/ call[d].pc \notin Stepping)
<1>1. SessionInv =>
         \A c, d \in Calls :
             c # d /\ call[c].session = call[d].session /\ call[c].session \notin swept
                 => call[c].pc \notin Stepping \/ call[d].pc \notin Stepping
  BY OnlyWriter
<1> QED
  BY <1>1, Inductive, PTL

\* A session whose cancellation was answered does not come back, whatever call was in the
\* middle of a step then and whatever expires, unless a cleanup has removed its file.
THEOREM CancelledCorrect == Spec => []CancelledStaysGone
<1>1. SessionInv => CancelledStaysGone
  BY DEF SessionInv, CancelledGone, Gone, CancelledStaysGone
<1> QED
  BY <1>1, Inductive, PTL

\* A call never writes over a session that another call has moved on since it was read,
\* whatever expires, unless a cleanup has removed the session's file.
THEOREM RevisionsCorrect == Spec => RevisionOnce
<1>1. ASSUME SessionInv, NEW c \in Calls, WriteSession(c), call[c].session \notin swept
      PROVE  md[call[c].session] \in {NoFile, call[c].base}
  <2>1. CallSafe(call[c]) /\ call[c].pc \in Stepping
    BY <1>1 DEF SessionInv, CallsSafe, WriteSession, At, Stepping
  <2> QED
    BY <1>1, <2>1 DEF CallSafe, BaseIsFile, FreshSession, Fresh, Exists
<1>2. SessionInv /\ [Next]_vars =>
         [\A c \in Calls :
             WriteSession(c) /\ call[c].session \notin swept
                 => md[call[c].session] \in {NoFile, call[c].base}]_vars
  BY <1>1
<1> QED
  BY <1>2, Inductive, PTL DEF Spec, RevisionOnce

-----------------------------------------------------------------------------
(* Who waits for whom: what Answered owes to the locks and not to fairness. *)

\* A call has the event loop of its server, unless it awaits the model.
LoopTaken ==
    /\ \A c \in Calls : loop[c[1]] = c <=> call[c].pc \notin {"idle", "await"}
    /\ \A v \in Servers : loop[v] # None => loop[v][1] = v

\* Neither lock nor event loop is in the way of the call's next step.
CanGo(c) ==
    /\ ~At(c, "idle")
    /\ At(c, "lock") => ~\E d \in Calls : Holds(d) /\ SameLock(c, d)
    /\ At(c, "await") => loop[c[1]] = None

\* The event loop is taken and given back by the call that begins, awaits or ends.
LEMMA LoopMoves ==
  ASSUME TypeOK, LoopTaken, NEW c \in Calls, NEW k \in CallRecord,
         call' = [call EXCEPT ![c] = k],
         \/ loop' = loop /\ (k.pc \in {"idle", "await"} <=> call[c].pc \in {"idle", "await"})
         \/ /\ loop' = [loop EXCEPT ![c[1]] = None]
            /\ call[c].pc \notin {"idle", "await"} /\ k.pc \in {"idle", "await"}
         \/ /\ loop[c[1]] = None /\ loop' = [loop EXCEPT ![c[1]] = c]
            /\ k.pc \notin {"idle", "await"}
  PROVE  LoopTaken'
<1> USE NoneAssumption
<1>1. /\ call'[c] = k
      /\ \A d \in Calls : d # c => call'[d] = call[d]
  BY OneCall
<1>2. /\ loop \in [Servers -> Calls \cup {None}]
      /\ \A d \in Calls : d[1] \in Servers
  BY DEF TypeOK, Calls
<1>3. CASE loop' = loop /\ (k.pc \in {"idle", "await"} <=> call[c].pc \in {"idle", "await"})
  BY <1>1, <1>3 DEF LoopTaken
<1>4. CASE /\ loop' = [loop EXCEPT ![c[1]] = None]
           /\ call[c].pc \notin {"idle", "await"} /\ k.pc \in {"idle", "await"}
  <2>1. loop[c[1]] = c
    BY <1>4 DEF LoopTaken
  <2>2. ASSUME NEW d \in Calls PROVE loop'[d[1]] = d <=> call'[d].pc \notin {"idle", "await"}
    <3>1. CASE d = c
      BY <1>1, <1>2, <1>4, <3>1
    <3>2. CASE d # c
      BY <1>1, <1>2, <1>4, <2>1, <3>2 DEF LoopTaken
    <3> QED
      BY <3>1, <3>2
  <2>3. \A v \in Servers : loop'[v] # None => loop'[v][1] = v
    BY <1>2, <1>4 DEF LoopTaken
  <2> QED
    BY <2>2, <2>3 DEF LoopTaken
<1>5. CASE /\ loop[c[1]] = None /\ loop' = [loop EXCEPT ![c[1]] = c]
           /\ k.pc \notin {"idle", "await"}
  <2>1. ASSUME NEW d \in Calls PROVE loop'[d[1]] = d <=> call'[d].pc \notin {"idle", "await"}
    <3>1. CASE d = c
      BY <1>1, <1>2, <1>5, <3>1
    <3>2. CASE d # c
      BY <1>1, <1>2, <1>5, <3>2 DEF LoopTaken
    <3> QED
      BY <3>1, <3>2
  <2>2. \A v \in Servers : loop'[v] # None => loop'[v][1] = v
    BY <1>2, <1>5 DEF LoopTaken
  <2> QED
    BY <2>1, <2>2 DEF LoopTaken
<1> QED
  BY <1>3, <1>4, <1>5

\* A step within a call keeps the event loop.
LEMMA LoopKept ==
  ASSUME TypeOK, LoopTaken, NEW c \in Calls, NEW k \in CallRecord,
         call' = [call EXCEPT ![c] = k], UNCHANGED loop,
         call[c].pc \notin {"idle", "await"}, k.pc \notin {"idle", "await"}
  PROVE  LoopTaken'
  BY LoopMoves

\* A call that is answered gives the event loop back.
LEMMA LoopReturned ==
  ASSUME TypeOK, LoopTaken, NEW c \in Calls, Answer(c), call[c].pc \notin {"idle", "await"}
  PROVE  LoopTaken'
  BY RestTyped, LoopMoves DEF Answer

\* A step of a call, one action after the other.
LEMMA CallStepTakes ==
  ASSUME TypeInv, LoopTaken, NEW c \in Calls,
         BeginCall(c) \/ Lock(c) \/ Resume(c) \/ Proceed(c)
  PROVE  LoopTaken'
<1>1. /\ call[c] \in CallRecord /\ CallTypeInv(call[c]) /\ TypeOK
      /\ begun \subseteq Sessions
  BY DEF TypeInv, TypeOK
<1>2. ASSUME NEW pc \in {"read", "await", "scored", "write", "draft", "fill", "replace"}
      PROVE  /\ [call[c] EXCEPT !.pc = pc] \in CallRecord
             /\ [call[c] EXCEPT !.pc = pc].pc = pc
  BY <1>1 DEF CallRecord
<1>3. ASSUME NEW pc \in {"read", "write", "draft", "fill", "replace"}, Step(c, pc),
             call[c].pc \notin {"idle", "await"}
      PROVE  LoopTaken'
  BY <1>1, <1>2, <1>3, LoopKept DEF Step
<1>4. CASE BeginCall(c)
  <2>1. ASSUME NEW k \in CallRecord, Begin(c, k), k.pc \in {"open", "step"} PROVE LoopTaken'
    BY <1>1, <2>1, LoopMoves DEF Begin
  <2>2. ASSUME NEW s \in Sessions, Begin(c, [AtRest EXCEPT !.pc = "step", !.session = s])
        PROVE  LoopTaken'
    <3>1. /\ [AtRest EXCEPT !.pc = "step", !.session = s] \in CallRecord
          /\ [AtRest EXCEPT !.pc = "step", !.session = s].pc = "step"
      BY RestTyped DEF CallRecord
    <3> QED
      BY <2>1, <2>2, <3>1
  <2>3. ASSUME NEW s \in begun, NEW r \in 1 .. MaxRounds,
               Begin(c, [AtRest EXCEPT !.pc = "open", !.session = s, !.expected = r])
        PROVE  LoopTaken'
    <3>1. s \in Sessions /\ r \in 0 .. MaxRounds
      BY <1>1
    <3>2. /\ [AtRest EXCEPT !.pc = "open", !.session = s, !.expected = r] \in CallRecord
          /\ [AtRest EXCEPT !.pc = "open", !.session = s, !.expected = r].pc = "open"
      BY <3>1, RestTyped DEF CallRecord
    <3> QED
      BY <2>1, <2>3, <3>2
  <2>4. ASSUME NEW s \in begun,
               Begin(c, [AtRest EXCEPT !.pc = "open", !.session = s, !.cancels = TRUE])
        PROVE  LoopTaken'
    <3>1. /\ [AtRest EXCEPT !.pc = "open", !.session = s, !.cancels = TRUE] \in CallRecord
          /\ [AtRest EXCEPT !.pc = "open", !.session = s, !.cancels = TRUE].pc = "open"
      BY <1>1, RestTyped DEF CallRecord
    <3> QED
      BY <2>1, <2>4, <3>1
  <2> QED
    BY <1>4, <2>2, <2>3, <2>4 DEF BeginCall, BeginNew, BeginContinue, BeginCancel
<1>5. CASE OpenLock(c)
  <2> DEFINE s == call[c].session
             g == IF lockfile[s] = 0 THEN made[s] + 1 ELSE lockfile[s]
             k == [call[c] EXCEPT !.pc = "lock", !.generation = g]
  <2>1. s \in Sessions
    BY <1>1, <1>5 DEF OpenLock, At, CallTypeInv
  <2>2. g \in 0 .. MaxLocks
    BY <1>1, <2>1 DEF TypeInv, TypeOK
  <2>3. call' = [call EXCEPT ![c] = k] /\ loop' = loop /\ call[c].pc = "open"
    BY <1>5 DEF OpenLock, At
  <2> HIDE DEF g
  <2>4. k \in CallRecord /\ k.pc = "lock"
    BY <1>1, <2>2 DEF CallRecord
  <2> HIDE DEF k
  <2> QED
    BY <1>1, <2>3, <2>4, LoopKept
<1>6. CASE ReadSession(c)
  <2> DEFINE k == [call[c] EXCEPT !.pc = "step", !.base = md[call[c].session]]
  <2>1. md[call[c].session] \in File
    BY <1>1, <1>6 DEF ReadSession, At, CallTypeInv, TypeOK
  <2>2. call' = [call EXCEPT ![c] = k] /\ loop' = loop /\ call[c].pc = "read"
    BY <1>6 DEF ReadSession, At
  <2>3. k \in CallRecord /\ k.pc = "step"
    BY <1>1, <2>1 DEF CallRecord
  <2> HIDE DEF k
  <2> QED
    BY <1>1, <2>2, <2>3, LoopKept
<1>7. CASE \/ Lock(c) \/ AskMissing(c) \/ AskWeak(c) \/ Complete(c)
           \/ OpenDraft(c) \/ WriteDraft(c)
  BY <1>3, <1>7 DEF Lock, AskMissing, AskWeak, Ask, Complete, OpenDraft, WriteDraft, At
<1>8. CASE Await(c)
  BY <1>1, <1>2, <1>8, LoopMoves DEF Await, At
<1>9. CASE Resume(c)
  BY <1>1, <1>2, <1>9, LoopMoves DEF Resume, At
<1>10. CASE \/ Cancel(c) \/ Refuse(c) \/ AnswerInvalid(c) \/ ModelUnavailable(c)
            \/ WriteSession(c) \/ ReplaceTasks(c) \/ DraftVanished(c)
  <2>1. Answer(c) /\ call[c].pc \notin {"idle", "await"}
    BY <1>10 DEF Cancel, Refuse, AnswerInvalid, ModelUnavailable, WriteSession,
                 ReplaceTasks, DraftVanished, Fail, At
  <2> QED
    BY <1>1, <2>1, LoopReturned
<1> QED
  BY <1>4, <1>5, <1>6, <1>7, <1>8, <1>9, <1>10 DEF Proceed

\* LoopTaken is inductive, with TypeInv.
LEMMA LoopStep ==
  ASSUME TypeInv, LoopTaken, [Next]_vars
  PROVE  LoopTaken'
<1>1. CASE UNCHANGED <<loop, call>>
  BY <1>1 DEF LoopTaken
<1>2. CASE \E c \in Calls : BeginCall(c) \/ Lock(c) \/ Resume(c) \/ Proceed(c)
  BY <1>2, CallStepTakes
<1>3. ASSUME NEW v \in Servers, Crash(v) PROVE LoopTaken'
  <2>1. /\ \A d \in Calls : call'[d] = IF d[1] = v THEN AtRest ELSE call[d]
        /\ loop' = [loop EXCEPT ![v] = None]
        /\ loop \in [Servers -> Calls \cup {None}]
        /\ \A d \in Calls : d[1] \in Servers
    BY <1>3 DEF Crash, TypeInv, TypeOK, Calls
  <2> QED
    BY <2>1, RestTyped, NoneAssumption DEF LoopTaken
<1>4. CASE (\E s \in Sessions : Expire(s)) \/ \E w \in Sweepers : Sweep(w)
  BY <1>1, <1>4 DEF Expire, Sweep, FindExpired, FindOrphan, RemoveSession, RemoveLock
<1> QED
  BY <1>1, <1>2, <1>3, <1>4 DEF Next, vars

\* One call at a time has the event loop of a server: the one that is running, which is
\* not awaiting the model.
THEOREM LoopCorrect == Spec => []LoopTaken
<1>1. Init => LoopTaken
  BY RestTyped, NoneAssumption DEF Init, LoopTaken, Calls
<1>2. TypeInv /\ LoopTaken /\ [Next]_vars => LoopTaken'
  BY LoopStep
<1> QED
  BY <1>1, <1>2, Inductive, PTL DEF Spec

\* Calls in flight among which are all those that one of them waits for.
Following(X) ==
    /\ X # {}
    /\ \A c \in X : ~At(c, "idle")
    /\ \A c \in X, d \in Calls : WaitsFor(c, d) => d \in X

\* The one circle there can be turns on a server that waits for a lock on behalf of one
\* call, while another one of it awaits the model.
Jammed(c, d) ==
    /\ c[1] = d[1]
    /\ At(c, "lock") /\ loop[c[1]] = c
    /\ At(d, "await")

\* Whose chain of waits one follows, it leads to a call that can go on, or through a
\* server in which one call stands at a lock with the event loop and another one awaits
\* the model.  So a server that has one call in flight at a time blocks nobody for good,
\* and no circle leaves out the event loop: flocks alone, of which a call takes one,
\* make none (server.py:301, 747).
THEOREM WaitsEnd ==
  Spec => [](\A X \in SUBSET Calls : Following(X) =>
                 \/ \E c \in X : CanGo(c)
                 \/ \E c, d \in X : Jammed(c, d))
<1>1. ASSUME TypeInv, LoopTaken, NEW X \in SUBSET Calls, Following(X),
             \A c \in X : ~CanGo(c)
      PROVE  \E c, d \in X : Jammed(c, d)
  <2>1. ASSUME NEW d \in X, At(d, "await")
        PROVE  \E c \in X : Jammed(c, d)
    <3>1. loop[d[1]] # None
      BY <1>1, <2>1 DEF CanGo, Following, At
    <3>2. PICK c \in Calls : loop[d[1]] = c
      BY <1>1, <3>1 DEF TypeInv, TypeOK, Calls
    <3>3. c \in X
      BY <1>1, <2>1, <3>2 DEF Following, WaitsFor
    <3>4. c[1] = d[1]
      BY <1>1, <2>1, <3>1, <3>2 DEF LoopTaken, Calls
    <3>5. ~At(c, "await")
      BY <1>1, <3>2, <3>4 DEF LoopTaken, At
    <3>6. At(c, "lock")
      BY <1>1, <3>3, <3>5 DEF CanGo, Following
    <3> QED
      BY <2>1, <3>2, <3>3, <3>4, <3>6 DEF Jammed
  <2>2. ASSUME NEW c \in X, ~At(c, "await")
        PROVE  \E d \in X : At(d, "await")
    <3>1. PICK d \in Calls : At(c, "lock") /\ Holds(d) /\ SameLock(c, d)
      BY <1>1, <2>2 DEF CanGo, Following
    <3>2. d \in X /\ ~At(d, "lock")
      BY <1>1, <3>1 DEF Following, WaitsFor, Holds
    <3> QED
      BY <1>1, <3>2 DEF CanGo, Following
  <2> QED
    BY <1>1, <2>1, <2>2 DEF Following
<1>2. TypeInv /\ LoopTaken =>
          \A X \in SUBSET Calls : Following(X) =>
              \/ \E c \in X : CanGo(c)
              \/ \E c, d \in X : Jammed(c, d)
  BY <1>1
<1> QED
  BY <1>2, Inductive, LoopCorrect, PTL

\* Whom Answered exempts waits for such a server.
THEOREM BlockedIsJammed ==
  Spec => [](\A c \in Calls : Blocked(c) => \E d, e \in Calls : Jammed(d, e))
<1>1. ASSUME TypeInv, LoopTaken, NEW c \in Calls, Blocked(c)
      PROVE  \E d, e \in Calls : Jammed(d, e)
  <2>1. PICK W \in SUBSET Calls : c \in W /\ \A x \in W : \E y \in W : WaitsFor(x, y)
    BY <1>1 DEF Blocked
  <2>2. ASSUME NEW x \in W, At(x, "await")
        PROVE  \E d \in W : Jammed(d, x)
    <3>1. PICK d \in W : loop[x[1]] = d
      BY <2>1, <2>2 DEF WaitsFor, At
    <3>2. d[1] = x[1]
      BY <1>1, <3>1, NoneAssumption DEF LoopTaken, Calls
    <3>3. ~At(d, "await")
      BY <1>1, <3>1, <3>2 DEF LoopTaken, At
    <3> QED
      BY <2>1, <2>2, <3>1, <3>2, <3>3 DEF WaitsFor, Jammed
  <2>3. ASSUME NEW x \in W, ~At(x, "await")
        PROVE  \E y \in W : At(y, "await")
    <3>1. PICK y \in W : Holds(y)
      BY <2>1, <2>3 DEF WaitsFor
    <3> QED
      BY <2>1, <3>1 DEF WaitsFor, Holds
  <2> QED
    BY <2>1, <2>2, <2>3
<1>2. TypeInv /\ LoopTaken =>
          \A c \in Calls : Blocked(c) => \E d, e \in Calls : Jammed(d, e)
  BY <1>1
<1> QED
  BY <1>2, Inductive, LoopCorrect, PTL
=============================================================================
