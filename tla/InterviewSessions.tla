-------------------------- MODULE InterviewSessions --------------------------
(***************************************************************************)
(* The interview tool of jibuff_mcp/server.py over the session files of    *)
(* .jibuff/mcp/interviews, with the steps of interview/engine.py.          *)
(*                                                                         *)
(* A server is one event loop.  A call of handle_interview occupies it     *)
(* from its start to its end, also while it waits for the session's flock, *)
(* except where engine.step awaits the answers of the language model.      *)
(* Other servers, `jb cleanup` and `jb recover` work on the same files at  *)
(* the same time.  An flock belongs to the file it was taken on: when the  *)
(* lock file is removed, the next call makes a new one, of the next        *)
(* generation, and locks that.                                             *)
(*                                                                         *)
(* What is asked and answered, and how it scores, is open: the model says  *)
(* "ask again" or "enough" as it likes, within max_interview_rounds.       *)
(***************************************************************************)
EXTENDS Naturals

CONSTANTS
    Servers,    \* MCP servers on the workspace
    Slots,      \* calls a server has in flight at most
    Sessions,   \* session ids
    None,       \* no session, no call
    MaxRounds,  \* max_interview_rounds
    Sweepers,   \* cleanups under way: in the servers, jb cleanup, jb recover
    Expiring,   \* the sessions that may outlive expires_at
    MaxLocks    \* bound on the lock files made for a session

ASSUME MaxRoundsAssumption == MaxRounds \in Nat \ {0}
ASSUME MaxLocksAssumption  == MaxLocks \in Nat \ {0}
ASSUME ExpiringAssumption  == Expiring \subseteq Sessions

Calls == Servers \X Slots

ASSUME NoneAssumption == None \notin Calls

VARIABLES
    md,         \* session files: revision and rounds
    expired,    \* the files that are past their expires_at
    lockfile,   \* generation of the lock file of each session, 0 if it has none
    made,       \* lock files made for each session
    loop,       \* the call each event loop is running
    call,       \* what each call is doing
    sweeper,    \* what each cleanup is doing
    draft,      \* spec/tasks.md.tmp, None if there is no such file
    tasks,      \* the file that is spec/tasks.md
    begun,      \* history: sessions a client was told of
    cancelled,  \* history: sessions whose cancellation was answered
    swept       \* history: sessions whose file a cleanup has removed

vars == <<md, expired, lockfile, made, loop, call, sweeper, draft, tasks, begun, cancelled,
          swept>>

NoFile == [revision |-> 0, rounds |-> 0]

AtRest == [pc |-> "idle", session |-> None, cancels |-> FALSE, expected |-> 0,
           generation |-> 0, base |-> NoFile]

Idle == [pc |-> "idle", session |-> None]

File == [revision : Nat, rounds : 0 .. MaxRounds]

CallRecord ==
    [pc         : {"idle", "open", "lock", "read", "step", "await", "scored",
                   "write", "draft", "fill", "replace"},
     session    : Sessions \cup {None},
     cancels    : BOOLEAN,
     expected   : 0 .. MaxRounds,
     generation : 0 .. MaxLocks,
     base       : File]

\* A file of tasks: whose they are, None of a truncated one, and who has it open.
Output == [of : Sessions \cup {None}, open : SUBSET Calls]

TypeOK ==
    /\ md \in [Sessions -> File]
    /\ expired \subseteq Sessions
    /\ lockfile \in [Sessions -> 0 .. MaxLocks]
    /\ made \in [Sessions -> 0 .. MaxLocks]
    /\ loop \in [Servers -> Calls \cup {None}]
    /\ call \in [Calls -> CallRecord]
    /\ sweeper \in [Sweepers -> [pc : {"idle", "session", "lock"}, session : Sessions \cup {None}]]
    /\ draft \in Output \cup {None}
    /\ tasks \in Output
    /\ {begun, cancelled, swept} \subseteq SUBSET Sessions

Init ==
    /\ md = [s \in Sessions |-> NoFile]
    /\ expired = {}
    /\ lockfile = [s \in Sessions |-> 0]
    /\ made = [s \in Sessions |-> 0]
    /\ loop = [v \in Servers |-> None]
    /\ call = [c \in Calls |-> AtRest]
    /\ sweeper = [w \in Sweepers |-> Idle]
    /\ draft = None
    /\ tasks = [of |-> None, open |-> {}]
    /\ begun = {}
    /\ cancelled = {}
    /\ swept = {}

locks    == <<lockfile, made>>
outputs  == <<draft, tasks>>
sessions == <<md, expired>>
history  == <<begun, cancelled, swept>>

At(c, pc) == call[c].pc = pc
Exists(s) == md[s] # NoFile

\* The rest of a segment of a call: its event loop runs nothing else.
Step(c, pc) ==
    /\ call' = [call EXCEPT ![c].pc = pc]
    /\ UNCHANGED loop

\* The call is answered: the lock is released and the loop is free.
Answer(c) ==
    /\ call' = [call EXCEPT ![c] = AtRest]
    /\ loop' = [loop EXCEPT ![c[1]] = None]

-----------------------------------------------------------------------------
(* The beginning of a call. *)

Begin(c, record) ==
    /\ At(c, "idle")
    /\ loop[c[1]] = None
    /\ loop' = [loop EXCEPT ![c[1]] = c]
    /\ call' = [call EXCEPT ![c] = record]
    /\ UNCHANGED <<sessions, locks, sweeper, outputs, cancelled, swept>>

\* A request without a session id takes a fresh one, and no lock: no client knows
\* the session before the first question is answered with its id.
BeginNew(c) ==
    \E s \in Sessions \ (begun \cup {call[d].session : d \in Calls}) :
        /\ Begin(c, [AtRest EXCEPT !.pc = "step", !.session = s])
        /\ UNCHANGED begun

\* An answer with the revision the client was told, perhaps some calls ago.
BeginContinue(c) ==
    \E s \in begun, r \in 1 .. MaxRounds :
        /\ Begin(c, [AtRest EXCEPT !.pc = "open", !.session = s, !.expected = r])
        /\ UNCHANGED begun

BeginCancel(c) ==
    \E s \in begun :
        /\ Begin(c, [AtRest EXCEPT !.pc = "open", !.session = s, !.cancels = TRUE])
        /\ UNCHANGED begun

-----------------------------------------------------------------------------
(* _session_lock. *)

\* open("w") makes the lock file if there is none.
OpenLock(c) ==
    LET s == call[c].session
        g == IF lockfile[s] = 0 THEN made[s] + 1 ELSE lockfile[s]
    IN
    /\ At(c, "open")
    /\ lockfile' = [lockfile EXCEPT ![s] = g]
    /\ made' = [made EXCEPT ![s] = IF lockfile[s] = 0 THEN g ELSE @]
    /\ call' = [call EXCEPT ![c] = [@ EXCEPT !.pc = "lock", !.generation = g]]
    /\ UNCHANGED <<sessions, loop, sweeper, outputs, history>>

Holds(c) == call[c].generation # 0 /\ ~At(c, "lock")

SameLock(c, d) == call[c].session = call[d].session /\ call[c].generation = call[d].generation

\* Faulty: the lock is shared.
LockShared(c) ==
    /\ At(c, "lock")
    /\ Step(c, "read")
    /\ UNCHANGED <<sessions, locks, sweeper, outputs, history>>

\* Until then the event loop stands still.
Lock(c) ==
    /\ At(c, "lock")
    /\ ~\E d \in Calls : Holds(d) /\ SameLock(c, d)
    /\ Step(c, "read")
    /\ UNCHANGED <<sessions, locks, sweeper, outputs, history>>

-----------------------------------------------------------------------------
(* handle_interview under the lock. *)

Cancel(c) ==
    LET s == call[c].session IN
    /\ At(c, "read")
    /\ call[c].cancels
    /\ md' = [md EXCEPT ![s] = NoFile]
    /\ expired' = expired \ {s}
    /\ cancelled' = cancelled \cup {s}
    /\ Answer(c)
    /\ UNCHANGED <<locks, sweeper, outputs, begun, swept>>

\* The call ends as it began: nothing was written.
Fail(c) ==
    /\ Answer(c)
    /\ UNCHANGED <<sessions, locks, sweeper, outputs, history>>

\* Faulty: nobody answers when the session is gone.
RefuseRevision(c) ==
    /\ At(c, "read")
    /\ ~call[c].cancels
    /\ Exists(call[c].session)
    /\ md[call[c].session].revision # call[c].expected
    /\ Fail(c)

\* The session is gone, or has another revision.
Refuse(c) ==
    /\ At(c, "read")
    /\ ~call[c].cancels
    /\ md[call[c].session].revision # call[c].expected
    /\ Fail(c)

ReadSession(c) ==
    /\ At(c, "read")
    /\ ~call[c].cancels
    /\ md[call[c].session].revision = call[c].expected
    /\ call' = [call EXCEPT ![c] = [@ EXCEPT !.pc = "step", !.base = md[call[c].session]]]
    /\ UNCHANGED <<sessions, locks, loop, sweeper, outputs, history>>

\* Faulty: rounds are not counted against max_interview_rounds.
MayAskAlways(c) == TRUE

\* Each mode has its max_interview_rounds.
MayAsk(c) == call[c].base.rounds < MaxRounds

\* One more question block is put to the client.
Ask(c) ==
    /\ MayAsk(c)
    /\ Step(c, "write")
    /\ UNCHANGED <<sessions, locks, sweeper, outputs, history>>

\* InterviewEngine.step: words are missing.
AskMissing(c) == At(c, "step") /\ Ask(c)

\* asyncio.gather: the event loop turns to other calls, the lock is kept.
Await(c) ==
    /\ At(c, "step")
    /\ call' = [call EXCEPT ![c].pc = "await"]
    /\ loop' = [loop EXCEPT ![c[1]] = None]
    /\ UNCHANGED <<sessions, locks, sweeper, outputs, history>>

Resume(c) ==
    /\ At(c, "await")
    /\ loop[c[1]] = None
    /\ call' = [call EXCEPT ![c].pc = "scored"]
    /\ loop' = [loop EXCEPT ![c[1]] = c]
    /\ UNCHANGED <<sessions, locks, sweeper, outputs, history>>

\* A gate is not passed.
AskWeak(c) == At(c, "scored") /\ Ask(c)

\* The client's answer is none of the choices.
AnswerInvalid(c) == At(c, "step") /\ call[c].expected # 0 /\ Fail(c)

\* The language model cannot be asked.
ModelUnavailable(c) == call[c].pc \in {"step", "scored"} /\ Fail(c)

\* _state_from_session after a step that asked.
NextState(base) == [revision |-> base.revision + 1, rounds |-> base.rounds + 1]

\* The state after the step, good for another 24 hours.
WriteSession(c) ==
    LET s == call[c].session IN
    /\ At(c, "write")
    /\ md' = [md EXCEPT ![s] = NextState(call[c].base)]
    /\ expired' = expired \ {s}
    /\ begun' = begun \cup {s}
    /\ Answer(c)
    /\ UNCHANGED <<locks, sweeper, outputs, cancelled, swept>>

\* The interview is complete, because the gates are passed or rounds have run out:
\* the session goes first.
Complete(c) ==
    LET s == call[c].session IN
    /\ At(c, "scored")
    /\ md' = [md EXCEPT ![s] = NoFile]
    /\ expired' = expired \ {s}
    /\ Step(c, "draft")
    /\ UNCHANGED <<locks, sweeper, outputs, history>>

\* _atomic_write_text(spec/tasks.md): the temporary file has one name for all.  open("w")
\* truncates it, or makes it.
OpenDraft(c) ==
    /\ At(c, "draft")
    /\ draft' = [of |-> None, open |-> {c} \cup (IF draft = None THEN {} ELSE draft.open)]
    /\ Step(c, "fill")
    /\ UNCHANGED <<sessions, locks, sweeper, tasks, history>>

Filled(file, c) ==
    IF file # None /\ c \in file.open
    THEN [of |-> call[c].session, open |-> file.open \ {c}]
    ELSE file

\* What is written goes to the file that was opened, where someone else may have moved it.
WriteDraft(c) ==
    /\ At(c, "fill")
    /\ draft' = Filled(draft, c)
    /\ tasks' = Filled(tasks, c)
    /\ Step(c, "replace")
    /\ UNCHANGED <<sessions, locks, sweeper, history>>

ReplaceTasks(c) ==
    /\ At(c, "replace")
    /\ draft # None
    /\ tasks' = draft
    /\ draft' = None
    /\ begun' = begun \cup {call[c].session}
    /\ Answer(c)
    /\ UNCHANGED <<sessions, locks, sweeper, cancelled, swept>>

\* FileNotFoundError: someone else has moved the file.
DraftVanished(c) == At(c, "replace") /\ draft = None /\ Fail(c)

-----------------------------------------------------------------------------
(* Time, cleanup and death. *)

Expire(s) ==
    /\ s \in Expiring
    /\ Exists(s)
    /\ expired' = expired \cup {s}
    /\ UNCHANGED <<md, locks, loop, call, sweeper, outputs, history>>

\* _cleanup_expired_interview_sessions and cleanup_interview_sessions look at a
\* file first and remove it then, and take no lock.  A call sweeps before it does anything
\* else; where a file vanishes between the look and the read, it ends there with an error
\* (server.py:352, 670), before it has an id or a lock and with nothing changed.
FindExpired(w, s) ==
    /\ sweeper[w] = Idle
    /\ Exists(s) /\ s \in expired
    /\ sweeper' = [sweeper EXCEPT ![w] = [pc |-> "session", session |-> s]]
    /\ UNCHANGED <<sessions, locks, loop, call, outputs, history>>

RemoveSession(w) ==
    LET s == sweeper[w].session IN
    /\ sweeper[w].pc = "session"
    /\ md' = [md EXCEPT ![s] = NoFile]
    /\ expired' = expired \ {s}
    /\ swept' = IF Exists(s) THEN swept \cup {s} ELSE swept
    /\ sweeper' = [sweeper EXCEPT ![w] = Idle]
    /\ UNCHANGED <<locks, loop, call, outputs, begun, cancelled>>

FindOrphan(w, s) ==
    /\ sweeper[w] = Idle
    /\ ~Exists(s) /\ lockfile[s] # 0
    /\ sweeper' = [sweeper EXCEPT ![w] = [pc |-> "lock", session |-> s]]
    /\ UNCHANGED <<sessions, locks, loop, call, outputs, history>>

RemoveLock(w) ==
    /\ sweeper[w].pc = "lock"
    /\ made[sweeper[w].session] < MaxLocks      \* bound: OpenLock can make another
    /\ lockfile' = [lockfile EXCEPT ![sweeper[w].session] = 0]
    /\ sweeper' = [sweeper EXCEPT ![w] = Idle]
    /\ UNCHANGED <<sessions, made, loop, call, outputs, history>>

Closed(file, v) == [file EXCEPT !.open = {c \in @ : c[1] # v}]

\* _watch_parent, or kill -9: all calls of the server die with it.
Crash(v) ==
    /\ \E c \in {v} \X Slots : call[c] # AtRest
    /\ call' = [c \in Calls |-> IF c[1] = v THEN AtRest ELSE call[c]]
    /\ loop' = [loop EXCEPT ![v] = None]
    /\ draft' = IF draft = None THEN None ELSE Closed(draft, v)
    /\ tasks' = Closed(tasks, v)
    /\ UNCHANGED <<sessions, locks, sweeper, history>>

-----------------------------------------------------------------------------
BeginCall(c) == BeginNew(c) \/ BeginContinue(c) \/ BeginCancel(c)

Proceed(c) == \/ OpenLock(c)
              \/ Cancel(c) \/ Refuse(c) \/ ReadSession(c)
              \/ AskMissing(c) \/ Await(c) \/ AskWeak(c)
              \/ AnswerInvalid(c) \/ ModelUnavailable(c)
              \/ WriteSession(c) \/ Complete(c)
              \/ OpenDraft(c) \/ WriteDraft(c) \/ ReplaceTasks(c) \/ DraftVanished(c)

Sweep(w) == \/ \E s \in Sessions : FindExpired(w, s) \/ FindOrphan(w, s)
            \/ RemoveSession(w) \/ RemoveLock(w)

Next == \/ \E c \in Calls : BeginCall(c) \/ Lock(c) \/ Resume(c) \/ Proceed(c)
        \/ \E s \in Sessions : Expire(s)
        \/ \E w \in Sweepers : Sweep(w)
        \/ \E v \in Servers : Crash(v)

Spec == Init /\ [][Next]_vars

\* A running call goes on, the language model answers or fails, flock and event
\* loop serve whoever waits for them.  No one has to call, to clean up or to die.
FairSpec == /\ Spec
            /\ \A c \in Calls : WF_vars(Proceed(c)) /\ SF_vars(Lock(c)) /\ SF_vars(Resume(c))

-----------------------------------------------------------------------------
(* Properties. *)

\* Each revision of a session is followed by one other: a call never writes over
\* a session that another call has moved on since it was read, although the lock
\* it holds is on a file that cleanups remove.  Only a session that a cleanup has
\* removed may fork, because calls that were in the middle of a step write it again.
RevisionOnce ==
    [][\A c \in Calls :
          WriteSession(c) /\ call[c].session \notin swept
              => md[call[c].session] \in {NoFile, call[c].base}]_vars

\* A session whose cancellation was answered does not come back, whatever call
\* was in the middle of a step then, and whatever time has passed.
CancelledStaysGone == \A s \in cancelled \ swept : ~Exists(s)

\* The same without the exception: a revision has one successor (server.py:352).
\* Refuted: a session may expire in the middle of a step.
SuccessorIsUnique ==
    [][\A c \in Calls :
          WriteSession(c) => md[call[c].session] \in {NoFile, call[c].base}]_vars

\* Whose interview is answered as complete finds its own tasks in spec/tasks.md.
\* Refuted: two calls write one temporary file, and the first to be done moves it.
CompleteIsWritten ==
    [][\A c \in Calls : ReplaceTasks(c) => tasks'.of = call[c].session]_vars

\* Who has to go on before c can: the call that holds its session's lock, or the one that
\* has the event loop to which the model's answer for c comes back.
WaitsFor(c, d) ==
    \/ At(c, "lock") /\ Holds(d) /\ SameLock(c, d)
    \/ At(c, "await") /\ loop[c[1]] = d

\* Following those whom c waits for never leads to a call that can go on.
Blocked(c) ==
    \E W \in SUBSET Calls : c \in W /\ \A d \in W : \E e \in W : WaitsFor(d, e)

\* A call is answered, or its server dies, or it waits for good for calls that wait for
\* each other in a circle.  There are such circles: a call that waits for the lock of a
\* session stops the event loop (server.py:301), and so its holder too, if that awaits
\* the model in the same server (server.py:747).  Nothing else keeps a call from its answer.
Answered == \A c \in Calls : []<>At(c, "idle") \/ <>[]Blocked(c)

\* Every call is answered, or its server dies.  Refuted: by the circles.
AlwaysAnswered == \A c \in Calls : []<>At(c, "idle")
=============================================================================
