-------------------------- MODULE PlansSetupProofs --------------------------
(***************************************************************************)
(* Theorems about two components that have no part in common: Plans, plans *)
(* that are replaced while sessions work, for any loops and sessions, ids  *)
(* and bounds; and, from the middle on, Setup, the registration in Claude  *)
(* Code, for any calls, places of jb and keys.                             *)
(***************************************************************************)
EXTENDS Plans, Setup, SequenceTheorems, TLAPS

-----------------------------------------------------------------------------
(* Plans: the inductive invariant behind its properties, part by part. *)

\* What the mirror, a snapshot and the files of a run are: tasks by their ids.
Tables == UNION {[S -> TaskRecord] : S \in SUBSET Ids}

SessionState == [open : BOOLEAN, plan : 1 .. MaxPlans, run : Nat, queue : Tables]

\* TypeOK, with the types of the whole sequences and functions.
PlansType   == plans \in Seq(SUBSET Ids) /\ Plan \in 1 .. MaxPlans
StoreType   == /\ store \in Seq(Tables) /\ Len(store) <= MaxRuns
               /\ active \in 0 .. Len(store)
               /\ born \in Seq(1 .. MaxPlans) /\ Len(born) = Len(store)
               /\ \A r \in 1 .. Len(born) : born[r] <= Plan
SessionType == /\ session \in [Sessions -> SessionState]
               /\ \A s \in Sessions : session[s].plan <= Plan /\ Run(s) <= Len(store)
GivenType   == /\ given \in Seq(1 .. MaxPlans) /\ Issued <= MaxTokens
               /\ \A k \in 1 .. Issued : given[k] <= Plan
               /\ held \subseteq Ids \X (1 .. Issued)
               /\ earned \subseteq (1 .. MaxPlans) \X Ids

Types ==
    /\ PlansType /\ StoreType /\ SessionType /\ GivenType
    /\ mirror \in Tables
    /\ calm \in BOOLEAN

\* A snapshot lists tasks of its plan, the mirror those of some plan, and a claim is for
\* a task of the plan that it was given out for.
MirrorKnown == \A t \in DOMAIN mirror : \E p \in 1 .. Plan : t \in plans[p]
QueuesKnown == \A s \in Sessions : DOMAIN Queue(s) \subseteq plans[session[s].plan]
ClaimsKnown == \A h \in held : h[1] \in plans[given[h[2]]]

KnownTasks == MirrorKnown /\ QueuesKnown /\ ClaimsKnown

\* FreshIdIsEarned, also of what a snapshot may still write to the mirror.
IsFresh(t) == t \in Current /\ \A p \in 1 .. Plan - 1 : t \notin plans[p]

EarnedIn(q) ==
    \A t \in DOMAIN q : IsFresh(t) /\ q[t].status = "done" => <<Plan, t>> \in earned

AllEarned == EarnedIn(mirror) /\ \A s \in Sessions : EarnedIn(Queue(s))

\* Nobody holds what is to do.
TodoUnclaimed(q) == \A t \in DOMAIN q : q[t].status = "todo" => q[t].claim_token = NoToken

Unheld == TodoUnclaimed(mirror) /\ \A s \in Sessions : TodoUnclaimed(Queue(s))

ClosedIsEmpty == \A s \in Sessions : ~Open(s) => session[s] = Closed

\* In calm there is one snapshot at most, it is what a new one would be, and its run
\* is the active one.  The files of a run of the present plan say the same.
OneAtATime == calm => \A r, s \in Sessions : Open(r) /\ Open(s) => r = s

SnapshotIsCurrent ==
    calm => \A s \in Sessions : Open(s) =>
        /\ session[s].plan = Plan
        /\ Queue(s) = Load
        /\ active # 0 /\ Run(s) # 0 => active = Run(s)

FilesAgree == calm /\ active # 0 /\ born[active] = Plan => store[active] = Load

CalmInv == OneAtATime /\ SnapshotIsCurrent /\ FilesAgree

PlansInv == KnownTasks /\ AllEarned /\ Unheld /\ ClosedIsEmpty /\ CalmInv

-----------------------------------------------------------------------------
(* Lemmas about records and tables. *)

\* The worker id of the sessions is one of the clients.
LEMMA AgentType == Agent \in Clients
BY ClientsAssumption DEF Agent

\* A claim moves a task of the right type to one.
LEMMA ClaimedType ==
  ASSUME NEW f \in TaskRecord, NEW token \in Nat
  PROVE  /\ Claimed(f, Agent, token, 0) \in TaskRecord
         /\ Claimed(f, Agent, token, 0).status = "in_progress"
BY AgentType DEF Claimed, TaskRecord, Statuses

\* So does the end of a claim, after which nobody holds the task.
LEMMA ReleasedType ==
  ASSUME NEW f \in TaskRecord, NEW status \in Statuses
  PROVE  /\ Released(f, status) \in TaskRecord
         /\ Released(f, status).status = status
         /\ Released(f, status).claim_token = NoToken
BY DEF Released, TaskRecord, Never, NoToken

\* A new task is well typed and nobody's.
LEMMA UnclaimedType ==
  /\ Unclaimed("todo") \in TaskRecord
  /\ Unclaimed("todo").status = "todo"
  /\ Unclaimed("todo").claim_token = NoToken
BY DEF Unclaimed, TaskRecord, Statuses, Never, NoToken

\* A table is a function from ids to records, and every such function is one.
LEMMA TableIsFunction ==
  ASSUME NEW q \in Tables
  PROVE  DOMAIN q \in SUBSET Ids /\ q \in [DOMAIN q -> TaskRecord]
BY DEF Tables

LEMMA FunctionIsTable ==
  ASSUME NEW S \in SUBSET Ids, NEW q \in [S -> TaskRecord]
  PROVE  q \in Tables
BY DEF Tables

\* Ranges of what is in the sequences, the claims and the sessions.
LEMMA Ranges ==
  ASSUME Types
  PROVE  /\ Plan \in Nat \ {0} /\ Len(store) \in Nat /\ Issued \in Nat
         /\ \A p \in 1 .. Plan : plans[p] \in SUBSET Ids
         /\ \A r \in 1 .. Len(store) : store[r] \in Tables /\ born[r] \in 1 .. Plan
         /\ \A k \in 1 .. Issued : given[k] \in 1 .. Plan
         /\ \A h \in held : h[1] \in Ids /\ h[2] \in 1 .. Issued
         /\ \A s \in Sessions : /\ session[s].plan \in 1 .. Plan
                              /\ Run(s) \in 0 .. Len(store)
                              /\ Queue(s) \in Tables
                              /\ Open(s) \in BOOLEAN
<1>1. Plan \in Nat \ {0} /\ Len(store) \in Nat /\ Issued \in Nat
  BY BoundsAssumption DEF Types, PlansType, StoreType, GivenType, Issued
<1>2. \A p \in 1 .. Plan : plans[p] \in SUBSET Ids
  BY ElementOfSeq DEF Types, PlansType, Plan
<1>3. \A r \in 1 .. Len(store) : store[r] \in Tables
  BY ElementOfSeq DEF Types, StoreType
<1>4. \A r \in 1 .. Len(store) : born[r] \in 1 .. Plan
  <2>1. \A r \in 1 .. Len(store) : born[r] \in 1 .. MaxPlans
    BY ElementOfSeq DEF Types, StoreType
  <2> QED
    BY <1>1, <2>1, BoundsAssumption DEF Types, StoreType
<1>5. \A k \in 1 .. Issued : given[k] \in 1 .. Plan
  <2>1. \A k \in 1 .. Issued : given[k] \in 1 .. MaxPlans
    BY ElementOfSeq DEF Types, GivenType, Issued
  <2> QED
    BY <1>1, <2>1, BoundsAssumption DEF Types, GivenType
<1>6. \A h \in held : h[1] \in Ids /\ h[2] \in 1 .. Issued
  BY DEF Types, GivenType
<1>7. \A s \in Sessions : /\ session[s].plan \in 1 .. Plan /\ Run(s) \in 0 .. Len(store)
                         /\ Queue(s) \in Tables /\ Open(s) \in BOOLEAN
  BY <1>1, BoundsAssumption DEF Types, SessionType, SessionState, Run, Queue, Open
<1> QED
  BY <1>1, <1>2, <1>3, <1>4, <1>5, <1>6, <1>7

\* Closed is a state of a session.
LEMMA ClosedType ==
  /\ Closed \in SessionState
  /\ Closed.open = FALSE /\ Closed.run = 0 /\ Closed.plan = 1 /\ DOMAIN Closed.queue = {}
<1>1. Closed.queue \in Tables /\ DOMAIN Closed.queue = {}
  <2> DEFINE none == [t \in {} |-> Unclaimed("todo")]
  <2>1. none \in [{} -> TaskRecord] /\ Closed.queue = none
    BY DEF Closed
  <2> QED
    BY <2>1, FunctionIsTable, {} \in SUBSET Ids
<1> QED
  BY <1>1, BoundsAssumption DEF Closed, SessionState

\* What Load reads is a table of the tasks of the present plan.
LEMMA LoadType ==
  ASSUME PlansType, mirror \in Tables
  PROVE  /\ Current \in SUBSET Ids
         /\ Load \in [Current -> TaskRecord]
         /\ Load \in Tables
         /\ \A t \in Current : Load[t] = IF t \in DOMAIN mirror THEN mirror[t]
                                         ELSE Unclaimed("todo")
<1>1. Current \in SUBSET Ids
  BY ElementOfSeq DEF PlansType, Current, Plan
<1>2. Load \in [Current -> TaskRecord]
  BY TableIsFunction, UnclaimedType DEF Load
<1> QED
  BY <1>1, <1>2, FunctionIsTable DEF Load

\* A mirror that lists the tasks of the plan is read as it is.
LEMMA LoadOfCurrent ==
  ASSUME mirror \in [Current -> TaskRecord]
  PROVE  Load = mirror
BY DEF Load

\* A snapshot that Load reads is earned and unheld where the mirror is.
LEMMA LoadKeeps ==
  ASSUME Types, EarnedIn(mirror), TodoUnclaimed(mirror)
  PROVE  EarnedIn(Load) /\ TodoUnclaimed(Load)
<1>1. DOMAIN Load = Current
  BY LoadType DEF Types
<1>2. \A t \in Current : Load[t] = IF t \in DOMAIN mirror THEN mirror[t]
                                   ELSE Unclaimed("todo")
  BY LoadType DEF Types
<1>3. EarnedIn(Load)
  BY <1>1, <1>2, UnclaimedType DEF EarnedIn
<1>4. TodoUnclaimed(Load)
  BY <1>1, <1>2, UnclaimedType DEF TodoUnclaimed
<1> QED
  BY <1>3, <1>4

-----------------------------------------------------------------------------
(* The first state. *)

\* There is a plan, and nothing was done with it yet.
LEMMA InitInv == Init => Types /\ PlansInv
<1> SUFFICES ASSUME Init PROVE Types /\ PlansInv
  OBVIOUS
<1>1. PlansType /\ Plan = 1
  BY BoundsAssumption DEF Init, PlansType, Plan
<1>2. StoreType /\ active = 0
  BY BoundsAssumption DEF Init, StoreType
<1>3. SessionType /\ \A s \in Sessions : session[s] = Closed
  <2>1. session \in [Sessions -> SessionState] /\ \A s \in Sessions : session[s] = Closed
    BY ClosedType DEF Init
  <2>2. store = <<>> /\ Len(store) = 0
    BY DEF Init
  <2> QED
    BY ClosedType, <1>1, <2>1, <2>2 DEF SessionType, Run
<1>4. GivenType
  BY BoundsAssumption DEF Init, GivenType, Issued
<1>5. mirror = Closed.queue /\ mirror \in Tables /\ calm \in BOOLEAN /\ held = {}
  BY ClosedType DEF Init, SessionState
<1>6. Types
  BY ClosedType, <1>1, <1>2, <1>3, <1>4, <1>5 DEF Types
<1>7. KnownTasks
  BY ClosedType, <1>3, <1>5 DEF KnownTasks, MirrorKnown, QueuesKnown, ClaimsKnown, Queue
<1>8. AllEarned /\ Unheld
  BY ClosedType, <1>3, <1>5 DEF AllEarned, EarnedIn, Unheld, TodoUnclaimed, Queue
<1>9. ClosedIsEmpty /\ CalmInv
  BY ClosedType, <1>2, <1>3
  DEF ClosedIsEmpty, CalmInv, OneAtATime, SnapshotIsCurrent, FilesAgree, Open
<1> QED
  BY <1>6, <1>7, <1>8, <1>9 DEF PlansInv

-----------------------------------------------------------------------------
(* Steps of the interview and of sessions without a claim. *)

\* An interview replaces the plan: what is fresh in the new one is in no table yet.
LEMMA ReplacePlanKeeps ==
  ASSUME Types, PlansInv, ReplacePlan, calm' = (calm /\ Quiet)
  PROVE  Types' /\ PlansInv'
<1> PICK ids \in SUBSET Ids : plans' = Append(plans, ids)
  BY DEF ReplacePlan
<1> USE DEF ReplacePlan, history
<1>1. PlansType /\ plans \in Seq(SUBSET Ids) /\ Plan \in Nat \ {0} /\ Plan < MaxPlans
  BY Ranges DEF Types, PlansType
<1>2. /\ plans' \in Seq(SUBSET Ids) /\ Plan' = Plan + 1
      /\ \A p \in 1 .. Plan : plans'[p] = plans[p]
  BY <1>1, AppendProperties DEF Plan
<1>3. PlansType'
  BY <1>1, <1>2, BoundsAssumption DEF PlansType
<1>4. StoreType'
  <2>1. /\ store' = store /\ born' = born /\ active' = active
        /\ \A r \in 1 .. Len(born) : born[r] <= Plan + 1
    BY <1>1, Ranges DEF Types, StoreType
  <2> QED
    BY <1>2, <2>1 DEF Types, StoreType
<1>5. SessionType'
  BY <1>1, <1>2, Ranges DEF Types, SessionType, SessionState, Run
<1>6. GivenType'
  <2>1. /\ given' = given /\ held' = held /\ earned' = earned
        /\ \A k \in 1 .. Issued : given[k] <= Plan + 1
    BY <1>1, Ranges
  <2> QED
    BY <1>2, <2>1 DEF Types, GivenType, Issued
<1>7. Types'
  BY <1>3, <1>4, <1>5, <1>6 DEF Types
<1>8. MirrorKnown' /\ QueuesKnown' /\ ClaimsKnown'
  <2>1. MirrorKnown'
    <3>1. \A p \in 1 .. Plan : p \in 1 .. Plan'
      BY <1>1, <1>2
    <3> QED
      BY <1>2, <3>1 DEF PlansInv, KnownTasks, MirrorKnown
  <2>2. QueuesKnown'
    BY <1>2, Ranges DEF PlansInv, KnownTasks, QueuesKnown, Queue
  <2>3. ClaimsKnown'
    BY <1>2, Ranges DEF PlansInv, KnownTasks, ClaimsKnown
  <2> QED
    BY <2>1, <2>2, <2>3
<1>9. AllEarned'
  <2>1. \A t, p : IsFresh(t)' /\ p \in 1 .. Plan => t \notin plans[p]
    <3>1. \A p \in 1 .. Plan : p \in 1 .. Plan' - 1
      BY <1>1, <1>2
    <3> QED
      BY <1>2, <3>1 DEF IsFresh
  <2>2. EarnedIn(mirror)'
    BY <2>1 DEF EarnedIn, PlansInv, KnownTasks, MirrorKnown
  <2>3. \A s \in Sessions : EarnedIn(Queue(s))'
    BY <2>1, Ranges DEF EarnedIn, PlansInv, KnownTasks, QueuesKnown, Queue
  <2> QED
    BY <2>2, <2>3 DEF AllEarned
<1>10. Unheld' /\ ClosedIsEmpty'
  BY DEF PlansInv, Unheld, TodoUnclaimed, ClosedIsEmpty, Queue, Open
<1>11. CalmInv'
  <2>1. calm' => \A s \in Sessions : ~Open(s)'
    BY DEF Quiet, Open
  <2>2. active # 0 => born[active] <= Plan /\ born[active] \in Nat
    BY Ranges DEF Types, StoreType
  <2>3. FilesAgree'
    BY <1>1, <1>2, <2>2 DEF FilesAgree
  <2> QED
    BY <2>1, <2>3 DEF CalmInv, OneAtATime, SnapshotIsCurrent
<1> QED
  BY <1>7, <1>8, <1>9, <1>10, <1>11 DEF PlansInv, KnownTasks

\* A step of a session that writes neither the plan nor the mirror keeps what is known
\* of the tables and of the tasks of the other sessions.
LEMMA SnapshotsKeep ==
  ASSUME Types, PlansInv, UNCHANGED <<plans, mirror, earned>>,
         \A s \in Sessions :
             \/ Queue(s)' = Queue(s) /\ session'[s].plan = session[s].plan
             \/ Queue(s)' = Load /\ session'[s].plan = Plan
             \/ Queue(s)' = Closed.queue
  PROVE  MirrorKnown' /\ QueuesKnown' /\ AllEarned' /\ Unheld'
<1>1. DOMAIN Load = plans[Plan] /\ EarnedIn(Load) /\ TodoUnclaimed(Load)
  BY LoadType, LoadKeeps DEF Types, PlansInv, AllEarned, Unheld, Current
<1>2. DOMAIN Closed.queue = {}
  BY DEF Closed
<1>3. MirrorKnown'
  BY DEF PlansInv, KnownTasks, MirrorKnown, Plan
<1>4. QueuesKnown'
  BY <1>1, <1>2 DEF PlansInv, KnownTasks, QueuesKnown, Plan
<1>5. \A q : EarnedIn(q) => EarnedIn(q)'
  BY DEF EarnedIn, IsFresh, Current, Plan
<1>6. EarnedIn(mirror)' /\ TodoUnclaimed(mirror)'
  BY <1>5 DEF PlansInv, AllEarned, Unheld, EarnedIn, TodoUnclaimed
<1>7. \A s \in Sessions : EarnedIn(Queue(s))'
  <2> TAKE s \in Sessions
  <2>1. CASE Queue(s)' = Queue(s)
    BY <2>1 DEF PlansInv, AllEarned, EarnedIn, IsFresh, Current, Plan
  <2>2. CASE Queue(s)' = Load
    BY <1>1, <2>2 DEF EarnedIn, IsFresh, Current, Plan
  <2>3. CASE Queue(s)' = Closed.queue
    BY <1>2, <2>3 DEF EarnedIn
  <2> QED
    BY <2>1, <2>2, <2>3
<1>8. \A s \in Sessions : TodoUnclaimed(Queue(s))'
  <2> TAKE s \in Sessions
  <2>1. CASE Queue(s)' = Queue(s)
    BY <2>1 DEF PlansInv, Unheld, TodoUnclaimed
  <2>2. CASE Queue(s)' = Load
    BY <1>1, <2>2 DEF TodoUnclaimed
  <2>3. CASE Queue(s)' = Closed.queue
    BY <1>2, <2>3 DEF TodoUnclaimed
  <2> QED
    BY <2>1, <2>2, <2>3
<1> QED
  BY <1>3, <1>4, <1>6, <1>7, <1>8 DEF AllEarned, Unheld

\* One session moves on.
LEMMA OneSession ==
  ASSUME session \in [Sessions -> SessionState], NEW s \in Sessions, NEW k \in SessionState,
         session' = [session EXCEPT ![s] = k]
  PROVE  /\ session' \in [Sessions -> SessionState]
         /\ session'[s] = k
         /\ \A r \in Sessions \ {s} : session'[r] = session[r]
OBVIOUS

\* It joins or starts a run, or has another snapshot.
LEMMA RunSet ==
  ASSUME NEW f \in SessionState, NEW n \in Nat
  PROVE  LET k == [f EXCEPT !.run = n] IN
         /\ k \in SessionState
         /\ k.open = f.open /\ k.plan = f.plan /\ k.run = n /\ k.queue = f.queue
BY DEF SessionState

LEMMA QueueSet ==
  ASSUME NEW f \in SessionState, NEW q \in Tables
  PROVE  LET k == [f EXCEPT !.queue = q] IN
         /\ k \in SessionState
         /\ k.open = f.open /\ k.plan = f.plan /\ k.run = f.run /\ k.queue = q
BY DEF SessionState

\* A snapshot is taken: in calm it is the only one, and agrees with the files.
LEMMA TakeSnapshotKeeps ==
  ASSUME Types, PlansInv, NEW s \in Sessions, TakeSnapshot(s), calm' = (calm /\ Alone(s))
  PROVE  Types' /\ PlansInv'
<1> USE DEF TakeSnapshot, history
<1> DEFINE k == [open |-> TRUE, plan |-> Plan, run |-> 0, queue |-> Load]
<1>1. k \in SessionState
  BY LoadType, Ranges DEF Types, PlansType, SessionState
<1>2. /\ session' \in [Sessions -> SessionState] /\ session'[s] = k
      /\ \A r \in Sessions \ {s} : session'[r] = session[r]
  BY <1>1, OneSession DEF Types, SessionType
<1>3. Load' = Load /\ Plan' = Plan
  BY DEF Load, Current, Plan
<1>4. Types'
  <2>1. SessionType'
    BY <1>2, <1>3, Ranges DEF Types, SessionType, Run
  <2> QED
    BY <2>1, <1>3 DEF Types, PlansType, StoreType, GivenType, Issued, Plan
<1>5. MirrorKnown' /\ QueuesKnown' /\ AllEarned' /\ Unheld'
  BY <1>2, SnapshotsKeep DEF Queue
<1>6. ClaimsKnown'
  BY DEF PlansInv, KnownTasks, ClaimsKnown
<1>7. ClosedIsEmpty'
  BY <1>2 DEF PlansInv, ClosedIsEmpty, Open
<1>8. CalmInv'
  <2>1. calm' => calm /\ \A r \in Sessions \ {s} : ~Open(r)'
    BY <1>2 DEF Alone, Open
  <2>2. OneAtATime'
    BY <2>1 DEF OneAtATime
  <2>3. SnapshotIsCurrent'
    BY <1>2, <1>3, <2>1 DEF SnapshotIsCurrent, Queue, Run, Plan
  <2>4. FilesAgree'
    BY <1>3, <2>1 DEF PlansInv, CalmInv, FilesAgree, Plan
  <2> QED
    BY <2>2, <2>3, <2>4 DEF CalmInv
<1> QED
  BY <1>4, <1>5, <1>6, <1>7, <1>8 DEF PlansInv, KnownTasks

\* A session is closed, which may end its run.
LEMMA CloseKeeps ==
  ASSUME Types, PlansInv, NEW s \in Sessions, calm' = (calm /\ Alone(s)),
         session' = [session EXCEPT ![s] = Closed], active' \in {active, 0},
         UNCHANGED <<plans, mirror, store, held, history>>
  PROVE  Types' /\ PlansInv'
<1> USE DEF history
<1>2. /\ session' \in [Sessions -> SessionState] /\ session'[s] = Closed
      /\ \A r \in Sessions \ {s} : session'[r] = session[r]
  BY ClosedType, OneSession DEF Types, SessionType
<1>3. Load' = Load /\ Plan' = Plan
  BY DEF Load, Current, Plan
<1>4. Types'
  <2>1. SessionType'
    BY <1>2, <1>3, Ranges, ClosedType DEF Types, SessionType, Run
  <2>2. StoreType'
    BY <1>3, Ranges DEF Types, StoreType
  <2> QED
    BY <2>1, <2>2, <1>3 DEF Types, PlansType, GivenType, Issued, Plan
<1>5. MirrorKnown' /\ QueuesKnown' /\ AllEarned' /\ Unheld'
  BY <1>2, SnapshotsKeep DEF Queue
<1>6. ClaimsKnown'
  BY DEF PlansInv, KnownTasks, ClaimsKnown
<1>7. ClosedIsEmpty'
  BY <1>2 DEF PlansInv, ClosedIsEmpty, Open
<1>8. CalmInv'
  <2>1. calm' => calm /\ \A r \in Sessions : ~Open(r)'
    BY <1>2, ClosedType DEF Alone, Open
  <2>2. FilesAgree'
    BY <1>3, <2>1 DEF PlansInv, CalmInv, FilesAgree, Plan
  <2> QED
    BY <2>1, <2>2 DEF CalmInv, OneAtATime, SnapshotIsCurrent
<1> QED
  BY <1>4, <1>5, <1>6, <1>7, <1>8 DEF PlansInv, KnownTasks

\* A session joins the active run.
LEMMA JoinRunKeeps ==
  ASSUME Types, PlansInv, NEW s \in Sessions, JoinRun(s), calm' = (calm /\ Alone(s))
  PROVE  Types' /\ PlansInv'
<1> USE DEF JoinRun, history
<1> DEFINE k == [session[s] EXCEPT !.run = active]
<1>1. k \in SessionState /\ k.run = active /\ k.open = Open(s) /\ k.plan = session[s].plan
      /\ k.queue = Queue(s) /\ active \in 0 .. Len(store)
  <2>1. active \in 0 .. Len(store) /\ active \in Nat /\ session[s] \in SessionState
    BY Ranges DEF Types, StoreType, SessionType
  <2> QED
    BY <2>1, RunSet DEF Open, Queue
<1>2. /\ session' \in [Sessions -> SessionState] /\ session'[s] = k
      /\ \A r \in Sessions \ {s} : session'[r] = session[r]
  BY <1>1, OneSession DEF Types, SessionType
<1> HIDE DEF k
<1>3. Load' = Load /\ Plan' = Plan
  BY DEF Load, Current, Plan
<1>4. Types'
  <2>1. SessionType'
    BY <1>1, <1>2, <1>3, Ranges DEF Types, SessionType, Run
  <2> QED
    BY <2>1, <1>3 DEF Types, PlansType, StoreType, GivenType, Issued, Plan
<1>5. MirrorKnown' /\ QueuesKnown' /\ AllEarned' /\ Unheld'
  BY <1>1, <1>2, SnapshotsKeep DEF Queue
<1>6. ClaimsKnown'
  BY DEF PlansInv, KnownTasks, ClaimsKnown
<1>7. ClosedIsEmpty'
  BY <1>1, <1>2 DEF PlansInv, ClosedIsEmpty, Open
<1>8. CalmInv'
  <2>1. calm' => calm /\ \A r \in Sessions \ {s} : ~Open(r)'
    BY <1>2 DEF Alone, Open
  <2>2. OneAtATime'
    BY <2>1 DEF OneAtATime
  <2>3. SnapshotIsCurrent'
    BY <1>1, <1>2, <1>3, <2>1
    DEF PlansInv, CalmInv, SnapshotIsCurrent, Queue, Run, Open, Plan
  <2>4. FilesAgree'
    BY <1>3, <2>1 DEF PlansInv, CalmInv, FilesAgree, Plan
  <2> QED
    BY <2>2, <2>3, <2>4 DEF CalmInv
<1> QED
  BY <1>4, <1>5, <1>6, <1>7, <1>8 DEF PlansInv, KnownTasks

\* A session starts a run: its files are the snapshot, which in calm is what Load reads.
LEMMA StartRunKeeps ==
  ASSUME Types, PlansInv, NEW s \in Sessions, StartRun(s), calm' = (calm /\ Alone(s))
  PROVE  Types' /\ PlansInv'
<1> USE DEF StartRun, StartRunWith
<1> DEFINE n == Len(store) + 1
           k == [session[s] EXCEPT !.run = n]
<1>1. k \in SessionState /\ k.run = n /\ k.open = Open(s) /\ k.plan = session[s].plan
      /\ k.queue = Queue(s) /\ n \in Nat \ {0} /\ n <= MaxRuns
  <2>1. n \in Nat \ {0} /\ n <= MaxRuns /\ session[s] \in SessionState
    BY Ranges, BoundsAssumption DEF Types, SessionType
  <2> HIDE DEF n
  <2> QED
    BY <2>1, RunSet DEF Open, Queue
<1>2. /\ session' \in [Sessions -> SessionState] /\ session'[s] = k
      /\ \A r \in Sessions \ {s} : session'[r] = session[r]
  BY <1>1, OneSession DEF Types, SessionType
<1> HIDE DEF k
<1>3. Load' = Load /\ Plan' = Plan
  BY DEF Load, Current, Plan
<1>4. /\ store' \in Seq(Tables) /\ Len(store') = n /\ store'[n] = Queue(s)
      /\ active' = n
  BY Ranges, AppendProperties DEF Types, StoreType
<1>5. /\ born' \in Seq(1 .. MaxPlans) /\ Len(born') = n /\ born'[n] = session[s].plan
      /\ \A r \in 1 .. Len(store) : born'[r] = born[r]
  <2>1. session[s].plan \in 1 .. MaxPlans /\ Len(born) = Len(store)
    BY DEF Types, SessionType, SessionState, StoreType
  <2> QED
    BY <2>1, AppendProperties DEF Types, StoreType
<1>6. Types'
  <2>1. StoreType'
    <3>1. \A r \in 1 .. n : born'[r] <= Plan
      <4> TAKE r \in 1 .. n
      <4>1. CASE r = n
        BY <1>5, <4>1, Ranges
      <4>2. CASE r \in 1 .. Len(store)
        BY <1>5, <4>2, Ranges
      <4>3. r = n \/ r \in 1 .. Len(store)
        BY Ranges
      <4> QED
        BY <4>1, <4>2, <4>3
    <3> QED
      BY <1>1, <1>3, <1>4, <1>5, <3>1 DEF StoreType
  <2>2. SessionType'
    BY <1>1, <1>2, <1>3, <1>4, Ranges DEF Types, SessionType, Run
  <2> QED
    BY <2>1, <2>2, <1>3 DEF Types, PlansType, GivenType, Issued, Plan
<1>7. MirrorKnown' /\ QueuesKnown' /\ AllEarned' /\ Unheld'
  BY <1>1, <1>2, SnapshotsKeep DEF Queue
<1>8. ClaimsKnown'
  BY DEF PlansInv, KnownTasks, ClaimsKnown
<1>9. ClosedIsEmpty'
  BY <1>1, <1>2 DEF PlansInv, ClosedIsEmpty, Open
<1>10. CalmInv'
  <2>1. calm' => calm /\ \A r \in Sessions \ {s} : ~Open(r)'
    BY <1>2 DEF Alone, Open
  <2>2. OneAtATime'
    BY <2>1 DEF OneAtATime
  <2>3. SnapshotIsCurrent'
    BY <1>1, <1>2, <1>3, <1>4, <2>1
    DEF PlansInv, CalmInv, SnapshotIsCurrent, Queue, Run, Open, Plan
  <2>4. FilesAgree'
    BY <1>3, <1>4, <2>1 DEF PlansInv, CalmInv, SnapshotIsCurrent, FilesAgree
  <2> QED
    BY <2>2, <2>3, <2>4 DEF CalmInv
<1> QED
  BY <1>6, <1>7, <1>8, <1>9, <1>10 DEF PlansInv, KnownTasks

-----------------------------------------------------------------------------
(* Steps of claims. *)

\* One task of a table is written.
LEMMA TableSet ==
  ASSUME NEW q \in Tables, NEW t \in DOMAIN q, NEW f \in TaskRecord
  PROVE  LET g == [q EXCEPT ![t] = f] IN
         /\ g \in Tables /\ DOMAIN g = DOMAIN q
         /\ g[t] = f
         /\ \A u \in DOMAIN q : u # t => g[u] = q[u]
<1> DEFINE g == [q EXCEPT ![t] = f]
<1>1. DOMAIN q \in SUBSET Ids /\ q \in [DOMAIN q -> TaskRecord]
  BY TableIsFunction
<1>2. g \in [DOMAIN q -> TaskRecord]
  BY <1>1
<1>3. g \in Tables
  BY <1>1, <1>2, FunctionIsTable
<1> QED
  BY <1>1, <1>3

\* The files of one run are written.
LEMMA FilesSet ==
  ASSUME Types, NEW r \in 1 .. Len(store), NEW g \in Tables,
         store' = [store EXCEPT ![r] = g]
  PROVE  /\ store' \in Seq(Tables) /\ Len(store') = Len(store)
         /\ store'[r] = g
BY ExceptSeq DEF Types, StoreType

\* A task of a fresh id belongs to the present plan only.
LEMMA FreshPlan ==
  ASSUME Types, NEW t, IsFresh(t), NEW p \in 1 .. Plan, t \in plans[p]
  PROVE  p = Plan
BY Ranges DEF IsFresh

\* The end of the claim of a fresh task is earned for the present plan.
LEMMA ClaimIsEarned ==
  ASSUME Types, KnownTasks, NEW h \in held, IsFresh(h[1])
  PROVE  given[h[2]] = Plan
BY FreshPlan, Ranges DEF KnownTasks, ClaimsKnown

\* A session with a run writes its snapshot to the mirror.
LEMMA FlushKeeps ==
  ASSUME Types, PlansInv, NEW s \in Sessions, Run(s) # 0, NEW q \in Tables,
         DOMAIN q = DOMAIN Queue(s), Flush(s, q), plans' = plans, earned \subseteq earned',
         \A t \in DOMAIN q : IsFresh(t) /\ q[t].status = "done" => <<Plan, t>> \in earned',
         TodoUnclaimed(q), calm' = (calm /\ Alone(s)), Len(store') = Len(store),
         active' \in {active, 0}
  PROVE  /\ SessionType' /\ mirror' \in Tables
         /\ MirrorKnown' /\ QueuesKnown' /\ AllEarned' /\ Unheld' /\ ClosedIsEmpty'
         /\ OneAtATime' /\ SnapshotIsCurrent'
         /\ calm' => calm /\ Queue(s) = Load /\ Load' = q
                     /\ (active # 0 => active = Run(s))
<1> DEFINE k == [session[s] EXCEPT !.queue = q]
<1>1. k \in SessionState /\ k.run = Run(s) /\ k.open = Open(s) /\ k.plan = session[s].plan
      /\ k.queue = q
  BY QueueSet DEF Types, SessionType, Open, Run
<1>2. /\ session' \in [Sessions -> SessionState] /\ session'[s] = k
      /\ \A r \in Sessions \ {s} : session'[r] = session[r]
  <2>1. session' = [session EXCEPT ![s] = k]
    BY DEF Flush
  <2> QED
    BY <1>1, <2>1, OneSession DEF Types, SessionType
<1> HIDE DEF k
<1>3. mirror' = q /\ Plan' = Plan /\ Current' = Current
  BY DEF Flush, Plan, Current
<1>4. SessionType'
  BY <1>1, <1>2, <1>3, Ranges DEF Types, SessionType, Run
<1>5. MirrorKnown' /\ QueuesKnown'
  <2>1. session[s].plan \in 1 .. Plan /\ DOMAIN q \subseteq plans[session[s].plan]
    BY Ranges DEF PlansInv, KnownTasks, QueuesKnown
  <2>2. MirrorKnown'
    BY <1>3, <2>1 DEF MirrorKnown
  <2>3. QueuesKnown'
    BY <1>1, <1>2, <2>1 DEF PlansInv, KnownTasks, QueuesKnown, Queue
  <2> QED
    BY <2>2, <2>3
<1>6. AllEarned'
  <2>1. EarnedIn(mirror)'
    BY <1>3 DEF EarnedIn, IsFresh
  <2>2. \A r \in Sessions : EarnedIn(Queue(r))'
    <3> TAKE r \in Sessions
    <3>1. CASE r = s
      BY <1>1, <1>2, <1>3, <3>1 DEF EarnedIn, IsFresh, Queue
    <3>2. CASE r # s
      BY <1>2, <1>3, <3>2 DEF PlansInv, AllEarned, EarnedIn, IsFresh, Queue
    <3> QED
      BY <3>1, <3>2
  <2> QED
    BY <2>1, <2>2 DEF AllEarned
<1>7. Unheld'
  BY <1>1, <1>2, <1>3 DEF PlansInv, Unheld, TodoUnclaimed, Queue
<1>8. Open(s)
  BY ClosedType DEF PlansInv, ClosedIsEmpty, Run
<1>9. ClosedIsEmpty'
  BY <1>1, <1>2, <1>8 DEF PlansInv, ClosedIsEmpty, Open
<1>10. calm' => calm /\ \A r \in Sessions \ {s} : ~Open(r)'
  BY <1>2 DEF Alone, Open
<1>11. calm' => /\ Queue(s) = Load /\ session[s].plan = Plan
                /\ active # 0 => active = Run(s)
  BY <1>8, <1>10 DEF PlansInv, CalmInv, SnapshotIsCurrent
<1>12. calm' => Load' = q
  <2>1. calm' => q \in [Current -> TaskRecord]
    BY <1>11, TableIsFunction, LoadType DEF Types
  <2> QED
    BY <1>3, <2>1 DEF Load
<1>13. OneAtATime' /\ SnapshotIsCurrent'
  BY <1>1, <1>2, <1>3, <1>10, <1>11, <1>12
  DEF OneAtATime, SnapshotIsCurrent, Queue, Run, Open
<1> QED
  BY <1>3, <1>4, <1>5, <1>6, <1>7, <1>9, <1>10, <1>11, <1>12, <1>13

\* A task is claimed: its file and the snapshot change alike where they agree.
LEMMA ClaimTaskKeeps ==
  ASSUME Types, PlansInv, NEW s \in Sessions, ClaimTask(s), calm' = (calm /\ Alone(s))
  PROVE  Types' /\ PlansInv'
<1> DEFINE r == Run(s)
           token == Issued + 1
<1> PICK t \in DOMAIN Queue(s) :
       /\ CanClaim(Queue(s), store[r], t)
       /\ store' = [store EXCEPT ![r][t] = Claimed(@, Agent, token, 0)]
       /\ Flush(s, [Queue(s) EXCEPT ![t] = Claimed(@, Agent, token, 0)])
       /\ held' = held \cup {<<t, token>>}
  BY DEF ClaimTask, IsFirst
<1> DEFINE q == [Queue(s) EXCEPT ![t] = Claimed(@, Agent, token, 0)]
           g == [store[r] EXCEPT ![t] = Claimed(@, Agent, token, 0)]
<1>1. /\ r # 0 /\ token <= MaxTokens /\ given' = Append(given, session[s].plan)
      /\ plans' = plans /\ active' = active /\ born' = born /\ earned' = earned
  BY DEF ClaimTask
<1>2. r \in 1 .. Len(store) /\ token \in Nat \ {0} /\ t \in DOMAIN store[r]
  BY <1>1, Ranges DEF CanClaim
<1>3. Queue(s) \in [DOMAIN Queue(s) -> TaskRecord] /\ DOMAIN Queue(s) \in SUBSET Ids
  BY Ranges, TableIsFunction
<1>4. g \in Tables
  <2>1. Claimed(store[r][t], Agent, token, 0) \in TaskRecord /\ store[r] \in Tables
    BY <1>2, Ranges, TableIsFunction, ClaimedType
  <2> QED
    BY <1>2, <2>1, TableSet
<1>5. /\ q \in Tables /\ DOMAIN q = DOMAIN Queue(s)
      /\ q[t].status = "in_progress"
      /\ \A u \in DOMAIN q : u # t => q[u] = Queue(s)[u]
  <2>1. Claimed(Queue(s)[t], Agent, token, 0) \in TaskRecord
        /\ Claimed(Queue(s)[t], Agent, token, 0).status = "in_progress"
    BY <1>2, <1>3, ClaimedType
  <2> QED
    BY <2>1, Ranges, TableSet
<1>6. store' \in Seq(Tables) /\ Len(store') = Len(store) /\ store'[r] = g
  <2>1. store' = [store EXCEPT ![r] = g]
    OBVIOUS
  <2> HIDE DEF g, r
  <2> QED
    BY <1>2, <1>4, <2>1, FilesSet
<1>7. /\ SessionType' /\ mirror' \in Tables
      /\ MirrorKnown' /\ QueuesKnown' /\ AllEarned' /\ Unheld' /\ ClosedIsEmpty'
      /\ OneAtATime' /\ SnapshotIsCurrent'
      /\ calm' => calm /\ Queue(s) = Load /\ Load' = q /\ (active # 0 => active = r)
  <2>1. \A u \in DOMAIN q : IsFresh(u) /\ q[u].status = "done" => <<Plan, u>> \in earned'
    BY <1>1, <1>5 DEF PlansInv, AllEarned, EarnedIn
  <2>2. TodoUnclaimed(q)
    BY <1>5 DEF PlansInv, Unheld, TodoUnclaimed
  <2>3. Flush(s, q)
    OBVIOUS
  <2> HIDE DEF q
  <2> QED
    BY <1>1, <1>5, <1>6, <2>1, <2>2, <2>3, FlushKeeps
<1>8. /\ given' \in Seq(1 .. MaxPlans) /\ Issued' = token /\ given'[token] = session[s].plan
      /\ \A k \in 1 .. Issued : given'[k] = given[k]
  <2>1. session[s].plan \in 1 .. MaxPlans
    BY DEF Types, SessionType, SessionState
  <2> QED
    BY <1>1, <2>1, AppendProperties DEF Types, GivenType, Issued
<1>9. Types'
  <2>1. Plan' = Plan /\ PlansType'
    BY <1>1 DEF Plan, Types, PlansType
  <2>2. StoreType'
    BY <1>1, <1>6, <2>1 DEF Types, StoreType
  <2>3. GivenType'
    <3>1. \A k \in 1 .. token : given'[k] <= Plan
      <4> TAKE k \in 1 .. token
      <4>1. k = token \/ k \in 1 .. Issued
        BY Ranges
      <4> QED
        BY <1>8, <4>1, Ranges
    <3>2. held' \subseteq Ids \X (1 .. token)
      <4>1. 1 .. Issued \subseteq 1 .. token /\ token \in 1 .. token
        BY Ranges
      <4> QED
        BY <1>3, <4>1 DEF Types, GivenType
    <3> QED
      BY <1>1, <1>8, <2>1, <3>1, <3>2 DEF Types, GivenType
  <2> QED
    BY <1>7, <2>1, <2>2, <2>3 DEF Types
<1>10. ClaimsKnown'
  <2> SUFFICES ASSUME NEW h \in held' PROVE h[1] \in plans'[given'[h[2]]]
    BY DEF ClaimsKnown
  <2>1. CASE h \in held
    BY <1>1, <1>8, <2>1, Ranges DEF PlansInv, KnownTasks, ClaimsKnown
  <2>2. CASE h = <<t, token>>
    BY <1>1, <1>8, <2>2 DEF PlansInv, KnownTasks, QueuesKnown
  <2> QED
    BY <2>1, <2>2
<1>11. FilesAgree'
  BY <1>1, <1>6, <1>7 DEF PlansInv, CalmInv, FilesAgree, Plan
<1> QED
  BY <1>7, <1>9, <1>10, <1>11 DEF PlansInv, KnownTasks, CalmInv

\* A validated task is written by a session that does not know its claim: in calm, not
\* to a run of the present plan.
LEMMA EndUnknownKeeps ==
  ASSUME Types, PlansInv, NEW s \in Sessions, Run(s) # 0, calm' = (calm /\ Alone(s)),
         NEW t \in DOMAIN Queue(s), NEW token,
         HoldsToken(store[Run(s)][t], token), ~HoldsToken(Queue(s)[t], token),
         NEW g \in Tables, store' = [store EXCEPT ![Run(s)] = g],
         earned \subseteq earned', earned' \subseteq (1 .. MaxPlans) \X Ids,
         UNCHANGED <<plans, mirror, active, session, held, born, given>>
  PROVE  Types' /\ PlansInv'
<1>1. store' \in Seq(Tables) /\ Len(store') = Len(store)
  <2>1. Run(s) \in 1 .. Len(store)
    BY Ranges
  <2> QED
    BY <2>1, FilesSet
<1>2. Load' = Load /\ Plan' = Plan /\ Current' = Current
  BY DEF Load, Plan, Current
<1>3. Types'
  BY <1>1, <1>2 DEF Types, PlansType, StoreType, SessionType, GivenType, Run, Issued
<1>4. KnownTasks'
  BY <1>2 DEF PlansInv, KnownTasks, MirrorKnown, QueuesKnown, ClaimsKnown, Queue
<1>5. AllEarned'
  BY <1>2 DEF PlansInv, AllEarned, EarnedIn, IsFresh, Queue
<1>6. Unheld' /\ ClosedIsEmpty'
  BY DEF PlansInv, Unheld, TodoUnclaimed, ClosedIsEmpty, Queue, Open
<1>7. OneAtATime' /\ SnapshotIsCurrent'
  BY <1>2 DEF PlansInv, CalmInv, OneAtATime, SnapshotIsCurrent, Queue, Run, Open
<1>8. Open(s)
  BY ClosedType DEF PlansInv, ClosedIsEmpty, Run
<1>9. FilesAgree'
  <2> SUFFICES ASSUME calm', active # 0, born[active] = Plan PROVE FALSE
    BY <1>2 DEF FilesAgree
  <2>1. Queue(s) = Load /\ active = Run(s) /\ store[active] = Load
    BY <1>8 DEF PlansInv, CalmInv, SnapshotIsCurrent, FilesAgree
  <2> QED
    BY <2>1
<1> QED
  BY <1>3, <1>4, <1>5, <1>6, <1>7, <1>9 DEF PlansInv, CalmInv

\* A validated task passes or fails.  If it passes, it is earned for the plan whose task
\* was given out.
LEMMA EndTaskKeeps ==
  ASSUME Types, PlansInv, NEW s \in Sessions, EndTask(s), calm' = (calm /\ Alone(s))
  PROVE  Types' /\ PlansInv'
<1> DEFINE r == Run(s)
<1> PICK h \in held, status \in {"todo", "done"} :
       LET t == h[1]
           token == h[2]
           known == HoldsToken(Queue(s)[t], token)
           ended == [Queue(s) EXCEPT ![t] = Released(@, status)]
       IN
       /\ t \in DOMAIN Queue(s) \cap DOMAIN store[r]
       /\ HoldsToken(store[r][t], token)
       /\ store' = [store EXCEPT ![r][t] = Released(@, status)]
       /\ IF known THEN Flush(s, ended) ELSE UNCHANGED <<mirror, session>>
       /\ active' = IF known /\ AllDone(ended) /\ active = r THEN 0 ELSE active
       /\ earned' = IF status = "done" THEN earned \cup {<<given[token], t>>} ELSE earned
  BY DEF EndTask
<1> DEFINE t == h[1]
           token == h[2]
           q == [Queue(s) EXCEPT ![t] = Released(@, status)]
           g == [store[r] EXCEPT ![t] = Released(@, status)]
<1>1. r # 0 /\ UNCHANGED <<plans, held, born, given>>
  BY DEF EndTask
<1>2. /\ r \in 1 .. Len(store) /\ store[r] \in Tables /\ Queue(s) \in Tables
      /\ status \in Statuses
      /\ t \in DOMAIN Queue(s) /\ t \in DOMAIN store[r] /\ t \in Ids /\ token \in 1 .. Issued
      /\ given[token] \in 1 .. Plan
  BY <1>1, Ranges DEF Statuses
<1>3. g \in Tables /\ store' = [store EXCEPT ![r] = g]
  <2>1. Released(store[r][t], status) \in TaskRecord
    BY <1>2, TableIsFunction, ReleasedType
  <2> QED
    BY <1>2, <2>1, TableSet
<1>4. /\ q \in Tables /\ DOMAIN q = DOMAIN Queue(s)
      /\ q[t].status = status /\ q[t].claim_token = NoToken
      /\ \A u \in DOMAIN q : u # t => q[u] = Queue(s)[u]
  <2>1. Released(Queue(s)[t], status) \in TaskRecord
        /\ Released(Queue(s)[t], status).status = status
        /\ Released(Queue(s)[t], status).claim_token = NoToken
    BY <1>2, TableIsFunction, ReleasedType
  <2> QED
    BY <1>2, <2>1, TableSet
<1>5. earned \subseteq earned' /\ earned' \subseteq (1 .. MaxPlans) \X Ids
  <2>1. earned \subseteq (1 .. MaxPlans) \X Ids /\ given[token] \in 1 .. MaxPlans
    BY <1>2, ElementOfSeq DEF Types, GivenType, Issued
  <2>2. earned' \in {earned, earned \cup {<<given[token], t>>}}
    OBVIOUS
  <2> QED
    BY <1>2, <2>1, <2>2
<1>6. CASE ~HoldsToken(Queue(s)[t], token)
  <2>1. /\ HoldsToken(store[r][t], token) /\ active' = active
        /\ UNCHANGED <<mirror, session>>
    BY <1>6
  <2> HIDE DEF g, t, token
  <2> QED
    BY <1>1, <1>2, <1>3, <1>5, <1>6, <2>1, EndUnknownKeeps
<1>7. CASE HoldsToken(Queue(s)[t], token)
  <2>1. Flush(s, q) /\ active' \in {active, 0}
    BY <1>7
  <2>2. store' \in Seq(Tables) /\ Len(store') = Len(store) /\ store'[r] = g
    <3> HIDE DEF g, r
    <3> QED
      BY <1>2, <1>3, FilesSet
  <2>3. \A u \in DOMAIN q : IsFresh(u) /\ q[u].status = "done" => <<Plan, u>> \in earned'
    <3> TAKE u \in DOMAIN q
    <3>1. CASE u = t
      BY <1>4, <3>1, ClaimIsEarned DEF PlansInv
    <3>2. CASE u # t
      BY <1>4, <1>5, <3>2 DEF PlansInv, AllEarned, EarnedIn
    <3> QED
      BY <3>1, <3>2
  <2>4. TodoUnclaimed(q)
    BY <1>4 DEF PlansInv, Unheld, TodoUnclaimed
  <2>5. /\ SessionType' /\ mirror' \in Tables
        /\ MirrorKnown' /\ QueuesKnown' /\ AllEarned' /\ Unheld' /\ ClosedIsEmpty'
        /\ OneAtATime' /\ SnapshotIsCurrent'
        /\ calm' => calm /\ Queue(s) = Load /\ Load' = q /\ (active # 0 => active = r)
    <3> HIDE DEF q
    <3> QED
      BY <1>1, <1>4, <1>5, <2>1, <2>2, <2>3, <2>4, FlushKeeps
  <2>6. Types'
    <3>1. Plan' = Plan /\ PlansType'
      BY <1>1 DEF Plan, Types, PlansType
    <3>2. StoreType'
      <4> HIDE DEF g
      <4> QED
        BY <1>1, <2>1, <2>2, <3>1, Ranges DEF Types, StoreType
    <3>3. GivenType'
      BY <1>1, <1>5, <3>1 DEF Types, GivenType, Issued
    <3> QED
      BY <2>5, <3>1, <3>2, <3>3 DEF Types
  <2>7. ClaimsKnown'
    BY <1>1 DEF PlansInv, KnownTasks, ClaimsKnown
  <2>8. FilesAgree'
    BY <1>1, <2>1, <2>2, <2>5 DEF PlansInv, CalmInv, FilesAgree, Plan
  <2> QED
    BY <2>5, <2>6, <2>7, <2>8 DEF PlansInv, KnownTasks, CalmInv
<1> QED
  BY <1>6, <1>7

\* Stale claims are taken back in the mirror and, if there is one, in the run that it is
\* about: the active one, if any is active.
LEMMA RequeueKeeps ==
  ASSUME Types, PlansInv, NEW stale, calm' = (calm /\ Quiet),
         UNCHANGED <<plans, active, session, held, born, given, earned>>,
         mirror' = Requeued(Load, stale),
         \/ active = 0 /\ UNCHANGED store
         \/ \E r \in 1 .. Len(store) : /\ active \in {0, r}
                                      /\ store' = [store EXCEPT ![r] = Requeued(@, stale)]
  PROVE  Types' /\ PlansInv'
<1>1. UNCHANGED <<plans, active, session, held, born, given, earned>>
  OBVIOUS
<1>2. Load \in Tables /\ \A r \in 1 .. Len(store) : store[r] \in Tables
  BY Ranges, LoadType DEF Types, StoreType
<1>3. ASSUME NEW q \in Tables
      PROVE  /\ Requeued(q, stale) \in Tables /\ DOMAIN Requeued(q, stale) = DOMAIN q
             /\ Requeued(q, stale) \in [DOMAIN q -> TaskRecord]
             /\ TodoUnclaimed(q) => TodoUnclaimed(Requeued(q, stale))
             /\ EarnedIn(q) => EarnedIn(Requeued(q, stale))
  <2> DEFINE g == Requeued(q, stale)
  <2>1. DOMAIN q \in SUBSET Ids /\ q \in [DOMAIN q -> TaskRecord]
    BY TableIsFunction
  <2>2. \A t \in DOMAIN q : /\ Released(q[t], "todo") \in TaskRecord
                            /\ Released(q[t], "todo").status = "todo"
                            /\ Released(q[t], "todo").claim_token = NoToken
    BY <2>1, ReleasedType DEF Statuses
  <2>3. g \in [DOMAIN q -> TaskRecord]
    BY <2>1, <2>2 DEF Requeued
  <2>4. g \in Tables
    <3> HIDE DEF g
    <3> QED
      BY <2>1, <2>3, FunctionIsTable
  <2>5. TodoUnclaimed(q) => TodoUnclaimed(g)
    BY <2>2 DEF TodoUnclaimed, Requeued
  <2>6. EarnedIn(q) => EarnedIn(g)
    BY <2>2 DEF EarnedIn, Requeued
  <2> QED
    BY <2>3, <2>4, <2>5, <2>6 DEF Requeued
<1>4. /\ store' \in Seq(Tables) /\ Len(store') = Len(store)
      /\ active # 0 => store'[active] = Requeued(store[active], stale)
  <2>1. CASE active = 0 /\ UNCHANGED store
    BY <2>1 DEF Types, StoreType
  <2>2. ASSUME NEW r \in 1 .. Len(store), active \in {0, r},
               store' = [store EXCEPT ![r] = Requeued(@, stale)]
        PROVE  /\ store' \in Seq(Tables) /\ Len(store') = Len(store)
               /\ active # 0 => store'[active] = Requeued(store[active], stale)
    <3> DEFINE g == Requeued(store[r], stale)
    <3>1. g \in Tables /\ store' = [store EXCEPT ![r] = g]
      BY <1>2, <1>3, <2>2
    <3> HIDE DEF g
    <3>2. store' \in Seq(Tables) /\ Len(store') = Len(store) /\ store'[r] = g
      BY <3>1, FilesSet
    <3> QED
      BY <2>2, <3>2 DEF g
  <2> QED
    BY <2>1, <2>2
<1>5. Load \in [Current -> TaskRecord] /\ EarnedIn(Load) /\ TodoUnclaimed(Load)
  BY LoadType, LoadKeeps DEF Types, PlansInv, AllEarned, Unheld
<1>6. /\ mirror' \in Tables /\ mirror' \in [Current -> TaskRecord]
      /\ EarnedIn(mirror') /\ TodoUnclaimed(mirror')
  BY <1>2, <1>3, <1>5
<1>7. Plan' = Plan /\ Current' = Current
  BY <1>1 DEF Plan, Current
<1>8. Load' = mirror'
  BY <1>6, <1>7 DEF Load
<1>9. Types'
  BY <1>1, <1>4, <1>6, <1>7
  DEF Types, PlansType, StoreType, SessionType, GivenType, Run, Issued
<1>10. KnownTasks'
  <2>1. MirrorKnown'
    <3>1. Plan \in 1 .. Plan
      BY Ranges
    <3> QED
      BY <1>1, <1>6, <1>7, <3>1 DEF MirrorKnown, Current
  <2> QED
    BY <1>1, <1>7, <2>1 DEF PlansInv, KnownTasks, QueuesKnown, ClaimsKnown, Queue
<1>11. AllEarned'
  BY <1>1, <1>6, <1>7 DEF PlansInv, AllEarned, EarnedIn, IsFresh, Queue
<1>12. Unheld' /\ ClosedIsEmpty'
  BY <1>1, <1>6 DEF PlansInv, Unheld, TodoUnclaimed, ClosedIsEmpty, Queue, Open
<1>13. CalmInv'
  <2>1. calm' => calm /\ \A s \in Sessions : ~Open(s)'
    BY <1>1 DEF Quiet, Open
  <2>2. FilesAgree'
    BY <1>1, <1>4, <1>7, <1>8, <2>1 DEF PlansInv, CalmInv, FilesAgree
  <2> QED
    BY <2>1, <2>2 DEF CalmInv, OneAtATime, SnapshotIsCurrent
<1> QED
  BY <1>9, <1>10, <1>11, <1>12, <1>13 DEF PlansInv

\* recover_workspace, over a run or over the mirror alone.
LEMMA RecoverKeeps ==
  ASSUME Types, PlansInv, Recover \/ RecoverMirror, calm' = (calm /\ Quiet)
  PROVE  Types' /\ PlansInv'
<1> USE DEF history
<1>1. CASE Recover
  <2>1. RunToRecover \in 1 .. Len(store) /\ active \in {0, RunToRecover}
    BY <1>1, Ranges DEF Recover, RunToRecover, Runs, Types, StoreType
  <2> QED
    BY <1>1, <2>1, RequeueKeeps DEF Recover
<1>2. CASE RecoverMirror
  <2>1. active = 0
    BY <1>2 DEF RecoverMirror, RunToRecover, Runs
  <2> QED
    BY <1>2, <2>1, RequeueKeeps DEF RecoverMirror
<1> QED
  BY <1>1, <1>2

-----------------------------------------------------------------------------
(* The theorems about Plans. *)

\* A step that changes nothing keeps everything.
LEMMA StutterKeeps == ASSUME Types, PlansInv, UNCHANGED vars PROVE Types' /\ PlansInv'
<1> USE DEF vars, history
<1>1. Types'
  BY DEF Types, PlansType, StoreType, SessionType, GivenType, Plan, Run, Issued
<1>2. KnownTasks'
  BY DEF PlansInv, KnownTasks, MirrorKnown, QueuesKnown, ClaimsKnown, Queue, Plan
<1>3. AllEarned'
  BY DEF PlansInv, AllEarned, EarnedIn, IsFresh, Queue, Current, Plan
<1>4. Unheld' /\ ClosedIsEmpty'
  BY DEF PlansInv, Unheld, TodoUnclaimed, ClosedIsEmpty, Queue, Open
<1>5. Load' = Load /\ Plan' = Plan
  BY DEF Load, Current, Plan
<1>6. CalmInv'
  BY <1>5
  DEF PlansInv, CalmInv, OneAtATime, SnapshotIsCurrent, FilesAgree, Queue, Run, Open
<1> QED
  BY <1>1, <1>2, <1>3, <1>4, <1>6 DEF PlansInv

\* Every step keeps the invariant.
LEMMA StepInv == Types /\ PlansInv /\ [Next]_vars => Types' /\ PlansInv'
<1> SUFFICES ASSUME Types, PlansInv, [Next]_vars PROVE Types' /\ PlansInv'
  OBVIOUS
<1>1. ASSUME NEW s \in Sessions, TakeSnapshot(s), calm' = (calm /\ Alone(s))
      PROVE  Types' /\ PlansInv'
  BY <1>1, TakeSnapshotKeeps
<1>2. ASSUME NEW s \in Sessions, Leave(s), calm' = (calm /\ Alone(s))
      PROVE  Types' /\ PlansInv'
  BY <1>2, CloseKeeps DEF Leave
<1>3. ASSUME NEW s \in Sessions, JoinRun(s), calm' = (calm /\ Alone(s))
      PROVE  Types' /\ PlansInv'
  BY <1>3, JoinRunKeeps
<1>4. ASSUME NEW s \in Sessions, StartRun(s), calm' = (calm /\ Alone(s))
      PROVE  Types' /\ PlansInv'
  BY <1>4, StartRunKeeps
<1>5. ASSUME NEW s \in Sessions, EndLoop(s), calm' = (calm /\ Alone(s))
      PROVE  Types' /\ PlansInv'
  <2>1. active' \in {active, 0}
    BY <1>5 DEF EndLoop
  <2> QED
    BY <1>5, <2>1, CloseKeeps DEF EndLoop
<1>6. ASSUME NEW s \in Sessions, ClaimTask(s), calm' = (calm /\ Alone(s))
      PROVE  Types' /\ PlansInv'
  BY <1>6, ClaimTaskKeeps
<1>7. ASSUME NEW s \in Sessions, EndTask(s), calm' = (calm /\ Alone(s))
      PROVE  Types' /\ PlansInv'
  BY <1>7, EndTaskKeeps
<1>8. CASE ReplacePlan /\ calm' = (calm /\ Quiet)
  BY <1>8, ReplacePlanKeeps
<1>9. CASE (Recover \/ RecoverMirror) /\ calm' = (calm /\ Quiet)
  BY <1>9, RecoverKeeps
<1>10. CASE UNCHANGED vars
  BY <1>10, StutterKeeps
<1> QED
  BY <1>1, <1>2, <1>3, <1>4, <1>5, <1>6, <1>7, <1>8, <1>9, <1>10 DEF Next

\* The types of the plans, the mirror, the files and the snapshots, for any numbers of
\* sessions, plans, runs and claims.
THEOREM TypeCorrect == Spec => []TypeOK
<1>1. Types => TypeOK
  <2> SUFFICES ASSUME Types PROVE TypeOK
    OBVIOUS
  <2>1. /\ plans \in Seq(SUBSET Ids) /\ Plan \in 1 .. MaxPlans
        /\ calm \in BOOLEAN
        /\ given \in Seq(1 .. MaxPlans) /\ Issued <= MaxTokens
        /\ earned \subseteq (1 .. MaxPlans) \X Ids
    BY DEF Types, PlansType, GivenType
  <2>2. DOMAIN mirror \subseteq Ids /\ \A t \in DOMAIN mirror : mirror[t] \in TaskRecord
    BY TableIsFunction DEF Types
  <2>3. Runs = 1 .. Len(store) /\ Runs \subseteq 1 .. MaxRuns /\ active \in Runs \cup {0}
    BY Ranges, LenProperties, BoundsAssumption DEF Types, StoreType, Runs
  <2>4. \A r \in Runs : DOMAIN store[r] \subseteq Ids
                        /\ \A t \in DOMAIN store[r] : store[r][t] \in TaskRecord
    BY <2>3, Ranges, TableIsFunction
  <2>5. born \in [Runs -> 1 .. Plan]
    <3>1. born \in [1 .. Len(store) -> 1 .. MaxPlans]
      BY LenProperties DEF Types, StoreType
    <3> QED
      BY <2>3, <3>1, Ranges
  <2>6. held \subseteq Ids \X (1 .. MaxTokens)
    <3>1. 1 .. Issued \subseteq 1 .. MaxTokens
      BY <2>1, Ranges, BoundsAssumption
    <3> QED
      BY <3>1 DEF Types, GivenType
  <2>7. \A s \in Sessions :
            /\ session[s].open \in BOOLEAN /\ session[s].run \in Runs \cup {0}
            /\ session[s].plan \in 1 .. MaxPlans
            /\ \A t \in DOMAIN session[s].queue : session[s].queue[t] \in TaskRecord
    <3> TAKE s \in Sessions
    <3>1. session[s] \in SessionState /\ session[s].run \in 0 .. Len(store)
      BY Ranges DEF Types, SessionType, Run
    <3>2. session[s].queue \in Tables
      BY <3>1 DEF SessionState
    <3> QED
      BY <2>3, <3>1, <3>2, Ranges, TableIsFunction DEF SessionState
  <2> QED
    BY <2>1, <2>2, <2>3, <2>4, <2>5, <2>6, <2>7 DEF TypeOK
<1> QED
  BY <1>1, InitInv, StepInv, PTL DEF Spec

\* A run of the present plan can be worked off: its files and what a new snapshot reads
\* are the same, and what is to do there is nobody's (runtime_store.py:189).
THEOREM OwnPlanClaimable == Spec => []OwnPlanIsClaimable
<1>1. Types /\ PlansInv => OwnPlanIsClaimable
  <2> SUFFICES ASSUME Types, PlansInv, calm, active # 0, born[active] = Plan,
                      NEW t \in Current, Load[t].status = "todo"
               PROVE  CanClaim(Load, store[active], t)
    BY DEF OwnPlanIsClaimable
  <2>1. store[active] = Load
    BY DEF PlansInv, CalmInv, FilesAgree
  <2>2. DOMAIN Load = Current
    BY LoadType DEF Types
  <2>3. Load[t].claim_token = NoToken
    BY <2>2, LoadKeeps DEF PlansInv, AllEarned, Unheld, TodoUnclaimed
  <2> QED
    BY <2>1, <2>2, <2>3 DEF CanClaim, Claimable
<1> QED
  BY <1>1, InitInv, StepInv, PTL DEF Spec

\* The task of an id that no earlier plan has used is done only when it was earned for
\* this plan, whichever sessions write back snapshots and claims of earlier ones
\* (task_queue.py:112).
THEOREM FreshEarned == Spec => []FreshIdIsEarned
<1>1. Types /\ PlansInv => FreshIdIsEarned
  <2> SUFFICES ASSUME Types, PlansInv, NEW t \in Current,
                      \A p \in 1 .. Plan - 1 : t \notin plans[p], Load[t].status = "done"
               PROVE  <<Plan, t>> \in earned
    BY DEF FreshIdIsEarned
  <2>1. DOMAIN Load = Current /\ IsFresh(t)
    BY LoadType DEF Types, IsFresh
  <2> QED
    BY <2>1, LoadKeeps DEF PlansInv, AllEarned, Unheld, EarnedIn
<1> QED
  BY <1>1, InitInv, StepInv, PTL DEF Spec

\* In calm a session sees what a new snapshot would show, and its run is the active one
\* unless there is none: the overlay by task id loses nothing between calls that follow
\* each other.
THEOREM SnapshotCurrent == Spec => []SnapshotIsCurrent
<1>1. PlansInv => SnapshotIsCurrent
  BY DEF PlansInv, CalmInv
<1> QED
  BY <1>1, InitInv, StepInv, PTL DEF Spec

\* Every task in the mirror and in a snapshot is one of a plan that spec/tasks.md has
\* had, and every claim was given out for a task of the plan of its session.
THEOREM TasksKnown == Spec => []KnownTasks
<1>1. PlansInv => KnownTasks
  BY DEF PlansInv
<1> QED
  BY <1>1, InitInv, StepInv, PTL DEF Spec

-----------------------------------------------------------------------------
(* Setup: the inductive invariant behind its properties. *)

\* If nobody has unregistered and no command has failed, then the registration is
\* missing only while the call that removed it is about to add it, or it was not there
\* at the start, and nobody has ended or is about to remove anything.
MissingExplained ==
    intact /\ ~Registered =>
        \/ \E c \in Calls : At(c, "add")
        \/ answer = NoAnswer /\ \A c \in Calls : ~At(c, "remove")

\* Only setups are under way then.
IntactSetsUp == intact => \A c \in Calls : ~call[c].unregisters

\* A call that adds does not unregister, and knows what it wants.
AddersWant ==
    \A c \in Calls :
        /\ At(c, "add") => ~call[c].unregisters
        /\ ~At(c, "idle") /\ ~call[c].unregisters => call[c].wants \in Wants

\* The last answer holds until a call that has removed the registration adds its own.
AnswerStands ==
    \/ AnswerHolds
    \/ ~Registered /\ \E c \in Calls : At(c, "add")

SetupInv == AnswerStands /\ MissingExplained /\ IntactSetsUp /\ AddersWant

-----------------------------------------------------------------------------
(* Setup: the first state and the steps. *)

\* Before the first call nobody wants or has answered anything.
LEMMA SetupInitInv == SetupInit => SetupTypeOK /\ SetupInv
<1> SUFFICES ASSUME SetupInit PROVE SetupTypeOK /\ SetupInv
  OBVIOUS
<1>1. SetupTypeOK
  BY DEF SetupInit, SetupTypeOK, Idle, NoAnswer
<1>2. AnswerStands
  <2>1. answer.ended = "none"
    BY DEF SetupInit, NoAnswer
  <2> QED
    BY <2>1 DEF AnswerStands, AnswerHolds
<1>3. MissingExplained
  BY DEF SetupInit, MissingExplained, At, Idle
<1>4. IntactSetsUp /\ AddersWant
  BY DEF SetupInit, IntactSetsUp, AddersWant, At, Idle
<1> QED
  BY <1>1, <1>2, <1>3, <1>4 DEF SetupInv

\* What is added is a registration.
LEMMA AddedRegistered ==
  ASSUME NEW w \in Wants
  PROVE  Added(w) \in Registrations \ {Unregistered}
BY PathsAssumption DEF Wants, Added, Registrations, Unregistered

\* What has been said holds as long as nobody adds, removes or says anything else.
LEMMA AnswerKept == AnswerHolds /\ UNCHANGED <<config, answer>> => AnswerHolds'
BY DEF AnswerHolds, Registered

\* A call of jb setup asks for the registration.
LEMMA BeginSetupKeeps ==
  ASSUME SetupTypeOK, SetupInv, NEW c \in Calls, BeginSetup(c)
  PROVE  SetupTypeOK' /\ SetupInv'
<1> USE DEF At
<1>1. SetupTypeOK'
  BY DEF BeginSetup, SetupTypeOK
<1>2. AnswerStands'
  <2>1. UNCHANGED <<config, answer>>
    BY DEF BeginSetup
  <2>2. \A d \in Calls : At(d, "add") => At(d, "add")'
    BY DEF BeginSetup, SetupTypeOK
  <2> QED
    BY <2>1, <2>2, AnswerKept DEF SetupInv, AnswerStands, Registered
<1>3. MissingExplained'
  BY DEF BeginSetup, Registered, NoAnswer, SetupInv, IntactSetsUp, MissingExplained,
         SetupTypeOK
<1>4. IntactSetsUp'
  BY DEF BeginSetup, SetupInv, IntactSetsUp, SetupTypeOK
<1>5. AddersWant'
  BY DEF BeginSetup, SetupInv, AddersWant, SetupTypeOK
<1> QED
  BY <1>1, <1>2, <1>3, <1>4, <1>5 DEF SetupInv

\* A call of jb setup --unregister does.
LEMMA BeginUnregisterKeeps ==
  ASSUME SetupTypeOK, SetupInv, NEW c \in Calls, BeginUnregister(c)
  PROVE  SetupTypeOK' /\ SetupInv'
<1> USE DEF At
<1>1. SetupTypeOK'
  BY DEF BeginUnregister, Idle, SetupTypeOK
<1>2. AnswerStands'
  <2>1. UNCHANGED <<config, answer>>
    BY DEF BeginUnregister
  <2>2. \A d \in Calls : At(d, "add") => At(d, "add")'
    BY DEF BeginUnregister, Idle, SetupTypeOK
  <2> QED
    BY <2>1, <2>2, AnswerKept DEF SetupInv, AnswerStands, Registered
<1>3. MissingExplained'
  BY DEF BeginUnregister, Idle, Registered, NoAnswer, SetupInv, IntactSetsUp,
         MissingExplained, SetupTypeOK
<1>4. IntactSetsUp'
  BY DEF BeginUnregister, Idle, SetupInv, IntactSetsUp, SetupTypeOK
<1>5. AddersWant'
  BY DEF BeginUnregister, Idle, SetupInv, AddersWant, SetupTypeOK
<1> QED
  BY <1>1, <1>2, <1>3, <1>4, <1>5 DEF SetupInv

\* It is told what is registered, and ends or goes on.
LEMMA GetKeeps ==
  ASSUME SetupTypeOK, SetupInv, NEW c \in Calls, Get(c)
  PROVE  SetupTypeOK' /\ SetupInv'
<1> USE DEF At
<1>1. SetupTypeOK'
  <2>1. config' \in Registrations \cup {Unregistered} /\ intact' \in BOOLEAN
    BY DEF Get, SetupTypeOK
  <2>2. call' \in [Calls -> [pc : {"idle", "get", "remove", "add"},
                            wants : Wants \cup {Unregistered}, unregisters : BOOLEAN]]
    <3>1. CASE call' = [call EXCEPT ![c] = Idle]
      BY <3>1 DEF Idle, SetupTypeOK
    <3>2. CASE \E pc \in {"remove", "add"} : call' = [call EXCEPT ![c].pc = pc]
      BY <3>2 DEF SetupTypeOK
    <3> QED
      BY <3>1, <3>2 DEF Get, Answer, Goto
  <2>3. answer' \in [ended : {"none", "matches", "added", "removed", "absent", "error"},
                     wants : Wants \cup {Unregistered}]
    BY DEF Get, Answer, Goto, SetupTypeOK
  <2> QED
    BY <2>1, <2>2, <2>3 DEF SetupTypeOK
<1>2. AnswerStands'
  BY DEF Get, Answer, Goto, Idle, Registered, SetupInv, AnswerStands, AnswerHolds, SetupTypeOK,
         Matches
<1>3. MissingExplained'
  BY DEF Get, Answer, Goto, Idle, Registered, NoAnswer, SetupInv, IntactSetsUp,
         MissingExplained, SetupTypeOK
<1>4. IntactSetsUp'
  BY DEF Get, Answer, Goto, Idle, Registered, SetupInv, IntactSetsUp, SetupTypeOK
<1>5. AddersWant'
  BY DEF Get, Answer, Goto, Idle, Registered, SetupInv, AddersWant, SetupTypeOK
<1> QED
  BY <1>1, <1>2, <1>3, <1>4, <1>5 DEF SetupInv

\* It removes what is registered.
LEMMA RemoveKeeps ==
  ASSUME SetupTypeOK, SetupInv, NEW c \in Calls, Remove(c)
  PROVE  SetupTypeOK' /\ SetupInv'
<1> USE DEF At
<1>1. SetupTypeOK'
  <2>1. config' \in Registrations \cup {Unregistered} /\ intact' \in BOOLEAN
    BY DEF Remove, SetupTypeOK
  <2>2. call' \in [Calls -> [pc : {"idle", "get", "remove", "add"},
                            wants : Wants \cup {Unregistered}, unregisters : BOOLEAN]]
    <3>1. CASE call' = [call EXCEPT ![c] = Idle]
      BY <3>1 DEF Idle, SetupTypeOK
    <3>2. CASE \E pc \in {"remove", "add"} : call' = [call EXCEPT ![c].pc = pc]
      BY <3>2 DEF SetupTypeOK
    <3> QED
      BY <3>1, <3>2 DEF Remove, Answer, Goto
  <2>3. answer' \in [ended : {"none", "matches", "added", "removed", "absent", "error"},
                     wants : Wants \cup {Unregistered}]
    BY DEF Remove, Answer, Goto, SetupTypeOK
  <2> QED
    BY <2>1, <2>2, <2>3 DEF SetupTypeOK
<1>2. AnswerStands'
  BY DEF Remove, Answer, Goto, Idle, Registered, SetupInv, AnswerStands, AnswerHolds,
         SetupTypeOK
<1>3. MissingExplained'
  BY DEF Remove, Answer, Goto, Idle, Registered, NoAnswer, SetupInv, IntactSetsUp,
         MissingExplained, SetupTypeOK
<1>4. IntactSetsUp'
  BY DEF Remove, Answer, Goto, Idle, Registered, SetupInv, IntactSetsUp, SetupTypeOK
<1>5. AddersWant'
  BY DEF Remove, Answer, Goto, Idle, Registered, SetupInv, AddersWant, SetupTypeOK
<1> QED
  BY <1>1, <1>2, <1>3, <1>4, <1>5 DEF SetupInv

\* It adds what it wants.
LEMMA AddKeeps ==
  ASSUME SetupTypeOK, SetupInv, NEW c \in Calls, Add(c)
  PROVE  SetupTypeOK' /\ SetupInv'
<1> USE DEF At
<1>1. SetupTypeOK'
  BY AddedRegistered DEF Add, Answer, Idle, Registered, SetupInv, AddersWant, SetupTypeOK
<1>2. AnswerStands'
  <2>1. answer'.ended = "added" /\ config' = Added(answer'.wants)
    BY DEF Add, Answer
  <2> QED
    BY <2>1 DEF AnswerStands, AnswerHolds, Added
<1>3. MissingExplained'
  BY AddedRegistered
  DEF Add, Answer, Idle, Registered, NoAnswer, SetupInv, IntactSetsUp, MissingExplained,
      AddersWant, SetupTypeOK
<1>4. IntactSetsUp'
  BY DEF Add, Added, Answer, Idle, Registered, SetupInv, IntactSetsUp, SetupTypeOK
<1>5. AddersWant'
  BY DEF Add, Added, Answer, Idle, Registered, SetupInv, AddersWant, SetupTypeOK
<1> QED
  BY <1>1, <1>2, <1>3, <1>4, <1>5 DEF SetupInv

\* It finds that another call was faster.
LEMMA RefusedKeeps ==
  ASSUME SetupTypeOK, SetupInv, NEW c \in Calls, Refused(c)
  PROVE  SetupTypeOK' /\ SetupInv'
<1> USE DEF At
<1>1. SetupTypeOK'
  BY DEF Refused, TooLate, Answer, Idle, Registered, SetupTypeOK
<1>2. AnswerStands'
  <2>1. UNCHANGED <<config, answer>>
    BY DEF Refused
  <2>2. \A d \in Calls : ~Registered /\ At(d, "add") => At(d, "add")'
    BY DEF Refused, TooLate, SetupTypeOK
  <2> QED
    BY <2>1, <2>2, AnswerKept DEF SetupInv, AnswerStands, Registered
<1>3. MissingExplained'
  BY DEF Refused, TooLate, Answer, Idle, Registered, NoAnswer, SetupInv, IntactSetsUp,
         MissingExplained, SetupTypeOK
<1>4. IntactSetsUp'
  BY DEF Refused, TooLate, Answer, Idle, Registered, SetupInv, IntactSetsUp, SetupTypeOK
<1>5. AddersWant'
  BY DEF Refused, TooLate, Answer, Idle, Registered, SetupInv, AddersWant, SetupTypeOK
<1> QED
  BY <1>1, <1>2, <1>3, <1>4, <1>5 DEF SetupInv

\* A command fails, with or without its effect.
LEMMA FailKeeps ==
  ASSUME SetupTypeOK, SetupInv, NEW c \in Calls, Fail(c)
  PROVE  SetupTypeOK' /\ SetupInv'
<1> USE DEF At
<1>0. At(c, "add") => call[c].wants \in Wants
  BY DEF SetupInv, AddersWant
<1>a. config' \in Registrations \cup {Unregistered}
  BY <1>0, AddedRegistered DEF Fail, SetupTypeOK
<1>1. SetupTypeOK'
  BY <1>a DEF Fail, Answer, Idle, SetupTypeOK
<1>2. AnswerStands'
  <2>1. answer'.ended = "error"
    BY DEF Fail, Answer
  <2> QED
    BY <2>1 DEF AnswerStands, AnswerHolds
<1>3. MissingExplained'
  BY DEF Fail, Answer, Idle, Registered, NoAnswer, SetupInv, IntactSetsUp,
         MissingExplained, SetupTypeOK
<1>4. IntactSetsUp'
  BY DEF Fail, Added, Answer, Idle, Registered, SetupInv, IntactSetsUp, SetupTypeOK
<1>5. AddersWant'
  BY DEF Fail, Added, Answer, Idle, Registered, SetupInv, AddersWant, SetupTypeOK
<1> QED
  BY <1>1, <1>2, <1>3, <1>4, <1>5 DEF SetupInv

\* Every step keeps what the calls rely on.
LEMMA SetupStepInv == SetupTypeOK /\ SetupInv /\ [SetupNext]_setupVars => SetupTypeOK' /\ SetupInv'
<1> SUFFICES ASSUME SetupTypeOK, SetupInv, [SetupNext]_setupVars PROVE SetupTypeOK' /\ SetupInv'
  OBVIOUS
<1>1. CASE SetupNext
  BY <1>1, BeginSetupKeeps, BeginUnregisterKeeps, GetKeeps, RemoveKeeps, AddKeeps,
     RefusedKeeps, FailKeeps
  DEF SetupNext
<1>2. CASE UNCHANGED setupVars
  BY <1>2
  DEF setupVars, SetupTypeOK, SetupInv, AnswerStands, AnswerHolds, MissingExplained,
      IntactSetsUp, AddersWant, AllEnded, Registered, At
<1> QED
  BY <1>1, <1>2

-----------------------------------------------------------------------------
(* The theorems about Setup. *)

\* The strengthened invariant of calls that overlap and fail.
THEOREM SetupInductive == SetupSpec => [](SetupTypeOK /\ SetupInv)
<1> QED
  BY SetupInitInv, SetupStepInv, PTL DEF SetupSpec

\* The registration and the calls keep their types.
THEOREM SetupTypeCorrect == SetupSpec => []SetupTypeOK
<1> QED
  BY SetupInductive, PTL

\* What the last call to succeed has said holds when all have ended, for any calls, paths
\* and keys, and whichever paths are parts of others.
THEOREM AnswerCorrect == SetupSpec => []AnswerIsTrue
<1>1. SetupInv => AnswerIsTrue
  BY DEF SetupInv, AnswerStands, AnswerIsTrue, AllEnded, At
<1> QED
  BY <1>1, SetupInductive, PTL

\* Setups that race leave the server registered.
THEOREM RaceCorrect == SetupSpec => []RaceKeepsRegistration
<1>1. SetupInv => RaceKeepsRegistration
  BY DEF SetupInv, MissingExplained, RaceKeepsRegistration, AllEnded, At
<1> QED
  BY <1>1, SetupInductive, PTL
=============================================================================
