----------------------------- MODULE TaskRecords -----------------------------
(***************************************************************************)
(* The record of one task, as orchestrator/runtime_store.py keeps it in    *)
(* .jibuff/runs/<run>/tasks/<id>.json and as orchestrator/task_queue.py    *)
(* mirrors it in storage/task_status.json, with the conditions and the     *)
(* updates that both apply to it.                                          *)
(*                                                                         *)
(* Timestamps are clock readings.  claimed_at and heartbeat_at are always  *)
(* written and cleared together and only their later value is ever         *)
(* compared, so one field stands for both.                                 *)
(***************************************************************************)
EXTENDS Integers

CONSTANTS
    Clients,    \* the worker ids that claim tasks
    NoClient    \* claimed_by of an unclaimed task

ASSUME NoClientAssumption == NoClient \notin Clients

Statuses == {"todo", "in_progress", "done", "blocked"}

NoToken == 0      \* claim_token None; every issued token is positive
Never   == -1     \* heartbeat_at and claimed_at None

TaskRecord ==
    [status       : Statuses,
     revision     : Nat,
     claimed_by   : Clients \cup {NoClient},
     claim_token  : Nat,
     heartbeat_at : Nat \cup {Never}]

\* A task as the markers of spec/tasks.md describe it: revision 0, no claim.
Unclaimed(status) ==
    [status |-> status, revision |-> 0, claimed_by |-> NoClient,
     claim_token |-> NoToken, heartbeat_at |-> Never]

\* Faulty: only the token is looked at.
ClaimableUnlessClaimed(f, expected) == f.claim_token = NoToken

\* What claim_task demands of the file it has locked.
Claimable(f, expected) ==
    /\ f.status = "todo"
    /\ f.claim_token = NoToken
    /\ f.revision = expected

\* Faulty: a claim leaves the revision alone.
ClaimedUnrevised(f, c, token, now) ==
    [status |-> "in_progress", revision |-> f.revision, claimed_by |-> c,
     claim_token |-> token, heartbeat_at |-> now]

Claimed(f, c, token, now) ==
    [status |-> "in_progress", revision |-> f.revision + 1, claimed_by |-> c,
     claim_token |-> token, heartbeat_at |-> now]

\* A task still claimed in the mirror, under a token of an earlier run:
\* RuntimeStore.start copies revision, claimant, token and stamps.
Inherited(c, token) == Claimed(Unclaimed("todo"), c, token, 0)

\* Faulty: the end of a claim takes the revision of the claim back.
ReleasedRolledBack(f, status) ==
    [status |-> status, revision |-> f.revision - 1, claimed_by |-> NoClient,
     claim_token |-> NoToken, heartbeat_at |-> Never]

\* Faulty: clear_claim is forgotten.
ReleasedStillClaimed(f, status) == [f EXCEPT !.status = status, !.revision = @ + 1]

\* The end of a claim: complete (done), requeue or recovery (todo).
Released(f, status) ==
    [status |-> status, revision |-> f.revision + 1, claimed_by |-> NoClient,
     claim_token |-> NoToken, heartbeat_at |-> Never]

\* What heartbeat demands before it refreshes the claim.
Beats(f, token) == f.claim_token = token /\ f.status = "in_progress"

\* Faulty: the token is not compared.
HoldsAnyToken(f, token) == TRUE

\* What complete_task and requeue_task demand: the token, and nothing else.
HoldsToken(f, token) == f.claim_token = token

\* TaskQueue.next and the scans of the store visit tasks in order.
IsFirst(t, S) == t \in S /\ \A u \in S : t <= u

IsStale(f, cutoff) == f.heartbeat_at = Never \/ f.heartbeat_at <= cutoff
=============================================================================
