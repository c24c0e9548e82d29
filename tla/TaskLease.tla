------------------------------ MODULE TaskLease ------------------------------
(***************************************************************************)
(* What the runtime store promises about the tasks of a run, whatever its  *)
(* files and locks: a task is leased to one client at a time, a lease ends *)
(* by its holder or by revocation, only the client that holds the lease    *)
(* when the task is completed is credited with it, and a completed task is *)
(* never leased again.                                                     *)
(***************************************************************************)
CONSTANTS Tasks, Clients, NoClient

VARIABLES
    phase,      \* "open", "leased", "closed"
    holder,     \* the client the task is leased to
    credit      \* the clients credited with the task

lease == <<phase, holder, credit>>

\* A run may inherit tasks that are closed, leased, or marked as under way by no one.
Init ==
    /\ phase \in [Tasks -> {"open", "leased", "closed"}]
    /\ holder \in [Tasks -> Clients \cup {NoClient}]
    /\ \A t \in Tasks : holder[t] # NoClient => phase[t] = "leased"
    /\ credit = [t \in Tasks |-> {}]

Grant(t, c) ==
    /\ phase[t] = "open"
    /\ phase' = [phase EXCEPT ![t] = "leased"]
    /\ holder' = [holder EXCEPT ![t] = c]
    /\ UNCHANGED credit

Return(t) ==
    /\ phase[t] = "leased"
    /\ phase' = [phase EXCEPT ![t] = "open"]
    /\ holder' = [holder EXCEPT ![t] = NoClient]
    /\ UNCHANGED credit

Complete(t, c) ==
    /\ phase[t] = "leased"
    /\ holder[t] = c
    /\ phase' = [phase EXCEPT ![t] = "closed"]
    /\ holder' = [holder EXCEPT ![t] = NoClient]
    /\ credit' = [credit EXCEPT ![t] = {c}]

Next ==
    \E t \in Tasks :
        \/ Return(t)
        \/ \E c \in Clients : Grant(t, c) \/ Complete(t, c)

Spec == Init /\ [][Next]_lease
=============================================================================
