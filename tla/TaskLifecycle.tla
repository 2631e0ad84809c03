--------------------------- MODULE TaskLifecycle ---------------------------
(***************************************************************************)
(* What an operator node promises about its tasks: the life of each task   *)
(* row and of its consensus, without goroutines, responses or weights.     *)
(* TaskProcessor implements this specification.                            *)
(*                                                                         *)
(*   - a row appears confirming or pending, with no attempt counted;       *)
(*   - it is completed only once consensus on the task is decided;         *)
(*   - a decision is made once and never revoked, by the death of the      *)
(*     process or by the deletion of the row;                              *)
(*   - a row disappears only after MaxRetry attempts.                      *)
(***************************************************************************)
EXTENDS Naturals

CONSTANTS TaskIds, MaxRetry

VARIABLES
    status,     \* status column of the row of a task, "none" without a row
    attempts,   \* its retry_count
    decided     \* tasks with a stored consensus response

vars == <<status, attempts, decided>>

Init ==
    /\ status = [t \in TaskIds |-> "none"]
    /\ attempts = [t \in TaskIds |-> 0]
    /\ decided = {}

\* CreateTask
Submit(t) ==
    /\ status[t] = "none"
    /\ \E s \in {"confirming", "pending"} : status' = [status EXCEPT ![t] = s]
    /\ UNCHANGED <<attempts, decided>>

\* UpdateTaskToPending: the statement has no condition on the status.
Promote(t) ==
    /\ status[t] # "none"
    /\ status' = [status EXCEPT ![t] = "pending"]
    /\ UNCHANGED <<attempts, decided>>

\* IncrementRetryCount
Retry(t) ==
    /\ status[t] # "none"
    /\ attempts[t] < MaxRetry
    /\ attempts' = [attempts EXCEPT ![t] = @ + 1]
    /\ UNCHANGED <<status, decided>>

\* DeleteTaskByID
Expire(t) ==
    /\ status[t] # "none"
    /\ attempts[t] = MaxRetry
    /\ status' = [status EXCEPT ![t] = "none"]
    /\ attempts' = [attempts EXCEPT ![t] = 0]
    /\ UNCHANGED decided

\* CreateConsensusResponse: any task, with or without a row here.
Decide(t) ==
    /\ t \notin decided
    /\ decided' = decided \cup {t}
    /\ UNCHANGED <<status, attempts>>

\* UpdateTaskToCompleted
Finish(t) ==
    /\ t \in decided
    /\ status[t] # "none"
    /\ status' = [status EXCEPT ![t] = "completed"]
    /\ UNCHANGED <<attempts, decided>>

Next == \E t \in TaskIds :
    Submit(t) \/ Promote(t) \/ Retry(t) \/ Expire(t) \/ Decide(t) \/ Finish(t)

Spec == Init /\ [][Next]_vars

============================================================================
