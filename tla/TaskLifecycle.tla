---------------------------- MODULE TaskLifecycle ----------------------------
(***************************************************************************)
(* What the task queue promises about a task, seen from the API: a created *)
(* task waits, is taken by one worker, has its script called at most once, *)
(* and then carries a verdict that nothing changes.  A restarting worker   *)
(* may fail several of its tasks in one step.  TaskQueue implements this.  *)
(***************************************************************************)
EXTENDS Naturals

CONSTANT Task

VARIABLES
    status,   \* tasks.status of every task, "absent" before its creation
    calls     \* how many times the script of the task has been called

vars == <<status, calls>>

Statuses == {"absent", "enqueued", "working", "finished", "failed"}

Init ==
    /\ status = [t \in Task |-> "absent"]
    /\ calls  = [t \in Task |-> 0]

(* Task.create has committed the row. *)
Submit(t) ==
    /\ status[t] = "absent"
    /\ status' = [status EXCEPT ![t] = "enqueued"]
    /\ UNCHANGED calls

(* A worker has committed its claim. *)
Claim(t) ==
    /\ status[t] = "enqueued"
    /\ status' = [status EXCEPT ![t] = "working"]
    /\ UNCHANGED calls

(* The one call of the script. *)
Call(t) ==
    /\ status[t] = "working"
    /\ calls[t] = 0
    /\ calls' = [calls EXCEPT ![t] = 1]
    /\ UNCHANGED status

(* The script returned: only a called script can finish a task. *)
Finish(t) ==
    /\ status[t] = "working"
    /\ calls[t] = 1
    /\ status' = [status EXCEPT ![t] = "finished"]
    /\ UNCHANGED calls

(* The tasks S end without a result: the script raised or could not be
   loaded, or their worker restarted. *)
Fail(S) ==
    /\ \A t \in S : status[t] = "working"
    /\ status' = [t \in Task |-> IF t \in S THEN "failed" ELSE status[t]]
    /\ UNCHANGED calls

Next ==
    \/ \E t \in Task : Submit(t) \/ Claim(t) \/ Call(t) \/ Finish(t)
    \/ \E S \in SUBSET Task : Fail(S)

Spec == Init /\ [][Next]_vars

==============================================================================
