---------------------------- MODULE TaskQueueProofs ----------------------------
(***************************************************************************)
(* Proofs about TaskQueue, for every set of tasks, workers and filters.    *)
(***************************************************************************)
EXTENDS TaskQueue, TLAPS

(* A worker past its SELECT has a task, and when it comes to save it has a
   verdict, or a path that names something false. *)
HoldsTask ==
    \A w \in Worker :
        /\ pc[w] \in Running \cup {"claimed", "notify2"} => task[w] \in Task
        /\ pc[w] \notin {"save", "notify2"} => out[w] = "none"
        /\ pc[w] = "save" =>
              \/ out[w] \in Ended
              \/ out[w] = "none" /\ script[task[w]] = "falsy"

(* An uncommitted claim is protected by the row lock. *)
ClaimIsLocked ==
    \A w \in Worker : pc[w] = "claimed" =>
        status[task[w]] = "enqueued" /\ rowLock[task[w]] = w

(* A committed claim is protected by locked_by. *)
ClaimIsOwned ==
    \A w \in Worker : pc[w] \in Running =>
        status[task[w]] = "working" /\ lockedBy[task[w]] = w

(* The script is called between the claim and the verdict. *)
CalledInBetween ==
    /\ \A t \in Task : status[t] \in {"absent", "enqueued"} => starts[t] = 0
    /\ \A w \in Worker :
          /\ pc[w] \in {"notify1", "load"} => starts[task[w]] = 0
          /\ pc[w] = "run" => starts[task[w]] = 1
          /\ pc[w] = "save" /\ out[w] = "finished" => starts[task[w]] = 1

-------------------------------------------------------------------------------

(* The initial state has the types. *)
LEMMA InitTyped == Init => TypeOK /\ HoldsTask
BY ServesType, KindsType, BoundsType
   DEF Init, TypeOK, HoldsTask, Statuses, PCs, Running, Ended

(* The final commit writes a verdict, with its result or its error text, or
   leaves these columns alone. *)
LEMMA SaveTxCases ==
    ASSUME NEW w \in Worker, TypeOK, HoldsTask, SaveTx(w)
    PROVE  /\ task[w] \in Task
           /\ \/ /\ out[w] = "finished"
                 /\ status' = [status EXCEPT ![task[w]] = "finished"]
                 /\ result' = [result EXCEPT ![task[w]] = "script"]
                 /\ errortext' = errortext
                 /\ reports' = Reported(task[w], "finished")
              \/ /\ out[w] = "failed"
                 /\ status' = [status EXCEPT ![task[w]] = "failed"]
                 /\ result' = result
                 /\ errortext' = [errortext EXCEPT ![task[w]] = TRUE]
                 /\ reports' = Reported(task[w], "failed")
              \/ /\ out[w] = "none" /\ script[task[w]] = "falsy"
                 /\ status' = status /\ result' = result
                 /\ errortext' = errortext
                 /\ reports' = Reported(task[w], status[task[w]])
<1>1. /\ task[w] \in Task
      /\ \/ out[w] \in Ended
         \/ out[w] = "none" /\ script[task[w]] = "falsy"
      BY DEF SaveTx, HoldsTask, Running
<1>2. CASE out[w] = "finished"
      BY <1>1, <1>2 DEF SaveTx, Outcome
<1>3. CASE out[w] = "failed"
      BY <1>1, <1>3 DEF SaveTx, Outcome
<1>4. CASE out[w] = "none" /\ script[task[w]] = "falsy"
      BY <1>1, <1>4 DEF SaveTx, Outcome, TypeOK
<1>5. QED BY <1>1, <1>2, <1>3, <1>4 DEF Ended

(* So it keeps the rows well typed. *)
LEMMA SaveTxTyped ==
    ASSUME NEW w \in Worker, TypeOK, HoldsTask, SaveTx(w)
    PROVE  /\ status' \in [Task -> Statuses]
           /\ result' \in [Task -> {"none", "script", "unexpected"}]
           /\ errortext' \in [Task -> BOOLEAN]
           /\ reports' \in [Task -> Seq(Statuses)]
           /\ rowLock' \in [Task -> Worker \cup {NoWorker}]
<1>1. status' \in [Task -> Statuses]
      BY SaveTxCases DEF TypeOK, Statuses
<1>2. result' \in [Task -> {"none", "script", "unexpected"}]
      BY SaveTxCases DEF TypeOK
<1>3. errortext' \in [Task -> BOOLEAN]
  <2>1. errortext \in [Task -> BOOLEAN]
        BY DEF TypeOK
  <2>2. \/ errortext' = errortext
        \/ errortext' = [errortext EXCEPT ![task[w]] = TRUE]
        BY SaveTxCases
  <2>3. QED BY <2>1, <2>2, Zenon
<1>4. reports' \in [Task -> Seq(Statuses)]
  <2>1. task[w] \in Task
        BY SaveTxCases
  <2>2. \E s \in Statuses : reports' = Reported(task[w], s)
    <3>1. {"finished", "failed", status[task[w]]} \subseteq Statuses
          BY <2>1 DEF TypeOK, Statuses
    <3>2. QED BY <3>1, SaveTxCases
  <2>3. PICK s \in Statuses : reports' = Reported(task[w], s)
        BY <2>2
  <2>4. reports \in [Task -> Seq(Statuses)]
        BY DEF TypeOK
  <2>5. QED BY <2>1, <2>3, <2>4 DEF Reported
<1>5. rowLock' \in [Task -> Worker \cup {NoWorker}]
      BY DEF SaveTx, TypeOK, Unlocked
<1>6. QED BY <1>1, <1>2, <1>3, <1>4, <1>5

(* The inductive step of the types, one step per action. *)
LEMMA TypeStep == TypeOK /\ HoldsTask /\ [Next]_vars => TypeOK' /\ HoldsTask'
<1> SUFFICES ASSUME TypeOK, HoldsTask, [Next]_vars
             PROVE  TypeOK' /\ HoldsTask'
    OBVIOUS
<1> USE DEF TypeOK, HoldsTask, Statuses, PCs, Running, Ended, apiVars, rowVars,
            workerVars, outside
<1>1. CASE UNCHANGED vars
      BY <1>1 DEF vars
<1>2. ASSUME NEW t \in Task, Stamp(t) PROVE TypeOK' /\ HoldsTask'
      BY <1>2 DEF Stamp
<1>3. ASSUME NEW t \in Task, Insert(t) PROVE TypeOK' /\ HoldsTask'
      BY <1>3 DEF Insert
<1>4. ASSUME NEW w \in Worker, Start(w) PROVE TypeOK' /\ HoldsTask'
      BY <1>4 DEF Start, Goto
<1>5. ASSUME NEW w \in Worker, EnsureAlive(w) PROVE TypeOK' /\ HoldsTask'
      BY <1>5 DEF EnsureAlive, Goto
<1>6. ASSUME NEW w \in Worker, Recover(w) PROVE TypeOK' /\ HoldsTask'
      BY <1>6 DEF Recover, Goto, RecoveryResult
<1>7. ASSUME NEW w \in Worker, Select(w) PROVE TypeOK' /\ HoldsTask'
      BY <1>7 DEF Select, Visible
<1>8. ASSUME NEW w \in Worker, NEW t \in Task, TakeRow(w, t)
      PROVE TypeOK' /\ HoldsTask'
      BY <1>8 DEF TakeRow, Lock
<1>9. ASSUME NEW w \in Worker, NEW t \in Task, SkipRow(w, t)
      PROVE TypeOK' /\ HoldsTask'
      BY <1>9 DEF SkipRow, Lock
<1>10. ASSUME NEW w \in Worker, BadArgs(w) PROVE TypeOK' /\ HoldsTask'
      BY <1>10 DEF BadArgs, Leave
<1>11. ASSUME NEW w \in Worker, ClaimCommit(w) PROVE TypeOK' /\ HoldsTask'
      BY <1>11 DEF ClaimCommit, ClaimTx, Goto, Reported, Unlocked
<1>12. ASSUME NEW w \in Worker, NotifyWorking(w) PROVE TypeOK' /\ HoldsTask'
      BY <1>12 DEF NotifyWorking, Notify, Goto
<1>13. ASSUME NEW w \in Worker, CallScript(w) PROVE TypeOK' /\ HoldsTask'
      BY <1>13 DEF CallScript, Goto
<1>14. ASSUME NEW w \in Worker, ScriptMissing(w) PROVE TypeOK' /\ HoldsTask'
      BY <1>14 DEF ScriptMissing, Goto
<1>15. ASSUME NEW w \in Worker, ScriptBroken(w) PROVE TypeOK' /\ HoldsTask'
      BY <1>15 DEF ScriptBroken, Leave
<1>16. ASSUME NEW w \in Worker, ScriptEnds(w) PROVE TypeOK' /\ HoldsTask'
      BY <1>16 DEF ScriptEnds, Verdicts, Goto
<1>17. ASSUME NEW w \in Worker, SaveCommit(w) PROVE TypeOK' /\ HoldsTask'
  <2>1. SaveTx(w) /\ Goto(w, "notify2") /\ UNCHANGED <<out, faults>>
        BY <1>17 DEF SaveCommit
  <2>2. TypeOK'
        BY <2>1, SaveTxTyped DEF SaveTx, Goto
  <2>3. HoldsTask'
        BY <2>1 DEF SaveTx, Goto
  <2>4. QED BY <2>2, <2>3
<1>18. ASSUME NEW w \in Worker, NotifyEnd(w) PROVE TypeOK' /\ HoldsTask'
      BY <1>18 DEF NotifyEnd, Notify, Leave
<1>19. ASSUME NEW w \in Worker, DbFault(w) PROVE TypeOK' /\ HoldsTask'
      BY <1>19 DEF DbFault, Leave, Unlocked
<1>20. ASSUME NEW w \in Worker, CommitUnacked(w) PROVE TypeOK' /\ HoldsTask'
  <2>1. faults' = faults + 1 /\ Leave(w, "cycle") /\ UNCHANGED script
        BY <1>20 DEF CommitUnacked, ClaimTx, SaveTx
  <2>2. HoldsTask'
        BY <2>1 DEF Leave
  <2>3. CASE ClaimTx(w)
    <3>1. task[w] \in Task
          BY <2>3 DEF ClaimTx
    <3>2. /\ status' \in [Task -> Statuses]
          /\ lockedBy' \in [Task -> Worker \cup {NoWorker}]
          /\ reports' \in [Task -> Seq(Statuses)]
          /\ rowLock' \in [Task -> Worker \cup {NoWorker}]
          BY <2>3, <3>1 DEF ClaimTx, Reported, Unlocked
    <3>3. QED BY <2>1, <2>2, <2>3, <3>2 DEF ClaimTx, Leave
  <2>4. CASE SaveTx(w)
    <3>1. /\ status' \in [Task -> Statuses]
          /\ result' \in [Task -> {"none", "script", "unexpected"}]
          /\ errortext' \in [Task -> BOOLEAN]
          /\ reports' \in [Task -> Seq(Statuses)]
          /\ rowLock' \in [Task -> Worker \cup {NoWorker}]
          BY ONLY TypeOK, HoldsTask, <2>4, SaveTxTyped
    <3>2. /\ UNCHANGED <<created, queue, args, script, clock, lockedBy>>
          /\ UNCHANGED <<notices, starts, crashes>>
          BY <2>4 DEF SaveTx
    <3>3. QED BY <2>1, <2>2, <3>1, <3>2 DEF Leave
  <2>5. QED BY <1>20, <2>3, <2>4 DEF CommitUnacked
<1>21. ASSUME NEW w \in Worker, RecoverFault(w) PROVE TypeOK' /\ HoldsTask'
      BY <1>21 DEF RecoverFault, Goto
<1>22. ASSUME NEW w \in Worker, Crash(w) PROVE TypeOK' /\ HoldsTask'
      BY <1>22 DEF Crash, Leave, Unlocked
<1>23. ASSUME NEW w \in Worker, Idle(w) PROVE TypeOK' /\ HoldsTask'
      BY <1>23 DEF Idle, vars
<1>24. ASSUME NEW w \in Worker, DeadlockVictim(w) PROVE TypeOK' /\ HoldsTask'
      BY <1>24 DEF DeadlockVictim, Leave, Unlocked
<1>25. ASSUME NEW w \in Worker, ScriptFalsy(w) PROVE TypeOK' /\ HoldsTask'
      BY <1>25 DEF ScriptFalsy, Goto
<1>26. QED
      BY <1>1, <1>2, <1>3, <1>4, <1>5, <1>6, <1>7, <1>8, <1>9, <1>10, <1>11,
         <1>12, <1>13, <1>14, <1>15, <1>16, <1>17, <1>18, <1>19, <1>20, <1>21,
         <1>22, <1>23, <1>24, <1>25
         DEF Next, Api, Step, Failure

(* Every variable keeps its type, in particular a worker that acts on a task
   has one. *)
THEOREM TypeCorrect == Spec => []TypeOK
<1>1. TypeOK /\ HoldsTask /\ [Next]_vars => (TypeOK /\ HoldsTask)'
      BY TypeStep
<1>2. QED BY InitTyped, <1>1, PTL DEF Spec

-------------------------------------------------------------------------------
(* What protects a task from its claim to its verdict. *)
Safe == ClaimIsLocked /\ ClaimIsOwned /\ CalledInBetween /\ AtMostOnce

LEMMA InitSafe == Init => Safe
BY DEF Init, Safe, ClaimIsLocked, ClaimIsOwned, CalledInBetween, AtMostOnce, Running

(* The inductive step of Safe, one step per action. *)
LEMMA SafeStep == TypeOK /\ HoldsTask /\ Safe /\ [Next]_vars => Safe'
<1> SUFFICES ASSUME TypeOK, HoldsTask, Safe, [Next]_vars
             PROVE  Safe'
    OBVIOUS
<1> USE SentinelsAreNew
        DEF TypeOK, HoldsTask, Safe, ClaimIsLocked, ClaimIsOwned,
            CalledInBetween, AtMostOnce, Statuses, PCs, Running, Ended,
            apiVars, rowVars, workerVars, outside
<1>1. CASE UNCHANGED vars
      BY <1>1 DEF vars
<1>2. ASSUME NEW t \in Task, Stamp(t) PROVE Safe'
      BY <1>2 DEF Stamp
<1>3. ASSUME NEW t \in Task, Insert(t) PROVE Safe'
      BY <1>3 DEF Insert
<1>4. ASSUME NEW w \in Worker, Start(w) PROVE Safe'
      BY <1>4 DEF Start, Goto
<1>5. ASSUME NEW w \in Worker, EnsureAlive(w) PROVE Safe'
      BY <1>5 DEF EnsureAlive, Goto
<1>6. ASSUME NEW w \in Worker, Recover(w) PROVE Safe'
      BY <1>6 DEF Recover, Goto, LeftWorking
<1>7. ASSUME NEW w \in Worker, Select(w) PROVE Safe'
      BY <1>7 DEF Select
<1>8. ASSUME NEW w \in Worker, NEW t \in Task, TakeRow(w, t) PROVE Safe'
      BY <1>8 DEF TakeRow, Lock, Requalifies, MayLock
<1>9. ASSUME NEW w \in Worker, NEW t \in Task, SkipRow(w, t) PROVE Safe'
      BY <1>9 DEF SkipRow, Lock, MayLock
<1>10. ASSUME NEW w \in Worker, BadArgs(w) PROVE Safe'
      BY <1>10 DEF BadArgs, Leave
<1>11. ASSUME NEW w \in Worker, ClaimCommit(w) PROVE Safe'
      BY <1>11 DEF ClaimCommit, ClaimTx, Goto, Unlocked
<1>12. ASSUME NEW w \in Worker, NotifyWorking(w) PROVE Safe'
      BY <1>12 DEF NotifyWorking, Notify, Goto
<1>13. ASSUME NEW w \in Worker, CallScript(w) PROVE Safe'
      BY <1>13 DEF CallScript, Goto
<1>14. ASSUME NEW w \in Worker, ScriptMissing(w) PROVE Safe'
      BY <1>14 DEF ScriptMissing, Goto
<1>15. ASSUME NEW w \in Worker, ScriptBroken(w) PROVE Safe'
      BY <1>15 DEF ScriptBroken, Leave
<1>16. ASSUME NEW w \in Worker, ScriptEnds(w) PROVE Safe'
      BY <1>16 DEF ScriptEnds, Verdicts, Goto
<1>17. ASSUME NEW w \in Worker, SaveCommit(w) PROVE Safe'
      BY <1>17 DEF SaveCommit, SaveTx, Outcome, Goto, Unlocked
<1>18. ASSUME NEW w \in Worker, NotifyEnd(w) PROVE Safe'
      BY <1>18 DEF NotifyEnd, Notify, Leave
<1>19. ASSUME NEW w \in Worker, DbFault(w) PROVE Safe'
      BY <1>19 DEF DbFault, Leave, Unlocked
<1>20. ASSUME NEW w \in Worker, CommitUnacked(w) PROVE Safe'
      BY <1>20 DEF CommitUnacked, ClaimTx, SaveTx, Outcome, Leave, Unlocked
<1>21. ASSUME NEW w \in Worker, RecoverFault(w) PROVE Safe'
      BY <1>21 DEF RecoverFault, Goto
<1>22. ASSUME NEW w \in Worker, Crash(w) PROVE Safe'
      BY <1>22 DEF Crash, Leave, Unlocked
<1>23. ASSUME NEW w \in Worker, Idle(w) PROVE Safe'
      BY <1>23 DEF Idle, vars
<1>24. ASSUME NEW w \in Worker, DeadlockVictim(w) PROVE Safe'
      BY <1>24 DEF DeadlockVictim, Leave, Unlocked
<1>25. ASSUME NEW w \in Worker, ScriptFalsy(w) PROVE Safe'
  <2>1. /\ pc[w] = "load" /\ pc' = [pc EXCEPT ![w] = "save"] /\ out[w] = "none"
        /\ UNCHANGED <<status, starts, lockedBy, rowLock, out, task>>
        BY <1>25 DEF ScriptFalsy, Goto
  <2>2. ClaimIsLocked' /\ ClaimIsOwned' /\ AtMostOnce'
        BY <2>1
  <2>3. CalledInBetween'
        BY <2>1
  <2>4. QED BY <2>2, <2>3
<1>26. QED
      BY <1>1, <1>2, <1>3, <1>4, <1>5, <1>6, <1>7, <1>8, <1>9, <1>10, <1>11, <1>12, <1>13, <1>14, <1>15, <1>16, <1>17, <1>18, <1>19, <1>20, <1>21, <1>22, <1>23, <1>24, <1>25
         DEF Next, Api, Step, Failure

LEMMA SafeAlways == Spec => [](TypeOK /\ HoldsTask /\ Safe)
<1> DEFINE All == TypeOK /\ HoldsTask /\ Safe
<1>1. Init => All
      BY InitTyped, InitSafe
<1>2. All /\ [Next]_vars => All'
      BY TypeStep, SafeStep
<1>3. QED BY <1>1, <1>2, PTL DEF Spec

(* No script is called twice, for any number of workers on any queues and any
   number of crashes and database errors. *)
THEOREM CalledAtMostOnce == Spec => []AtMostOnce
<1>1. Safe => AtMostOnce
      BY DEF Safe
<1>2. QED BY <1>1, SafeAlways, PTL

(* Two workers are never in the cycle of one task: both would own its row. *)
THEOREM NeverTwoRunners == Spec => []OneRunner
<1>1. Safe => OneRunner
      BY DEF Safe, ClaimIsOwned, OneRunner
<1>2. QED BY <1>1, SafeAlways, PTL

(* No step of any worker changes what an ended task says. *)
THEOREM VerdictsAreFinal == Spec => TerminalIsFinal
<1>1. TypeOK /\ HoldsTask /\ Safe /\ [Next]_vars =>
        [\A t \in Task : status[t] \in Ended =>
            /\ status'[t] = status[t]
            /\ result'[t] = result[t]
            /\ errortext'[t] = errortext[t]]_vars
  <2> SUFFICES ASSUME TypeOK, HoldsTask, Safe, Next, NEW t \in Task,
                      status[t] \in Ended
               PROVE  /\ status'[t] = status[t]
                      /\ result'[t] = result[t]
                      /\ errortext'[t] = errortext[t]
      OBVIOUS
  <2> USE DEF Ended, rowVars
  <2>0. /\ status \in [Task -> Statuses] /\ errortext \in [Task -> BOOLEAN]
        /\ result \in [Task -> {"none", "script", "unexpected"}]
        BY DEF TypeOK
  <2>1. CASE Api
        BY <2>1 DEF Api, Stamp, Insert, TypeOK
  <2>2. ASSUME NEW w \in Worker, Recover(w)
        PROVE  /\ status'[t] = status[t]
               /\ result'[t] = result[t]
               /\ errortext'[t] = errortext[t]
        BY <2>2 DEF Recover, LeftWorking
  <2>3. ASSUME NEW w \in Worker, ClaimTx(w)
        PROVE  /\ status'[t] = status[t]
               /\ result'[t] = result[t]
               /\ errortext'[t] = errortext[t]
        BY <2>3 DEF ClaimTx, Safe, ClaimIsLocked, TypeOK
  <2>4. ASSUME NEW w \in Worker, SaveTx(w)
        PROVE  /\ status'[t] = status[t]
               /\ result'[t] = result[t]
               /\ errortext'[t] = errortext[t]
    <3>1. task[w] # t
          BY <2>4 DEF SaveTx, Safe, ClaimIsOwned, Running
    <3>2. /\ status' = status \/ \E s : status' = [status EXCEPT ![task[w]] = s]
          /\ result' = result \/ \E s : result' = [result EXCEPT ![task[w]] = s]
          /\ errortext' = errortext
                \/ \E s : errortext' = [errortext EXCEPT ![task[w]] = s]
          BY <2>4, SaveTxCases
    <3>3. QED BY <3>1, <3>2, <2>0, Zenon
  <2>5. CASE UNCHANGED <<status, result, errortext>>
        BY <2>5
  <2>6. QED
    <3>1. ASSUME NEW w \in Worker, Step(w) \/ Failure(w),
                 ~Recover(w), ~ClaimTx(w), ~SaveTx(w)
          PROVE  UNCHANGED <<status, result, errortext>>
          BY <3>1 DEF Step, Failure, Idle, Select, TakeRow, SkipRow, BadArgs,
             ClaimCommit, NotifyWorking, Notify, CallScript, ScriptMissing,
             ScriptFalsy, ScriptBroken, ScriptEnds, SaveCommit, NotifyEnd, DbFault,
             CommitUnacked, RecoverFault, Crash, DeadlockVictim, vars
    <3>2. ASSUME NEW w \in Worker, Start(w) \/ EnsureAlive(w)
          PROVE  UNCHANGED <<status, result, errortext>>
          BY <3>2 DEF Start, EnsureAlive
    <3>3. QED BY <2>1, <2>2, <2>3, <2>4, <2>5, <3>1, <3>2 DEF Next
<1>2. QED BY <1>1, SafeAlways, PTL DEF Spec, TerminalIsFinal

-------------------------------------------------------------------------------
(* Every step of the queue is a step of the life cycle, or leaves the status
   and the calls alone. *)
LEMMA StepSimulation ==
    TypeOK /\ HoldsTask /\ Safe /\ [Next]_vars => [L!Next]_(L!vars)
<1> SUFFICES ASSUME TypeOK, HoldsTask, Safe, [Next]_vars
             PROVE  L!Next \/ UNCHANGED <<status, starts>>
    BY DEF L!vars
<1> USE DEF rowVars, outside
<1>1. ASSUME NEW t \in Task, Insert(t) PROVE L!Submit(t)
      BY <1>1 DEF Insert, L!Submit
<1>2. ASSUME NEW w \in Worker, Recover(w) PROVE L!Fail(LeftWorking(w))
      BY <1>2 DEF Recover, LeftWorking, L!Fail
<1>3. ASSUME NEW w \in Worker, ClaimTx(w) PROVE L!Claim(task[w])
      BY <1>3 DEF ClaimTx, L!Claim, Safe, ClaimIsLocked
<1>4. ASSUME NEW w \in Worker, CallScript(w) PROVE L!Call(task[w])
  <2>1. status[task[w]] = "working" /\ starts[task[w]] = 0
        BY <1>4 DEF CallScript, Safe, ClaimIsOwned, CalledInBetween, Running
  <2>2. QED BY <1>4, <2>1 DEF CallScript, L!Call
<1>5. ASSUME NEW w \in Worker, SaveTx(w)
      PROVE  \/ L!Finish(task[w]) \/ L!Fail({task[w]})
             \/ UNCHANGED <<status, starts>>
  <2>1. status[task[w]] = "working" /\ starts' = starts
        BY <1>5 DEF SaveTx, Safe, ClaimIsOwned, Running
  <2>2. CASE out[w] = "finished"
    <3>1. starts[task[w]] = 1
          BY <1>5, <2>2 DEF SaveTx, Safe, CalledInBetween
    <3>2. status' = [status EXCEPT ![task[w]] = "finished"]
          BY <1>5, <2>2, SaveTxCases
    <3>3. QED BY <2>1, <3>1, <3>2 DEF L!Finish
  <2>3. CASE out[w] = "failed"
    <3>1. status' = [t \in Task |-> IF t \in {task[w]} THEN "failed" ELSE status[t]]
          BY <1>5, <2>3, SaveTxCases DEF TypeOK
    <3>2. QED BY <2>1, <3>1 DEF L!Fail
  <2>4. CASE out[w] = "none"
        BY <1>5, <2>1, <2>4, SaveTxCases
  <2>5. QED BY <1>5, <2>2, <2>3, <2>4, SaveTxCases
<1>6. ASSUME NEW t \in Task, Stamp(t) PROVE UNCHANGED <<status, starts>>
      BY <1>6 DEF Stamp
<1>7. ASSUME NEW w \in Worker, Start(w) \/ EnsureAlive(w)
      PROVE  UNCHANGED <<status, starts>>
      BY <1>7 DEF Start, EnsureAlive
<1>8. ASSUME NEW w \in Worker, Step(w) \/ Failure(w),
             ~Recover(w), ~ClaimTx(w), ~CallScript(w), ~SaveTx(w)
      PROVE  UNCHANGED <<status, starts>>
      BY <1>8 DEF Step, Failure, Idle, Select, TakeRow, SkipRow, BadArgs,
         ClaimCommit, NotifyWorking, Notify, ScriptMissing, ScriptFalsy, ScriptBroken,
         ScriptEnds, SaveCommit, NotifyEnd, DbFault, CommitUnacked,
         RecoverFault, Crash, DeadlockVictim, vars
<1>9. ASSUME NEW w \in Worker, Recover(w) \/ ClaimTx(w) \/ CallScript(w) \/ SaveTx(w)
      PROVE  L!Next \/ UNCHANGED <<status, starts>>
  <2>1. pc[w] \in Running \cup {"claimed"} => task[w] \in Task
        BY DEF HoldsTask
  <2>2. CASE Recover(w)
        BY <1>2, <2>2 DEF L!Next, LeftWorking
  <2>3. CASE ClaimTx(w)
        BY <1>3, <2>1, <2>3 DEF ClaimTx, L!Next
  <2>4. CASE CallScript(w)
        BY <1>4, <2>1, <2>4 DEF CallScript, Running, L!Next
  <2>5. CASE SaveTx(w)
        BY <1>5, <2>1, <2>5 DEF SaveTx, Running, L!Next
  <2>6. QED BY <1>9, <2>2, <2>3, <2>4, <2>5
<1>10. CASE UNCHANGED vars
       BY <1>10 DEF vars
<1>11. CASE Next
  <2>1. CASE Api
        BY <1>1, <1>6, <2>1 DEF Api, L!Next
  <2>2. CASE \E w \in Worker : Start(w) \/ EnsureAlive(w) \/ Step(w) \/ Failure(w)
        BY <1>7, <1>8, <1>9, <2>2
  <2>3. QED BY <1>11, <2>1, <2>2 DEF Next
<1>12. QED BY <1>10, <1>11

(* The queue implements TaskLifecycle for all parameters: what a client of the
   API sees of a task is one claim, one call and one verdict, in that order. *)
THEOREM ImplementsLifecycle == Spec => LifecycleSpec
<1>1. Init => L!Init
      BY DEF Init, L!Init
<1>2. QED BY <1>1, StepSimulation, SafeAlways, PTL DEF Spec, LifecycleSpec, L!Spec

===============================================================================
