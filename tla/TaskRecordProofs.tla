---------------------------- MODULE TaskRecordProofs ----------------------------
(***************************************************************************)
(* Proofs that what the queue records about a task is true: the columns of *)
(* its row, its reports, its locks and the order in which it is taken.     *)
(***************************************************************************)
EXTENDS TaskQueueProofs, SequenceTheorems

(* A row without a verdict has neither a result nor an error text. *)
NoEarlyResult ==
    \A t \in Task : status[t] \in {"absent", "enqueued", "working"} =>
        result[t] = "none" /\ ~errortext[t]

RowStory == NoEarlyResult /\ VerdictIsBacked

(* What the notifier can have been told when the worker comes to tell it. *)
NoticeStory ==
    /\ \A t \in Task :
          /\ status[t] \in {"absent", "enqueued"} => notices[t] = <<>>
          /\ status[t] = "working" =>
                \/ notices[t] \in {<<>>, <<"working">>}
                \/ script[t] = "falsy" /\ notices[t] = <<"working", "working">>
    /\ \A w \in Worker :
          /\ pc[w] = "notify1" => notices[task[w]] = <<>>
          /\ pc[w] \in Running \cup {"notify2"} =>
                notices[task[w]] \in {<<>>, <<"working">>}
          /\ pc[w] = "notify2" =>
                /\ \/ status[task[w]] \in Ended
                   \/ status[task[w]] = "working" /\ script[task[w]] = "falsy"
                /\ lockedBy[task[w]] = w
    /\ NoticesInOrder

(* The reports of a task whose verdict is to come: the claim's. *)
ReportedOnce ==
    \A w \in Worker : pc[w] \in Running => reports[task[w]] = <<"working">>

(* What ReportsTrackRow says of one task. *)
Tells(t) ==
    \/ reports[t] = Story(status[t], errortext[t])
    \/ /\ script[t] = "falsy"
       /\ Story(status[t], errortext[t]) = <<"working">>
       /\ reports[t] = <<"working", "working">>

ReportStory == RowStory /\ ReportedOnce /\ \A t \in Task : Tells(t)

(* Row locks are held while polling and claiming only. *)
LockFree ==
    \A w \in Worker : pc[w] \notin {"cycle", "locking", "claimed"} =>
        \A t \in Task : rowLock[t] # w

(* Rows of a snapshot exist; the ones passed over are no longer enqueued. *)
SnapshotOrder ==
    /\ \A w \in Worker :
          /\ cand[w] \subseteq seen[w]
          /\ \A u \in seen[w] : status[u] # "absent"
          /\ pc[w] = "locking" =>
                \A u \in seen[w] \ cand[w] : status[u] # "enqueued"
    /\ OldestFirst

-------------------------------------------------------------------------------
(* A verdict comes with its reason, one step per action. *)
LEMMA RowStoryStep ==
    TypeOK /\ HoldsTask /\ Safe /\ RowStory /\ [Next]_vars => RowStory'
<1> SUFFICES ASSUME TypeOK, HoldsTask, Safe, RowStory, [Next]_vars
             PROVE  RowStory'
    OBVIOUS
<1> USE SentinelsAreNew
        DEF TypeOK, HoldsTask, Safe, ClaimIsLocked, ClaimIsOwned, CalledInBetween,
            AtMostOnce, Statuses, PCs, Running, Ended, apiVars, rowVars, workerVars, outside,
            RowStory, NoEarlyResult, VerdictIsBacked
<1>1. CASE UNCHANGED vars
      BY <1>1 DEF vars
<1>2. ASSUME NEW t \in Task, Stamp(t) PROVE RowStory'
      BY <1>2 DEF Stamp
<1>3. ASSUME NEW t \in Task, Insert(t) PROVE RowStory'
      BY <1>3 DEF Insert
<1>4. ASSUME NEW w \in Worker, Start(w) PROVE RowStory'
      BY <1>4 DEF Start, Goto
<1>5. ASSUME NEW w \in Worker, EnsureAlive(w) PROVE RowStory'
      BY <1>5 DEF EnsureAlive, Goto
<1>6. ASSUME NEW w \in Worker, Recover(w) PROVE RowStory'
      BY <1>6 DEF Recover, Goto, LeftWorking, RecoveryResult
<1>7. ASSUME NEW w \in Worker, Select(w) PROVE RowStory'
      BY <1>7 DEF Select, Visible
<1>8. ASSUME NEW w \in Worker, NEW t \in Task, TakeRow(w, t) PROVE RowStory'
      BY <1>8 DEF TakeRow, Lock, Requalifies, MayLock, First
<1>9. ASSUME NEW w \in Worker, NEW t \in Task, SkipRow(w, t) PROVE RowStory'
      BY <1>9 DEF SkipRow, Lock, Requalifies, MayLock
<1>10. ASSUME NEW w \in Worker, BadArgs(w) PROVE RowStory'
      BY <1>10 DEF BadArgs, Leave
<1>11. ASSUME NEW w \in Worker, ClaimCommit(w) PROVE RowStory'
      BY <1>11 DEF ClaimCommit, ClaimTx, Goto, Unlocked, Reported
<1>12. ASSUME NEW w \in Worker, NotifyWorking(w) PROVE RowStory'
      BY <1>12 DEF NotifyWorking, Notify, Goto
<1>13. ASSUME NEW w \in Worker, CallScript(w) PROVE RowStory'
      BY <1>13 DEF CallScript, Goto
<1>14. ASSUME NEW w \in Worker, ScriptMissing(w) PROVE RowStory'
      BY <1>14 DEF ScriptMissing, Goto
<1>15. ASSUME NEW w \in Worker, ScriptBroken(w) PROVE RowStory'
      BY <1>15 DEF ScriptBroken, Leave
<1>16. ASSUME NEW w \in Worker, ScriptEnds(w) PROVE RowStory'
      BY <1>16 DEF ScriptEnds, Verdicts, Goto
<1>17. ASSUME NEW w \in Worker, SaveCommit(w) PROVE RowStory'
      BY <1>17 DEF SaveCommit, SaveTx, Outcome, Goto, Unlocked, Reported
<1>18. ASSUME NEW w \in Worker, NotifyEnd(w) PROVE RowStory'
      BY <1>18 DEF NotifyEnd, Notify, Leave
<1>19. ASSUME NEW w \in Worker, DbFault(w) PROVE RowStory'
      BY <1>19 DEF DbFault, Leave, Unlocked
<1>20. ASSUME NEW w \in Worker, CommitUnacked(w) PROVE RowStory'
  <2>1. CASE ClaimTx(w)
        BY <1>20, <2>1 DEF CommitUnacked, ClaimTx, Leave, Unlocked, Reported
  <2>2. CASE SaveTx(w)
        BY <1>20, <2>2 DEF CommitUnacked, SaveTx, Outcome, Leave, Unlocked, Reported
  <2>3. QED BY <1>20, <2>1, <2>2 DEF CommitUnacked
<1>21. ASSUME NEW w \in Worker, RecoverFault(w) PROVE RowStory'
      BY <1>21 DEF RecoverFault, Goto
<1>22. ASSUME NEW w \in Worker, Crash(w) PROVE RowStory'
      BY <1>22 DEF Crash, Leave, Unlocked
<1>23. ASSUME NEW w \in Worker, Idle(w) PROVE RowStory'
      BY <1>23 DEF Idle, vars
<1>24. ASSUME NEW w \in Worker, DeadlockVictim(w) PROVE RowStory'
      BY <1>24 DEF DeadlockVictim, Leave, Unlocked
<1>25. ASSUME NEW w \in Worker, ScriptFalsy(w) PROVE RowStory'
      BY <1>25 DEF ScriptFalsy, Goto
<1>26. QED
      BY <1>1, <1>2, <1>3, <1>4, <1>5, <1>6, <1>7, <1>8, <1>9, <1>10, <1>11, <1>12,
         <1>13, <1>14, <1>15, <1>16, <1>17, <1>18, <1>19, <1>20, <1>21, <1>22, <1>23, <1>24,
         <1>25
         DEF Next, Api, Step, Failure

(* The sequences of statuses that occur are built from the left. *)
LEMMA AppendStatus ==
    ASSUME NEW s \in Statuses
    PROVE  Append(<<>>, s) = <<s>> /\ Append(<<"working">>, s) = <<"working", s>>
<1> DEFINE one == <<"working">>
<1>1. /\ <<>> \in Seq(Statuses) /\ <<s>> \in Seq(Statuses)
      /\ one \in Seq(Statuses) /\ <<"working", s>> \in Seq(Statuses)
      BY DEF Statuses
<1>2. Append(<<>>, s) = <<s>>
  <2>1. /\ Append(<<>>, s) \in Seq(Statuses) /\ Len(Append(<<>>, s)) = 1
        /\ Append(<<>>, s)[1] = s
        BY <1>1, AppendProperties
  <2>2. Len(<<s>>) = 1 /\ <<s>>[1] = s
        OBVIOUS
  <2>3. \A i \in 1 .. 1 : Append(<<>>, s)[i] = <<s>>[i]
        BY <2>1, <2>2
  <2>4. QED BY <1>1, <2>1, <2>2, <2>3, SeqEqual
<1>3. Append(one, s) = <<"working", s>>
  <2>1. /\ Append(one, s) \in Seq(Statuses) /\ Len(Append(one, s)) = 2
        /\ Append(one, s)[1] = one[1] /\ Append(one, s)[2] = s
        BY <1>1, AppendProperties
  <2>2. /\ Len(<<"working", s>>) = 2 /\ one[1] = "working"
        /\ <<"working", s>>[1] = "working" /\ <<"working", s>>[2] = s
        OBVIOUS
  <2>3. \A i \in 1 .. 2 : Append(one, s)[i] = <<"working", s>>[i]
        BY <2>1, <2>2
  <2>4. QED BY <1>1, <2>1, <2>2, <2>3, SeqEqual
<1>4. QED BY <1>2, <1>3

(* What the reports say of each kind of row. *)
LEMMA StoryCases ==
    ASSUME NEW e \in BOOLEAN
    PROVE  /\ Story("absent", e) = <<>> /\ Story("enqueued", e) = <<>>
           /\ Story("working", e) = <<"working">>
           /\ Story("finished", e) = <<"working", "finished">>
           /\ Story("failed", TRUE) = <<"working", "failed">>
           /\ Story("failed", FALSE) = <<"working">>
BY DEF Story

(* The claim's report is the first of the task. *)
LEMMA ClaimReported ==
    ASSUME TypeOK, HoldsTask, Safe, ReportStory, NEW w \in Worker, ClaimTx(w)
    PROVE  reports' = [reports EXCEPT ![task[w]] = <<"working">>]
<1>1. task[w] \in Task /\ status[task[w]] = "enqueued"
      BY DEF ClaimTx, Safe, ClaimIsLocked, HoldsTask
<1>2. reports[task[w]] = <<>>
  <2>1. errortext[task[w]] \in BOOLEAN
        BY <1>1 DEF TypeOK
  <2>2. Story(status[task[w]], errortext[task[w]]) = <<>>
        BY <1>1, <2>1, StoryCases
  <2>3. QED BY <1>1, <2>2 DEF ReportStory, Tells
<1>3. reports' = [reports EXCEPT ![task[w]] = Append(reports[task[w]], "working")]
      BY DEF ClaimTx, Reported
<1>4. QED BY <1>2, <1>3, AppendStatus DEF Statuses

(* The report of the final commit is the second and last. *)
LEMMA SaveReported ==
    ASSUME TypeOK, HoldsTask, Safe, ReportStory, NEW w \in Worker, SaveTx(w)
    PROVE  reports' = [reports EXCEPT ![task[w]] = <<"working", Outcome(w)>>]
<1>1. task[w] \in Task /\ Outcome(w) \in Statuses
      BY SaveTxCases DEF TypeOK, Outcome, Statuses
<1>2. reports[task[w]] = <<"working">>
      BY DEF SaveTx, ReportStory, ReportedOnce, Running
<1>3. reports' = [reports EXCEPT ![task[w]] = Append(reports[task[w]], Outcome(w))]
      BY DEF SaveTx, Reported
<1>4. QED BY <1>1, <1>2, <1>3, AppendStatus

(* What is said of a task that a step does not touch stays as true as it was. *)
LEMMA TellsKept ==
    ASSUME NEW t \in Task, Tells(t), script' = script, reports'[t] = reports[t],
           status'[t] = status[t], errortext'[t] = errortext[t]
    PROVE  Tells(t)'
BY DEF Tells

(* A claim and its report are committed together. *)
LEMMA ClaimStory ==
    ASSUME TypeOK, HoldsTask, Safe, ReportStory, NEW w \in Worker, ClaimTx(w),
           NEW t \in Task
    PROVE  Tells(t)'
<1>1. task[w] \in Task /\ status' = [status EXCEPT ![task[w]] = "working"]
      /\ errortext' = errortext /\ script' = script
      BY DEF ClaimTx, HoldsTask, apiVars
<1>2. CASE t = task[w]
  <2>1. status'[t] = "working" /\ reports'[t] = <<"working">>
        BY <1>1, <1>2, ClaimReported DEF TypeOK
  <2>2. errortext'[t] \in BOOLEAN
        BY <1>1 DEF TypeOK
  <2>3. QED BY <2>1, <2>2, StoryCases DEF Tells
<1>3. CASE t # task[w]
  <2>1. /\ status'[t] = status[t] /\ reports'[t] = reports[t]
        /\ errortext'[t] = errortext[t]
        BY <1>1, <1>3, ClaimReported DEF TypeOK
  <2>2. QED BY <1>1, <2>1, TellsKept DEF ReportStory
<1>4. QED BY <1>2, <1>3

(* So are a verdict and its report; without a verdict, "working" is reported
   a second time. *)
LEMMA SaveStory ==
    ASSUME TypeOK, HoldsTask, Safe, ReportStory, NEW w \in Worker, SaveTx(w),
           NEW t \in Task
    PROVE  Tells(t)'
<1>1. task[w] \in Task /\ status[task[w]] = "working" /\ script' = script
      BY SaveTxCases DEF SaveTx, Safe, ClaimIsOwned, Running, apiVars
<1>2. CASE t = task[w]
  <2>1. reports'[t] = <<"working", Outcome(w)>>
        BY <1>1, <1>2, SaveReported DEF TypeOK
  <2>2. CASE out[w] = "finished"
    <3>1. status'[t] = "finished" /\ errortext'[t] \in BOOLEAN
          BY <1>1, <1>2, <2>2, SaveTxCases DEF TypeOK
    <3>2. QED BY <2>1, <2>2, <3>1, StoryCases DEF Tells, Outcome
  <2>3. CASE out[w] = "failed"
    <3>1. status'[t] = "failed"
          BY <1>1, <1>2, <2>3, SaveTxCases DEF TypeOK
    <3>2. errortext'[t] = TRUE
          BY <1>1, <1>2, <2>3, SaveTxCases DEF TypeOK
    <3>3. QED BY <2>1, <2>3, <3>1, <3>2, StoryCases DEF Tells, Outcome
  <2>4. CASE out[w] = "none" /\ script[task[w]] = "falsy"
    <3>1. status'[t] = "working" /\ errortext'[t] \in BOOLEAN
          BY <1>1, <1>2, <2>4, SaveTxCases DEF TypeOK
    <3>2. Story(status'[t], errortext'[t]) = <<"working">>
          BY <3>1, StoryCases
    <3>3. reports'[t] = <<"working", "working">>
          BY <1>1, <2>1, <2>4 DEF Outcome
    <3>4. QED BY <1>1, <1>2, <2>4, <3>2, <3>3 DEF Tells
  <2>5. QED BY <2>2, <2>3, <2>4, SaveTxCases
<1>3. CASE t # task[w]
  <2>1. /\ status' = status \/ \E s : status' = [status EXCEPT ![task[w]] = s]
        /\ errortext' = errortext
              \/ \E s : errortext' = [errortext EXCEPT ![task[w]] = s]
        BY SaveTxCases
  <2>2. status \in [Task -> Statuses] /\ errortext \in [Task -> BOOLEAN]
        BY DEF TypeOK
  <2>3. status'[t] = status[t] /\ errortext'[t] = errortext[t]
        BY <1>3, <2>1, <2>2, Zenon
  <2>4. reports'[t] = reports[t]
        BY <1>1, <1>3, SaveReported DEF TypeOK
  <2>5. QED BY <1>1, <2>3, <2>4, TellsKept DEF ReportStory
<1>4. QED BY <1>2, <1>3

(* The recovery writes no report: the story of a row it fails stays that of a
   working one. *)
LEMMA RecoverStory ==
    ASSUME TypeOK, ReportStory, NEW w \in Worker, Recover(w), NEW t \in Task
    PROVE  Tells(t)'
<1>1. reports' = reports /\ errortext' = errortext /\ script' = script
      BY DEF Recover, apiVars
<1>2. CASE t \in LeftWorking(w)
  <2>1. status[t] = "working" /\ status'[t] = "failed"
        BY <1>2 DEF Recover, LeftWorking
  <2>2. errortext[t] = FALSE
        BY <2>1 DEF TypeOK, ReportStory, RowStory, NoEarlyResult
  <2>3. Story(status[t], errortext[t]) = Story(status'[t], errortext'[t])
        BY <1>1, <2>1, <2>2, StoryCases
  <2>4. Tells(t)
        BY DEF ReportStory
  <2>5. QED BY ONLY <1>1, <2>3, <2>4 DEF Tells
<1>3. CASE t \notin LeftWorking(w)
  <2>1. status'[t] = status[t]
        BY <1>3 DEF Recover
  <2>2. QED BY <1>1, <2>1, TellsKept DEF ReportStory
<1>4. QED BY <1>2, <1>3

(* Between the claim and the final commit nothing is reported. *)
LEMMA ReportedOnceStep ==
    TypeOK /\ HoldsTask /\ Safe /\ ReportStory /\ [Next]_vars => ReportedOnce'
<1> SUFFICES ASSUME TypeOK, HoldsTask, Safe, ReportStory, [Next]_vars,
                    NEW v \in Worker, pc'[v] \in Running
             PROVE  reports'[task'[v]] = <<"working">>
    BY DEF ReportedOnce
<1> USE DEF Running
<1>1. CASE UNCHANGED <<pc, task, reports>>
      BY <1>1 DEF ReportStory, ReportedOnce
<1>2. CASE reports' = reports /\ pc[v] \in Running /\ task'[v] = task[v]
      BY <1>2 DEF ReportStory, ReportedOnce
<1>3. ASSUME NEW w \in Worker, ClaimCommit(w)
      PROVE  reports'[task'[v]] = <<"working">>
  <2>1. /\ task[w] \in Task /\ pc[w] = "claimed" /\ pc' = [pc EXCEPT ![w] = "notify1"]
        /\ task' = task /\ reports' = [reports EXCEPT ![task[w]] = <<"working">>]
        BY <1>3, ClaimReported DEF ClaimCommit, ClaimTx, Goto, HoldsTask
  <2>2. CASE v = w
        BY <2>1, <2>2 DEF TypeOK
  <2>3. CASE v # w
    <3>1. pc[v] \in Running /\ reports[task[v]] = <<"working">> /\ task[v] \in Task
          BY <2>1, <2>3 DEF TypeOK, HoldsTask, ReportStory, ReportedOnce
    <3>2. QED BY <2>1, <3>1 DEF TypeOK
  <2>4. QED BY <2>2, <2>3
<1>4. ASSUME NEW w \in Worker, SaveTx(w),
             \/ pc' = [pc EXCEPT ![w] = "notify2"] /\ task' = task
             \/ /\ pc' = [pc EXCEPT ![w] = "cycle"]
                /\ task' = [task EXCEPT ![w] = NoTask]
      PROVE  reports'[task'[v]] = <<"working">>
  <2>1. v # w /\ pc[v] \in Running /\ task'[v] = task[v]
        BY <1>4 DEF TypeOK
  <2>2. task[v] # task[w] /\ task[v] \in Task /\ task[w] \in Task
        BY <1>4, <2>1 DEF SaveTx, Safe, ClaimIsOwned, HoldsTask
  <2>3. reports'[task[v]] = reports[task[v]]
        BY <1>4, <2>2 DEF SaveTx, Reported, TypeOK
  <2>4. QED BY <2>1, <2>3 DEF ReportStory, ReportedOnce
<1>5. ASSUME NEW w \in Worker, ClaimTx(w), Leave(w, "cycle")
      PROVE  reports'[task'[v]] = <<"working">>
  <2>1. v # w /\ pc[v] \in Running /\ task'[v] = task[v] /\ task[v] \in Task
        BY <1>5 DEF Leave, TypeOK, HoldsTask
  <2>2. task[w] \in Task /\ reports' = [reports EXCEPT ![task[w]] = <<"working">>]
        BY <1>5, ClaimReported DEF ClaimTx, HoldsTask
  <2>3. reports[task[v]] = <<"working">>
        BY <2>1 DEF ReportStory, ReportedOnce
  <2>4. QED BY <2>1, <2>2, <2>3 DEF TypeOK
<1>6. ASSUME NEW w \in Worker, SaveCommit(w)
      PROVE  reports'[task'[v]] = <<"working">>
      BY <1>4, <1>6 DEF SaveCommit, Goto
<1>7. ASSUME NEW w \in Worker, CommitUnacked(w)
      PROVE  reports'[task'[v]] = <<"working">>
      BY <1>4, <1>5, <1>7 DEF CommitUnacked, Leave
<1>8. CASE Api
      BY <1>1, <1>8 DEF Api, Stamp, Insert, rowVars, workerVars
<1>9. ASSUME NEW w \in Worker, Start(w) \/ EnsureAlive(w)
      PROVE  reports' = reports /\ pc[v] \in Running /\ task'[v] = task[v]
      BY <1>9 DEF Start, EnsureAlive, Goto, rowVars, TypeOK
<1>10. ASSUME NEW w \in Worker, Step(w) \/ Failure(w),
              ~ClaimCommit(w), ~SaveCommit(w), ~CommitUnacked(w)
       PROVE  reports' = reports /\ pc[v] \in Running /\ task'[v] = task[v]
  <2>1. CASE Recover(w) \/ Idle(w) \/ Select(w) \/ BadArgs(w)
        BY <2>1 DEF Recover, Idle, Select, BadArgs, Goto, Leave, rowVars, vars,
                    workerVars, TypeOK
  <2>2. CASE \E t \in Task : TakeRow(w, t) \/ SkipRow(w, t)
        BY <2>2 DEF TakeRow, SkipRow, Lock, rowVars, TypeOK
  <2>3. CASE NotifyWorking(w) \/ NotifyEnd(w)
        BY <2>3 DEF NotifyWorking, NotifyEnd, Notify, Goto, Leave, rowVars, TypeOK
  <2>4. CASE CallScript(w) \/ ScriptMissing(w) \/ ScriptFalsy(w) \/ ScriptBroken(w)
        BY <2>4 DEF CallScript, ScriptMissing, ScriptFalsy, ScriptBroken, Goto,
                    Leave, rowVars, TypeOK
  <2>5. CASE ScriptEnds(w) \/ DeadlockVictim(w)
        BY <2>5 DEF ScriptEnds, DeadlockVictim, Goto, Leave, rowVars, TypeOK
  <2>6. CASE DbFault(w) \/ RecoverFault(w) \/ Crash(w)
        BY <2>6 DEF DbFault, RecoverFault, Crash, Goto, Leave, rowVars, TypeOK
  <2>7. QED BY <1>10, <2>1, <2>2, <2>3, <2>4, <2>5, <2>6 DEF Step, Failure
<1>11. CASE UNCHANGED vars
       BY <1>1, <1>11 DEF vars, rowVars, workerVars
<1>12. QED BY <1>2, <1>3, <1>6, <1>7, <1>8, <1>9, <1>10, <1>11 DEF Next

(* Every status a flush commits is reported; nothing else reports. *)
LEMMA ReportStoryStep ==
    TypeOK /\ HoldsTask /\ Safe /\ ReportStory /\ [Next]_vars => ReportStory'
<1> SUFFICES ASSUME TypeOK, HoldsTask, Safe, ReportStory, [Next]_vars, NEW t \in Task
             PROVE  Tells(t)'
    BY RowStoryStep, ReportedOnceStep DEF ReportStory
<1>1. CASE UNCHANGED <<script, status, errortext, reports>>
      BY <1>1, TellsKept DEF ReportStory
<1>2. ASSUME NEW u \in Task, Insert(u) PROVE Tells(t)'
  <2>1. /\ status[u] = "absent" /\ status' = [status EXCEPT ![u] = "enqueued"]
        /\ reports' = reports /\ errortext' = errortext /\ script' = script
        BY <1>2 DEF Insert, apiVars
  <2>2. errortext[t] \in BOOLEAN /\ Tells(t)
        BY DEF TypeOK, ReportStory
  <2>3. CASE t = u
    <3>1. status'[t] = "enqueued"
          BY <2>1, <2>3 DEF TypeOK
    <3>2. Story(status[t], errortext[t]) = Story(status'[t], errortext'[t])
          BY <2>1, <2>2, <2>3, <3>1, StoryCases
    <3>3. QED BY ONLY <2>1, <2>2, <3>2 DEF Tells
  <2>4. CASE t # u
        BY <2>1, <2>2, <2>4, TellsKept DEF TypeOK
  <2>5. QED BY <2>3, <2>4
<1>3. ASSUME NEW w \in Worker, Recover(w) \/ ClaimTx(w) \/ SaveTx(w)
      PROVE  Tells(t)'
      BY <1>3, RecoverStory, ClaimStory, SaveStory
<1>4. CASE Api
      BY <1>1, <1>2, <1>4 DEF Api, Stamp, rowVars
<1>5. ASSUME NEW w \in Worker, Start(w) \/ EnsureAlive(w)
      PROVE  UNCHANGED <<script, status, errortext, reports>>
      BY <1>5 DEF Start, EnsureAlive, apiVars, rowVars
<1>6. ASSUME NEW w \in Worker, Step(w) \/ Failure(w),
             ~Recover(w), ~ClaimTx(w), ~SaveTx(w)
      PROVE  UNCHANGED <<script, status, errortext, reports>>
      BY <1>6 DEF Step, Failure, Idle, Select, TakeRow, SkipRow, BadArgs,
         ClaimCommit, NotifyWorking, Notify, CallScript, ScriptMissing,
         ScriptFalsy, ScriptBroken, ScriptEnds, SaveCommit, NotifyEnd, DbFault,
         CommitUnacked, RecoverFault, Crash, DeadlockVictim, vars, apiVars, rowVars
<1>7. CASE UNCHANGED vars
      BY <1>1, <1>7 DEF vars, apiVars, rowVars
<1>8. QED BY <1>1, <1>3, <1>4, <1>5, <1>6, <1>7 DEF Next

(* The first notification, when it is delivered, is the only one so far. *)
LEMMA WorkingNotified ==
    ASSUME TypeOK, HoldsTask, Safe, NoticeStory, NEW w \in Worker, NotifyWorking(w)
    PROVE  \/ notices' = notices
           \/ notices' = [notices EXCEPT ![task[w]] = <<"working">>]
<1>1. status[task[w]] = "working" /\ notices[task[w]] = <<>>
      BY DEF NotifyWorking, Safe, ClaimIsOwned, NoticeStory, Running
<1>2. \/ notices' = notices
      \/ notices' = [notices EXCEPT ![task[w]] = Append(notices[task[w]], status[task[w]])]
      BY DEF NotifyWorking, Notify
<1>3. QED BY <1>1, <1>2, AppendStatus DEF Statuses

(* The second one is the status at the end, after the first if that was delivered. *)
LEMMA EndNotified ==
    ASSUME TypeOK, HoldsTask, Safe, NoticeStory, NEW w \in Worker, NotifyEnd(w)
    PROVE  \/ notices' = notices
           \/ notices' = [notices EXCEPT ![task[w]] = <<status[task[w]]>>]
           \/ notices' = [notices EXCEPT ![task[w]] = <<"working", status[task[w]]>>]
<1>1. /\ status[task[w]] \in Ended \cup {"working"}
      /\ notices[task[w]] \in {<<>>, <<"working">>}
      BY DEF NotifyEnd, NoticeStory
<1>2. \/ notices' = notices
      \/ notices' = [notices EXCEPT ![task[w]] = Append(notices[task[w]], status[task[w]])]
      BY DEF NotifyEnd, Notify
<1>3. QED BY <1>1, <1>2, AppendStatus DEF Ended, Statuses

(* Notifications follow the row. *)
LEMMA NoticeStoryStep ==
    TypeOK /\ HoldsTask /\ Safe /\ NoticeStory /\ [Next]_vars => NoticeStory'
<1> SUFFICES ASSUME TypeOK, HoldsTask, Safe, NoticeStory, [Next]_vars
             PROVE  NoticeStory'
    OBVIOUS
<1> USE SentinelsAreNew
        DEF TypeOK, HoldsTask, Safe, ClaimIsLocked, ClaimIsOwned, CalledInBetween,
            AtMostOnce, Statuses, PCs, Running, Ended, apiVars, rowVars, workerVars, outside,
            NoticeStory, NoticesInOrder
<1>1. CASE UNCHANGED vars
      BY <1>1 DEF vars
<1>2. ASSUME NEW t \in Task, Stamp(t) PROVE NoticeStory'
      BY <1>2 DEF Stamp
<1>3. ASSUME NEW t \in Task, Insert(t) PROVE NoticeStory'
      BY <1>3 DEF Insert
<1>4. ASSUME NEW w \in Worker, Start(w) PROVE NoticeStory'
      BY <1>4 DEF Start, Goto
<1>5. ASSUME NEW w \in Worker, EnsureAlive(w) PROVE NoticeStory'
      BY <1>5 DEF EnsureAlive, Goto
<1>6. ASSUME NEW w \in Worker, Recover(w) PROVE NoticeStory'
      BY <1>6 DEF Recover, Goto, LeftWorking, RecoveryResult
<1>7. ASSUME NEW w \in Worker, Select(w) PROVE NoticeStory'
      BY <1>7 DEF Select, Visible
<1>8. ASSUME NEW w \in Worker, NEW t \in Task, TakeRow(w, t) PROVE NoticeStory'
      BY <1>8 DEF TakeRow, Lock, Requalifies, MayLock, First
<1>9. ASSUME NEW w \in Worker, NEW t \in Task, SkipRow(w, t) PROVE NoticeStory'
      BY <1>9 DEF SkipRow, Lock, Requalifies, MayLock
<1>10. ASSUME NEW w \in Worker, BadArgs(w) PROVE NoticeStory'
      BY <1>10 DEF BadArgs, Leave
<1>11. ASSUME NEW w \in Worker, ClaimCommit(w) PROVE NoticeStory'
      BY <1>11 DEF ClaimCommit, ClaimTx, Goto, Unlocked, Reported
<1>12. ASSUME NEW w \in Worker, NotifyWorking(w) PROVE NoticeStory'
  <2>1. /\ pc[w] = "notify1" /\ pc' = [pc EXCEPT ![w] = "load"] /\ UNCHANGED task
        /\ UNCHANGED <<status, lockedBy, script>>
        BY <1>12 DEF NotifyWorking, Notify, Goto
  <2>2. CASE notices' = notices
        BY <2>1, <2>2
  <2>3. CASE notices' = [notices EXCEPT ![task[w]] = <<"working">>]
        BY <2>1, <2>3
  <2>4. QED BY <1>12, <2>2, <2>3, WorkingNotified
<1>13. ASSUME NEW w \in Worker, CallScript(w) PROVE NoticeStory'
      BY <1>13 DEF CallScript, Goto
<1>14. ASSUME NEW w \in Worker, ScriptMissing(w) PROVE NoticeStory'
      BY <1>14 DEF ScriptMissing, Goto
<1>15. ASSUME NEW w \in Worker, ScriptBroken(w) PROVE NoticeStory'
      BY <1>15 DEF ScriptBroken, Leave
<1>16. ASSUME NEW w \in Worker, ScriptEnds(w) PROVE NoticeStory'
      BY <1>16 DEF ScriptEnds, Verdicts, Goto
<1>17. ASSUME NEW w \in Worker, SaveCommit(w) PROVE NoticeStory'
  <2>1. /\ pc[w] = "save" /\ pc' = [pc EXCEPT ![w] = "notify2"]
        /\ task[w] \in Task /\ status[task[w]] = "working"
        /\ UNCHANGED <<task, lockedBy, notices, script>>
        BY <1>17 DEF SaveCommit, SaveTx, Goto
  <2>2. \/ \E s \in Ended : status' = [status EXCEPT ![task[w]] = s]
        \/ status' = status /\ script[task[w]] = "falsy"
        BY <1>17, SaveTxCases DEF SaveCommit
  <2>3. CASE \E s \in Ended : status' = [status EXCEPT ![task[w]] = s]
        BY <2>1, <2>3
  <2>4. CASE status' = status /\ script[task[w]] = "falsy"
        BY <2>1, <2>4
  <2>5. QED BY <2>2, <2>3, <2>4
<1>18. ASSUME NEW w \in Worker, NotifyEnd(w) PROVE NoticeStory'
  <2>1. /\ pc[w] = "notify2" /\ pc' = [pc EXCEPT ![w] = "cycle"]
        /\ task' = [task EXCEPT ![w] = NoTask] /\ UNCHANGED <<status, lockedBy, script>>
        BY <1>18 DEF NotifyEnd, Notify, Leave
  <2>2. /\ task[w] \in Task /\ lockedBy[task[w]] = w
        /\ \/ status[task[w]] \in Ended
           \/ status[task[w]] = "working" /\ script[task[w]] = "falsy"
        BY <2>1
  <2>3. CASE notices' = notices
        BY <2>1, <2>3
  <2>4. CASE notices' = [notices EXCEPT ![task[w]] = <<status[task[w]]>>]
        BY <2>1, <2>2, <2>4
  <2>5. CASE notices' = [notices EXCEPT ![task[w]] = <<"working", status[task[w]]>>]
        BY <2>1, <2>2, <2>5
  <2>6. QED BY <1>18, <2>3, <2>4, <2>5, EndNotified
<1>19. ASSUME NEW w \in Worker, DbFault(w) PROVE NoticeStory'
      BY <1>19 DEF DbFault, Leave, Unlocked
<1>20. ASSUME NEW w \in Worker, CommitUnacked(w) PROVE NoticeStory'
  <2>1. CASE ClaimTx(w)
        BY <1>20, <2>1 DEF CommitUnacked, ClaimTx, Leave, Unlocked, Reported
  <2>2. CASE SaveTx(w)
        BY <1>20, <2>2 DEF CommitUnacked, SaveTx, Outcome, Leave, Unlocked, Reported
  <2>3. QED BY <1>20, <2>1, <2>2 DEF CommitUnacked
<1>21. ASSUME NEW w \in Worker, RecoverFault(w) PROVE NoticeStory'
      BY <1>21 DEF RecoverFault, Goto
<1>22. ASSUME NEW w \in Worker, Crash(w) PROVE NoticeStory'
      BY <1>22 DEF Crash, Leave, Unlocked
<1>23. ASSUME NEW w \in Worker, Idle(w) PROVE NoticeStory'
      BY <1>23 DEF Idle, vars
<1>24. ASSUME NEW w \in Worker, DeadlockVictim(w) PROVE NoticeStory'
      BY <1>24 DEF DeadlockVictim, Leave, Unlocked
<1>25. ASSUME NEW w \in Worker, ScriptFalsy(w) PROVE NoticeStory'
      BY <1>25 DEF ScriptFalsy, Goto
<1>26. QED
      BY <1>1, <1>2, <1>3, <1>4, <1>5, <1>6, <1>7, <1>8, <1>9, <1>10, <1>11, <1>12,
         <1>13, <1>14, <1>15, <1>16, <1>17, <1>18, <1>19, <1>20, <1>21, <1>22, <1>23, <1>24,
         <1>25
         DEF Next, Api, Step, Failure

(* Every end of a transaction gives up all its row locks. *)
LEMMA LockFreeStep ==
    TypeOK /\ HoldsTask /\ Safe /\ LockFree /\ [Next]_vars => LockFree'
<1> SUFFICES ASSUME TypeOK, HoldsTask, Safe, LockFree, [Next]_vars
             PROVE  LockFree'
    OBVIOUS
<1> USE SentinelsAreNew
        DEF TypeOK, HoldsTask, Safe, ClaimIsLocked, ClaimIsOwned, CalledInBetween,
            AtMostOnce, Statuses, PCs, Running, Ended, apiVars, rowVars, workerVars, outside,
            LockFree
<1>1. CASE UNCHANGED vars
      BY <1>1 DEF vars
<1>2. ASSUME NEW t \in Task, Stamp(t) PROVE LockFree'
      BY <1>2 DEF Stamp
<1>3. ASSUME NEW t \in Task, Insert(t) PROVE LockFree'
      BY <1>3 DEF Insert
<1>4. ASSUME NEW w \in Worker, Start(w) PROVE LockFree'
      BY <1>4 DEF Start, Goto
<1>5. ASSUME NEW w \in Worker, EnsureAlive(w) PROVE LockFree'
      BY <1>5 DEF EnsureAlive, Goto
<1>6. ASSUME NEW w \in Worker, Recover(w) PROVE LockFree'
      BY <1>6 DEF Recover, Goto, LeftWorking, RecoveryResult
<1>7. ASSUME NEW w \in Worker, Select(w) PROVE LockFree'
      BY <1>7 DEF Select, Visible
<1>8. ASSUME NEW w \in Worker, NEW t \in Task, TakeRow(w, t) PROVE LockFree'
      BY <1>8 DEF TakeRow, Lock, Requalifies, MayLock, First
<1>9. ASSUME NEW w \in Worker, NEW t \in Task, SkipRow(w, t) PROVE LockFree'
      BY <1>9 DEF SkipRow, Lock, Requalifies, MayLock
<1>10. ASSUME NEW w \in Worker, BadArgs(w) PROVE LockFree'
      BY <1>10 DEF BadArgs, Leave
<1>11. ASSUME NEW w \in Worker, ClaimCommit(w) PROVE LockFree'
      BY <1>11 DEF ClaimCommit, ClaimTx, Goto, Unlocked, Reported
<1>12. ASSUME NEW w \in Worker, NotifyWorking(w) PROVE LockFree'
      BY <1>12 DEF NotifyWorking, Notify, Goto
<1>13. ASSUME NEW w \in Worker, CallScript(w) PROVE LockFree'
      BY <1>13 DEF CallScript, Goto
<1>14. ASSUME NEW w \in Worker, ScriptMissing(w) PROVE LockFree'
      BY <1>14 DEF ScriptMissing, Goto
<1>15. ASSUME NEW w \in Worker, ScriptBroken(w) PROVE LockFree'
      BY <1>15 DEF ScriptBroken, Leave
<1>16. ASSUME NEW w \in Worker, ScriptEnds(w) PROVE LockFree'
      BY <1>16 DEF ScriptEnds, Verdicts, Goto
<1>17. ASSUME NEW w \in Worker, SaveCommit(w) PROVE LockFree'
      BY <1>17 DEF SaveCommit, SaveTx, Outcome, Goto, Unlocked, Reported
<1>18. ASSUME NEW w \in Worker, NotifyEnd(w) PROVE LockFree'
      BY <1>18 DEF NotifyEnd, Notify, Leave
<1>19. ASSUME NEW w \in Worker, DbFault(w) PROVE LockFree'
      BY <1>19 DEF DbFault, Leave, Unlocked
<1>20. ASSUME NEW w \in Worker, CommitUnacked(w) PROVE LockFree'
  <2>1. CASE ClaimTx(w)
        BY <1>20, <2>1 DEF CommitUnacked, ClaimTx, Leave, Unlocked, Reported
  <2>2. CASE SaveTx(w)
        BY <1>20, <2>2 DEF CommitUnacked, SaveTx, Outcome, Leave, Unlocked, Reported
  <2>3. QED BY <1>20, <2>1, <2>2 DEF CommitUnacked
<1>21. ASSUME NEW w \in Worker, RecoverFault(w) PROVE LockFree'
      BY <1>21 DEF RecoverFault, Goto
<1>22. ASSUME NEW w \in Worker, Crash(w) PROVE LockFree'
      BY <1>22 DEF Crash, Leave, Unlocked
<1>23. ASSUME NEW w \in Worker, Idle(w) PROVE LockFree'
      BY <1>23 DEF Idle, vars
<1>24. ASSUME NEW w \in Worker, DeadlockVictim(w) PROVE LockFree'
      BY <1>24 DEF DeadlockVictim, Leave, Unlocked
<1>25. ASSUME NEW w \in Worker, ScriptFalsy(w) PROVE LockFree'
      BY <1>25 DEF ScriptFalsy, Goto
<1>26. QED
      BY <1>1, <1>2, <1>3, <1>4, <1>5, <1>6, <1>7, <1>8, <1>9, <1>10, <1>11, <1>12,
         <1>13, <1>14, <1>15, <1>16, <1>17, <1>18, <1>19, <1>20, <1>21, <1>22, <1>23, <1>24,
         <1>25
         DEF Next, Api, Step, Failure

(* The SELECT walks its snapshot from the oldest row on. *)
LEMMA SnapshotStep ==
    TypeOK /\ HoldsTask /\ Safe /\ SnapshotOrder /\ [Next]_vars => SnapshotOrder'
<1> SUFFICES ASSUME TypeOK, HoldsTask, Safe, SnapshotOrder, [Next]_vars
             PROVE  SnapshotOrder'
    OBVIOUS
<1> USE SentinelsAreNew
        DEF TypeOK, HoldsTask, Safe, ClaimIsLocked, ClaimIsOwned, CalledInBetween,
            AtMostOnce, Statuses, PCs, Running, Ended, apiVars, rowVars, workerVars, outside,
            SnapshotOrder, OldestFirst
<1>1. CASE UNCHANGED vars
      BY <1>1 DEF vars
<1>2. ASSUME NEW t \in Task, Stamp(t) PROVE SnapshotOrder'
      BY <1>2 DEF Stamp
<1>3. ASSUME NEW t \in Task, Insert(t) PROVE SnapshotOrder'
      BY <1>3 DEF Insert
<1>4. ASSUME NEW w \in Worker, Start(w) PROVE SnapshotOrder'
      BY <1>4 DEF Start, Goto
<1>5. ASSUME NEW w \in Worker, EnsureAlive(w) PROVE SnapshotOrder'
      BY <1>5 DEF EnsureAlive, Goto
<1>6. ASSUME NEW w \in Worker, Recover(w) PROVE SnapshotOrder'
      BY <1>6 DEF Recover, Goto, LeftWorking, RecoveryResult
<1>7. ASSUME NEW w \in Worker, Select(w) PROVE SnapshotOrder'
      BY <1>7 DEF Select, Visible
<1>8. ASSUME NEW w \in Worker, NEW t \in Task, TakeRow(w, t) PROVE SnapshotOrder'
      BY <1>8 DEF TakeRow, Lock, Requalifies, MayLock, First
<1>9. ASSUME NEW w \in Worker, NEW t \in Task, SkipRow(w, t) PROVE SnapshotOrder'
      BY <1>9 DEF SkipRow, Lock, Requalifies, MayLock
<1>10. ASSUME NEW w \in Worker, BadArgs(w) PROVE SnapshotOrder'
      BY <1>10 DEF BadArgs, Leave
<1>11. ASSUME NEW w \in Worker, ClaimCommit(w) PROVE SnapshotOrder'
      BY <1>11 DEF ClaimCommit, ClaimTx, Goto, Unlocked, Reported
<1>12. ASSUME NEW w \in Worker, NotifyWorking(w) PROVE SnapshotOrder'
      BY <1>12 DEF NotifyWorking, Notify, Goto
<1>13. ASSUME NEW w \in Worker, CallScript(w) PROVE SnapshotOrder'
      BY <1>13 DEF CallScript, Goto
<1>14. ASSUME NEW w \in Worker, ScriptMissing(w) PROVE SnapshotOrder'
      BY <1>14 DEF ScriptMissing, Goto
<1>15. ASSUME NEW w \in Worker, ScriptBroken(w) PROVE SnapshotOrder'
      BY <1>15 DEF ScriptBroken, Leave
<1>16. ASSUME NEW w \in Worker, ScriptEnds(w) PROVE SnapshotOrder'
      BY <1>16 DEF ScriptEnds, Verdicts, Goto
<1>17. ASSUME NEW w \in Worker, SaveCommit(w) PROVE SnapshotOrder'
      BY <1>17 DEF SaveCommit, SaveTx, Outcome, Goto, Unlocked, Reported
<1>18. ASSUME NEW w \in Worker, NotifyEnd(w) PROVE SnapshotOrder'
      BY <1>18 DEF NotifyEnd, Notify, Leave
<1>19. ASSUME NEW w \in Worker, DbFault(w) PROVE SnapshotOrder'
      BY <1>19 DEF DbFault, Leave, Unlocked
<1>20. ASSUME NEW w \in Worker, CommitUnacked(w) PROVE SnapshotOrder'
  <2>1. CASE ClaimTx(w)
        BY <1>20, <2>1 DEF CommitUnacked, ClaimTx, Leave, Unlocked, Reported
  <2>2. CASE SaveTx(w)
        BY <1>20, <2>2 DEF CommitUnacked, SaveTx, Outcome, Leave, Unlocked, Reported
  <2>3. QED BY <1>20, <2>1, <2>2 DEF CommitUnacked
<1>21. ASSUME NEW w \in Worker, RecoverFault(w) PROVE SnapshotOrder'
      BY <1>21 DEF RecoverFault, Goto
<1>22. ASSUME NEW w \in Worker, Crash(w) PROVE SnapshotOrder'
      BY <1>22 DEF Crash, Leave, Unlocked
<1>23. ASSUME NEW w \in Worker, Idle(w) PROVE SnapshotOrder'
      BY <1>23 DEF Idle, vars
<1>24. ASSUME NEW w \in Worker, DeadlockVictim(w) PROVE SnapshotOrder'
      BY <1>24 DEF DeadlockVictim, Leave, Unlocked
<1>25. ASSUME NEW w \in Worker, ScriptFalsy(w) PROVE SnapshotOrder'
      BY <1>25 DEF ScriptFalsy, Goto
<1>26. QED
      BY <1>1, <1>2, <1>3, <1>4, <1>5, <1>6, <1>7, <1>8, <1>9, <1>10, <1>11, <1>12,
         <1>13, <1>14, <1>15, <1>16, <1>17, <1>18, <1>19, <1>20, <1>21, <1>22, <1>23, <1>24,
         <1>25
         DEF Next, Api, Step, Failure

(* Who is waited for holds a row lock, so it polls or claims; who waits does
   not claim. *)
LEMMA CyclesArePolls ==
    ASSUME TypeOK, HoldsTask, LockFree
    PROVE  OnlyPollsDeadlock
<1> SUFFICES ASSUME NEW W \in SUBSET Worker, LockCycle(W), NEW w \in W
             PROVE  pc[w] = "locking"
    BY DEF OnlyPollsDeadlock
<1>1. PICK u, v \in W \ {w} : u \in WaitsFor(w) /\ w \in WaitsFor(v)
      BY DEF LockCycle
<1>2. \E t \in Task : rowLock[t] = w
  <2>1. CASE pc[v] = "locking"
        BY <1>1, <2>1 DEF WaitsFor, TypeOK
  <2>2. CASE pc[v] = "save"
        BY <1>1, <2>2 DEF WaitsFor, HoldsTask, Running
  <2>3. CASE pc[v] = "boot"
        BY <1>1, <2>3 DEF WaitsFor, LeftWorking
  <2>4. QED BY <1>1, <2>1, <2>2, <2>3 DEF WaitsFor
<1>3. pc[w] \in {"cycle", "locking", "claimed"}
      BY <1>2 DEF LockFree
<1>4. pc[w] \in {"locking", "save", "boot"}
      BY <1>1 DEF WaitsFor
<1>5. QED BY <1>3, <1>4

(* Without faults, a working row keeps its worker. *)
LEMMA OwnedStep ==
    TypeOK /\ HoldsTask /\ Safe /\ LockFree /\ NoAbandoned /\ [Next]_vars
        => NoAbandoned'
<1> SUFFICES ASSUME TypeOK, HoldsTask, Safe, LockFree, NoAbandoned, [Next]_vars
             PROVE  NoAbandoned'
    OBVIOUS
<1> USE SentinelsAreNew
        DEF TypeOK, HoldsTask, Safe, ClaimIsLocked, ClaimIsOwned, CalledInBetween,
            AtMostOnce, Statuses, PCs, Running, Ended, apiVars, rowVars, workerVars, outside,
            NoAbandoned, Verdictless
<1>1. CASE UNCHANGED vars
      BY <1>1 DEF vars
<1>2. ASSUME NEW t \in Task, Stamp(t) PROVE NoAbandoned'
      BY <1>2 DEF Stamp
<1>3. ASSUME NEW t \in Task, Insert(t) PROVE NoAbandoned'
      BY <1>3 DEF Insert
<1>4. ASSUME NEW w \in Worker, Start(w) PROVE NoAbandoned'
      BY <1>4 DEF Start, Goto
<1>5. ASSUME NEW w \in Worker, EnsureAlive(w) PROVE NoAbandoned'
      BY <1>5 DEF EnsureAlive, Goto
<1>6. ASSUME NEW w \in Worker, Recover(w) PROVE NoAbandoned'
      BY <1>6 DEF Recover, Goto, LeftWorking, RecoveryResult
<1>7. ASSUME NEW w \in Worker, Select(w) PROVE NoAbandoned'
      BY <1>7 DEF Select, Visible
<1>8. ASSUME NEW w \in Worker, NEW t \in Task, TakeRow(w, t) PROVE NoAbandoned'
      BY <1>8 DEF TakeRow, Lock, Requalifies, MayLock, First
<1>9. ASSUME NEW w \in Worker, NEW t \in Task, SkipRow(w, t) PROVE NoAbandoned'
      BY <1>9 DEF SkipRow, Lock, Requalifies, MayLock
<1>10. ASSUME NEW w \in Worker, BadArgs(w) PROVE NoAbandoned'
      BY <1>10 DEF BadArgs, Leave
<1>11. ASSUME NEW w \in Worker, ClaimCommit(w) PROVE NoAbandoned'
      BY <1>11 DEF ClaimCommit, ClaimTx, Goto, Unlocked, Reported
<1>12. ASSUME NEW w \in Worker, NotifyWorking(w) PROVE NoAbandoned'
      BY <1>12 DEF NotifyWorking, Notify, Goto
<1>13. ASSUME NEW w \in Worker, CallScript(w) PROVE NoAbandoned'
      BY <1>13 DEF CallScript, Goto
<1>14. ASSUME NEW w \in Worker, ScriptMissing(w) PROVE NoAbandoned'
      BY <1>14 DEF ScriptMissing, Goto
<1>15. ASSUME NEW w \in Worker, ScriptBroken(w) PROVE NoAbandoned'
      BY <1>15 DEF ScriptBroken, Leave
<1>16. ASSUME NEW w \in Worker, ScriptEnds(w) PROVE NoAbandoned'
      BY <1>16 DEF ScriptEnds, Verdicts, Goto
<1>17. ASSUME NEW w \in Worker, SaveCommit(w) PROVE NoAbandoned'
      BY <1>17 DEF SaveCommit, SaveTx, Outcome, Goto, Unlocked, Reported
<1>18. ASSUME NEW w \in Worker, NotifyEnd(w) PROVE NoAbandoned'
      BY <1>18 DEF NotifyEnd, Notify, Leave
<1>19. ASSUME NEW w \in Worker, DbFault(w) PROVE NoAbandoned'
      BY <1>19 DEF DbFault, Leave, Unlocked
<1>20. ASSUME NEW w \in Worker, CommitUnacked(w) PROVE NoAbandoned'
  <2>1. CASE ClaimTx(w)
        BY <1>20, <2>1 DEF CommitUnacked, ClaimTx, Leave, Unlocked, Reported
  <2>2. CASE SaveTx(w)
        BY <1>20, <2>2 DEF CommitUnacked, SaveTx, Outcome, Leave, Unlocked, Reported
  <2>3. QED BY <1>20, <2>1, <2>2 DEF CommitUnacked
<1>21. ASSUME NEW w \in Worker, RecoverFault(w) PROVE NoAbandoned'
      BY <1>21 DEF RecoverFault, Goto
<1>22. ASSUME NEW w \in Worker, Crash(w) PROVE NoAbandoned'
      BY <1>22 DEF Crash, Leave, Unlocked
<1>23. ASSUME NEW w \in Worker, Idle(w) PROVE NoAbandoned'
      BY <1>23 DEF Idle, vars
<1>24. ASSUME NEW w \in Worker, DeadlockVictim(w) PROVE NoAbandoned'
  <2>1. pc[w] = "locking"
        BY <1>24, CyclesArePolls DEF DeadlockVictim, OnlyPollsDeadlock
  <2>2. QED BY <1>24, <2>1 DEF DeadlockVictim, Leave
<1>25. ASSUME NEW w \in Worker, ScriptFalsy(w) PROVE NoAbandoned'
      BY <1>25 DEF ScriptFalsy, Goto
<1>26. QED
      BY <1>1, <1>2, <1>3, <1>4, <1>5, <1>6, <1>7, <1>8, <1>9, <1>10, <1>11, <1>12,
         <1>13, <1>14, <1>15, <1>16, <1>17, <1>18, <1>19, <1>20, <1>21, <1>22, <1>23, <1>24,
         <1>25
         DEF Next, Api, Step, Failure

-------------------------------------------------------------------------------
Records == RowStory /\ ReportStory /\ NoticeStory /\ LockFree
           /\ SnapshotOrder /\ NoAbandoned

LEMMA InitRecords == Init => Records
<1> SUFFICES ASSUME Init PROVE Records
    OBVIOUS
<1> USE DEF Init
<1>1. RowStory
      BY DEF RowStory, NoEarlyResult, VerdictIsBacked
<1>2. ReportStory
      BY <1>1 DEF ReportStory, ReportedOnce, Running, Tells, Story
<1>3. NoticeStory
      BY DEF NoticeStory, NoticesInOrder, Running
<1>4. LockFree /\ SnapshotOrder /\ NoAbandoned
      BY SentinelsAreNew DEF LockFree, SnapshotOrder, OldestFirst, NoAbandoned, Running
<1>5. QED BY <1>1, <1>2, <1>3, <1>4 DEF Records

LEMMA RecordsAlways == Spec => []Records
<1>1. TypeOK /\ HoldsTask /\ Safe /\ Records /\ [Next]_vars => Records'
      BY RowStoryStep, ReportStoryStep, NoticeStoryStep, LockFreeStep,
         SnapshotStep, OwnedStep DEF Records
<1>2. QED BY <1>1, InitRecords, SafeAlways, PTL DEF Spec

(* A finished task was called and has its script's result; a failed one has an
   error text or the recovery's message, never both. *)
THEOREM VerdictsAreBacked == Spec => []VerdictIsBacked
<1>1. Records => VerdictIsBacked
      BY DEF Records, RowStory
<1>2. QED BY <1>1, RecordsAlways, PTL

(* task_reports tells the story of every row, the recovery's failures apart;
   only a path that names something false has "working" reported twice. *)
THEOREM ReportsAreTrue == Spec => []ReportsTrackRow
<1>1. Records => ReportsTrackRow
      BY DEF Records, ReportStory, Tells, ReportsTrackRow
<1>2. QED BY <1>1, RecordsAlways, PTL

(* Notifications arrive in order and never contradict the row; only a path that
   names something false has "working" sent twice. *)
THEOREM NoticesAreInOrder == Spec => []NoticesInOrder
<1>1. Records => NoticesInOrder
      BY DEF Records, NoticeStory
<1>2. QED BY <1>1, RecordsAlways, PTL

(* No worker holds a row lock while it runs a script. *)
THEOREM ScriptsHoldNoLock == Spec => []NoLockWhileRunning
<1>1. Records => NoLockWhileRunning
      BY DEF Records, LockFree, NoLockWhileRunning, Running
<1>2. QED BY <1>1, RecordsAlways, PTL

(* Only polls wait for each other: no verdict is lost to a deadlock. *)
THEOREM DeadlocksHitPolls == Spec => []OnlyPollsDeadlock
<1>1. TypeOK /\ HoldsTask /\ Records => OnlyPollsDeadlock
      BY CyclesArePolls DEF Records
<1>2. QED BY <1>1, RecordsAlways, SafeAlways, PTL

(* A claim is the oldest enqueued row of the snapshot it was taken from. *)
THEOREM OldestIsTaken == Spec => []OldestFirst
<1>1. Records => OldestFirst
      BY DEF Records, SnapshotOrder
<1>2. QED BY <1>1, RecordsAlways, PTL

(* As long as the database serves the workers, crashes abandon no task whose
   script can give a verdict. *)
THEOREM NothingAbandoned == Spec => []NoAbandoned
<1>1. Records => NoAbandoned
      BY DEF Records
<1>2. QED BY <1>1, RecordsAlways, PTL

==============================================================================
