------------------------------- MODULE TaskQueue -------------------------------
(***************************************************************************)
(* The task queue of the processor: the API inserts rows into the table    *)
(* "tasks" (components/task.py), worker processes claim and execute them   *)
(* (task_executor.py) and a master process restarts dead workers           *)
(* (pyqu/impl/process/multiproc.py).  Workers meet only in PostgreSQL, at  *)
(* READ COMMITTED: SELECT ... FOR UPDATE takes row locks one row at a time,*)
(* rechecks a row that changed since the snapshot, and keeps the lock of a *)
(* row the recheck rejects until the transaction ends.  Of transactions that*)
(* wait for each other it aborts one.                                      *)
(***************************************************************************)
EXTENDS Naturals, Sequences, FiniteSets

CONSTANTS
    Task,          \* the task rows that may be created
    Worker,        \* the worker names (WorkerData.worker_name)
    Queue,         \* the distinct (type, target) filters of the workers
    Serves,        \* Serves[w]: the filter of worker w
    Untargeted,    \* the filters with a type only: no args["target"] is read
    ArgKinds,      \* "mapping": args is a JSON object, "none": null
    ScriptKinds,   \* what the path names: "runs", "missing" (ModuleNotFound-
                   \* Error, AttributeError), "falsy" (an attribute that is
                   \* None, 0, "") or "broken" (any other import exception)
    Delivery,      \* the outcomes of the notification POST
    MaxCrashes,    \* bound: process deaths
    MaxDbFaults,   \* bound: database errors seen by workers
    NoTask,
    NoWorker

ASSUME ServesType == Serves \in [Worker -> Queue] /\ Untargeted \subseteq Queue
ASSUME KindsType ==
    /\ ArgKinds \subseteq {"mapping", "none"}
    /\ ScriptKinds \subseteq {"runs", "missing", "falsy", "broken"}
    /\ Delivery \subseteq BOOLEAN
ASSUME BoundsType == MaxCrashes \in Nat /\ MaxDbFaults \in Nat
ASSUME SentinelsAreNew == NoTask \notin Task /\ NoWorker \notin Worker

VARIABLES
    (* the row of each task *)
    status, created, queue, args, script, lockedBy, result, errortext,
    reports,       \* the task_reports rows of the task, in order
    rowLock,       \* the worker whose open transaction holds the row lock
    clock,         \* datetime.now() of the API process
    (* each worker process *)
    pc,
    cand,          \* the rows of its SELECT's snapshot it has still to lock
    seen,          \* that snapshot
    task,          \* task_model
    out,           \* task_model.status set in memory and not yet flushed
    (* observed outside *)
    notices,       \* the statuses delivered to the notifier for the task
    starts,        \* how many times the script of the task was called
    crashes, faults

apiVars    == <<created, queue, args, script, clock>>
rowVars    == <<status, lockedBy, result, errortext, reports>>
workerVars == <<pc, cand, seen, task, out>>
outside    == <<notices, starts, crashes, faults>>
vars       == <<apiVars, rowVars, rowLock, workerVars, outside>>

Statuses == {"absent", "enqueued", "working", "finished", "failed"}
Ended    == {"finished", "failed"}
Running  == {"notify1", "load", "run", "save"}
PCs      == {"new", "down", "boot", "cycle", "locking", "claimed", "notify2"}
                \cup Running

Init ==
    /\ status    = [t \in Task |-> "absent"]
    /\ created   = [t \in Task |-> 0]
    /\ queue     \in [Task -> Queue]
    /\ args      \in [Task -> ArgKinds]
    /\ script    \in [Task -> ScriptKinds]
    /\ \A t \in Task : args[t] = "none" => queue[t] \in Untargeted
    /\ lockedBy  = [t \in Task |-> NoWorker]
    /\ result    = [t \in Task |-> "none"]
    /\ errortext = [t \in Task |-> FALSE]
    /\ reports   = [t \in Task |-> <<>>]
    /\ rowLock   = [t \in Task |-> NoWorker]
    /\ clock     = 0
    /\ pc        = [w \in Worker |-> "new"]
    /\ cand      = [w \in Worker |-> {}]
    /\ seen      = [w \in Worker |-> {}]
    /\ task      = [w \in Worker |-> NoTask]
    /\ out       = [w \in Worker |-> "none"]
    /\ notices   = [t \in Task |-> <<>>]
    /\ starts    = [t \in Task |-> 0]
    /\ crashes   = 0
    /\ faults    = 0

-------------------------------------------------------------------------------
(* Faulty variants of the definitions below, each a bug the code could have:
   the properties are checked to fail on them. *)

NoRecheck(t) == TRUE                      \* claims are not serialised
NewestFirst(t, S) == \A u \in S : created[u] <= created[t]
AllWorking(w) == {t \in Task : status[t] = "working"}  \* switch_failed_tasks
NothingLeft(w) == {}                      \* no recovery at start
KeepLocks(w) == rowLock                   \* the transaction stays open
KeepOthers(w) ==                          \* only the claimed row is let go
    [t \in Task |-> IF rowLock[t] = w /\ t = task[w] THEN NoWorker ELSE rowLock[t]]
ReportNothing(t, s) == reports            \* no after_update listener
VerdictOrRetry == Ended \cup {"enqueued"} \* a failed script is queued again
NoMessage == "none"                       \* status only, as switch_failed_tasks
NewestOnly(w) ==                          \* rows older than the last poll's are lost
    {t \in Task : status[t] = "enqueued" /\ queue[t] = Serves[w] /\ created[t] = clock}

-------------------------------------------------------------------------------
(* Predicates the worker's statements are built from. *)

(* The WHERE clause of the poll, on committed rows. *)
Visible(w) == {t \in Task : status[t] = "enqueued" /\ queue[t] = Serves[w]}

(* ORDER BY created. *)
First(t, S) == \A u \in S : created[t] <= created[u]

(* The recheck of a row that changed after the snapshot was taken. *)
Requalifies(t) == status[t] = "enqueued"

MayLock(w, t) == rowLock[t] \in {NoWorker, w}

(* The row locks left when the transaction of w ends. *)
Unlocked(w) == [t \in Task |-> IF rowLock[t] = w THEN NoWorker ELSE rowLock[t]]

(* kwargs.update( ** args) works on a mapping only. *)
ArgsOk(t) == args[t] = "mapping"

(* The rows the recovery UPDATE of w selects. *)
LeftWorking(w) == {t \in Task : status[t] = "working" /\ lockedBy[t] = w}

(* The workers whose transactions the statement of w waits for. *)
WaitsFor(w) ==
    CASE pc[w] = "locking" -> {rowLock[t] : t \in {u \in cand[w] : First(u, cand[w])}}
      [] pc[w] = "save"    -> {rowLock[task[w]]}
      [] pc[w] = "boot"    -> {rowLock[t] : t \in LeftWorking(w)}
      [] OTHER             -> {}

LockCycle(W) ==
    \A w \in W : \E u, v \in W \ {w} : u \in WaitsFor(w) /\ w \in WaitsFor(v)

(* The result the recovery UPDATE writes. *)
RecoveryResult == "unexpected"

(* How a call of the script can end. *)
Verdicts == Ended

(* The status the row has after the verdict of w, if there is one, is saved. *)
Outcome(w) == IF out[w] = "none" THEN status[task[w]] ELSE out[w]

(* The task_reports rows after an ORM flush that sets status s on t. *)
Reported(t, s) == [reports EXCEPT ![t] = Append(@, s)]

(* The worker leaves its task and goes to p. *)
Leave(w, p) ==
    /\ pc'   = [pc   EXCEPT ![w] = p]
    /\ cand' = [cand EXCEPT ![w] = {}]
    /\ seen' = [seen EXCEPT ![w] = {}]
    /\ task' = [task EXCEPT ![w] = NoTask]
    /\ out'  = [out  EXCEPT ![w] = "none"]

Goto(w, p) ==
    /\ pc' = [pc EXCEPT ![w] = p]
    /\ UNCHANGED <<cand, seen, task>>

-------------------------------------------------------------------------------
(* The API: Task.create stamps the row, and commits it later. *)

Stamp(t) ==
    /\ status[t] = "absent"
    /\ created[t] = 0
    /\ clock' = clock + 1
    /\ created' = [created EXCEPT ![t] = clock + 1]
    /\ UNCHANGED <<queue, args, script, rowVars, rowLock, workerVars, outside>>

Insert(t) ==
    /\ status[t] = "absent"
    /\ created[t] > 0
    /\ status' = [status EXCEPT ![t] = "enqueued"]
    /\ UNCHANGED <<apiVars, lockedBy, result, errortext, reports, rowLock,
                   workerVars, outside>>

-------------------------------------------------------------------------------
(* The master process. *)

Start(w) ==
    /\ pc[w] = "new"
    /\ Goto(w, "boot")
    /\ UNCHANGED <<apiVars, rowVars, rowLock, out, outside>>

EnsureAlive(w) ==
    /\ pc[w] = "down"
    /\ \A v \in Worker : pc[v] # "new"
    /\ Goto(w, "boot")
    /\ UNCHANGED <<apiVars, rowVars, rowLock, out, outside>>

-------------------------------------------------------------------------------
(* A worker process. *)

(* One bulk UPDATE, before the loop: it fires no ORM event, so it reports
   nothing.  It waits for the locks other transactions hold on its rows. *)
Recover(w) ==
    /\ pc[w] = "boot"
    /\ \A t \in LeftWorking(w) : MayLock(w, t)
    /\ status' = [t \in Task |->
                    IF t \in LeftWorking(w) THEN "failed" ELSE status[t]]
    /\ result' = [t \in Task |->
                    IF t \in LeftWorking(w) THEN RecoveryResult ELSE result[t]]
    /\ Goto(w, "cycle")
    /\ UNCHANGED <<apiVars, lockedBy, errortext, reports, rowLock, out, outside>>

(* The poll finds nothing: sleep, return, and stay in the transaction. *)
Idle(w) ==
    /\ pc[w] = "cycle"
    /\ Visible(w) = {}
    /\ UNCHANGED vars

Select(w) ==
    /\ pc[w] = "cycle"
    /\ Visible(w) # {}
    /\ pc'   = [pc EXCEPT ![w] = "locking"]
    /\ cand' = [cand EXCEPT ![w] = Visible(w)]
    /\ seen' = [seen EXCEPT ![w] = Visible(w)]
    /\ UNCHANGED <<apiVars, rowVars, rowLock, task, out, outside>>

(* SELECT ... FOR UPDATE reaches its oldest remaining row, once it is free. *)
Lock(w, t) ==
    /\ pc[w] = "locking"
    /\ t \in cand[w]
    /\ First(t, cand[w])
    /\ MayLock(w, t)
    /\ rowLock' = [rowLock EXCEPT ![t] = w]

TakeRow(w, t) ==
    /\ Lock(w, t)
    /\ Requalifies(t)
    /\ task' = [task EXCEPT ![w] = t]
    /\ pc'   = [pc EXCEPT ![w] = "claimed"]
    /\ cand' = [cand EXCEPT ![w] = {}]
    /\ UNCHANGED <<apiVars, rowVars, seen, out, outside>>

(* The lock is kept; when no row is left, first() is None and the cycle
   returns without ending the transaction. *)
SkipRow(w, t) ==
    /\ Lock(w, t)
    /\ ~Requalifies(t)
    /\ cand' = [cand EXCEPT ![w] = @ \ {t}]
    /\ pc'   = [pc EXCEPT ![w] = IF cand[w] = {t} THEN "cycle" ELSE "locking"]
    /\ UNCHANGED <<apiVars, rowVars, seen, task, out, outside>>

(* args is null: TypeError, logged, and the next cycle runs in the same
   transaction. *)
BadArgs(w) ==
    /\ pc[w] = "claimed"
    /\ ~ArgsOk(task[w])
    /\ Leave(w, "cycle")
    /\ UNCHANGED <<apiVars, rowVars, rowLock, outside>>

(* What the claim's commit does to the database. *)
ClaimTx(w) ==
    /\ pc[w] = "claimed"
    /\ ArgsOk(task[w])
    /\ status'   = [status EXCEPT ![task[w]] = "working"]
    /\ lockedBy' = [lockedBy EXCEPT ![task[w]] = w]
    /\ reports'  = Reported(task[w], "working")
    /\ rowLock'  = Unlocked(w)
    /\ UNCHANGED <<apiVars, result, errortext, notices, starts, crashes>>

ClaimCommit(w) ==
    /\ ClaimTx(w)
    /\ Goto(w, "notify1")
    /\ UNCHANGED <<out, faults>>

(* The notifier is told the status of the row as re-read after the commit;
   every requests error is swallowed. *)
Notify(w) ==
    /\ \E delivered \in Delivery :
          notices' = IF delivered
                     THEN [notices EXCEPT ![task[w]] = Append(@, status[task[w]])]
                     ELSE notices
    /\ UNCHANGED <<apiVars, rowVars, rowLock, starts, crashes, faults>>

NotifyWorking(w) ==
    /\ pc[w] = "notify1"
    /\ Notify(w)
    /\ Goto(w, "load")
    /\ UNCHANGED out

(* importlib finds the function and the call begins. *)
CallScript(w) ==
    /\ pc[w] = "load"
    /\ script[task[w]] = "runs"
    /\ starts' = [starts EXCEPT ![task[w]] = @ + 1]
    /\ Goto(w, "run")
    /\ UNCHANGED <<apiVars, rowVars, rowLock, out, notices, crashes, faults>>

ScriptMissing(w) ==
    /\ pc[w] = "load"
    /\ script[task[w]] = "missing"
    /\ out' = [out EXCEPT ![w] = "failed"]
    /\ Goto(w, "save")
    /\ UNCHANGED <<apiVars, rowVars, rowLock, outside>>

(* "if function" has no else: what is false is not called, and the cycle goes
   on to its end without a verdict. *)
ScriptFalsy(w) ==
    /\ pc[w] = "load"
    /\ script[task[w]] = "falsy"
    /\ Goto(w, "save")
    /\ UNCHANGED <<apiVars, rowVars, rowLock, out, outside>>

(* Any other exception leaves _task_cycle_impl: the row stays "working". *)
ScriptBroken(w) ==
    /\ pc[w] = "load"
    /\ script[task[w]] = "broken"
    /\ Leave(w, "cycle")
    /\ UNCHANGED <<apiVars, rowVars, rowLock, outside>>

(* The script returns a dict or a TaskResult, or it raises (a result of any
   other type is turned into a RuntimeError). *)
ScriptEnds(w) ==
    /\ pc[w] = "run"
    /\ \E s \in Verdicts : out' = [out EXCEPT ![w] = s]
    /\ Goto(w, "save")
    /\ UNCHANGED <<apiVars, rowVars, rowLock, outside>>

(* What the final commit does to the database.  "updated" always changes, so
   the row is flushed and reported also without a verdict. *)
SaveTx(w) ==
    /\ pc[w] = "save"
    /\ MayLock(w, task[w])
    /\ status' = [status EXCEPT ![task[w]] = Outcome(w)]
    /\ result' = IF out[w] = "finished"
                 THEN [result EXCEPT ![task[w]] = "script"] ELSE result
    /\ errortext' = IF out[w] = "failed"
                    THEN [errortext EXCEPT ![task[w]] = TRUE] ELSE errortext
    /\ reports' = Reported(task[w], Outcome(w))
    /\ rowLock' = Unlocked(w)
    /\ UNCHANGED <<apiVars, lockedBy, notices, starts, crashes>>

SaveCommit(w) ==
    /\ SaveTx(w)
    /\ Goto(w, "notify2")
    /\ UNCHANGED <<out, faults>>

NotifyEnd(w) ==
    /\ pc[w] = "notify2"
    /\ Notify(w)
    /\ Leave(w, "cycle")

(* PostgreSQL's deadlock detector aborts a statement of the circle: an
   OperationalError, as any other. *)
DeadlockVictim(w) ==
    /\ pc[w] \in {"locking", "save"}
    /\ \E W \in SUBSET Worker : w \in W /\ LockCycle(W)
    /\ rowLock' = Unlocked(w)
    /\ Leave(w, "cycle")
    /\ UNCHANGED <<apiVars, rowVars, outside>>

-------------------------------------------------------------------------------
(* What goes wrong. *)

(* A database error: the session is rolled back and a new one polls on. *)
DbFault(w) ==
    /\ faults < MaxDbFaults
    /\ \/ pc[w] \in {"cycle", "locking", "notify1", "save", "notify2"}
       \/ pc[w] = "claimed" /\ ArgsOk(task[w])
    /\ faults' = faults + 1
    /\ rowLock' = Unlocked(w)
    /\ Leave(w, "cycle")
    /\ UNCHANGED <<apiVars, rowVars, notices, starts, crashes>>

(* The commit is applied and its acknowledgement is lost. *)
CommitUnacked(w) ==
    /\ faults < MaxDbFaults
    /\ ClaimTx(w) \/ SaveTx(w)
    /\ faults' = faults + 1
    /\ Leave(w, "cycle")

(* An error in the recovery is outside every try: the process exits. *)
RecoverFault(w) ==
    /\ faults < MaxDbFaults
    /\ pc[w] = "boot"
    /\ faults' = faults + 1
    /\ Goto(w, "down")
    /\ UNCHANGED <<apiVars, rowVars, rowLock, out, notices, starts, crashes>>

(* The process dies (a signal, or a BaseException of the script) and its
   connection with it. *)
Crash(w) ==
    /\ crashes < MaxCrashes
    /\ pc[w] \notin {"new", "down"}
    /\ crashes' = crashes + 1
    /\ rowLock' = Unlocked(w)
    /\ Leave(w, "down")
    /\ UNCHANGED <<apiVars, rowVars, notices, starts, faults>>

-------------------------------------------------------------------------------
Api == \E t \in Task : Stamp(t) \/ Insert(t)

Step(w) ==
    \/ Recover(w) \/ Idle(w) \/ Select(w)
    \/ \E t \in Task : TakeRow(w, t) \/ SkipRow(w, t)
    \/ BadArgs(w) \/ ClaimCommit(w) \/ NotifyWorking(w)
    \/ CallScript(w) \/ ScriptMissing(w) \/ ScriptFalsy(w)
    \/ ScriptBroken(w) \/ ScriptEnds(w)
    \/ SaveCommit(w) \/ NotifyEnd(w) \/ DeadlockVictim(w)

Failure(w) == DbFault(w) \/ CommitUnacked(w) \/ RecoverFault(w) \/ Crash(w)

Next ==
    \/ Api
    \/ \E w \in Worker : Start(w) \/ EnsureAlive(w) \/ Step(w) \/ Failure(w)

Spec == Init /\ [][Next]_vars

(* The operating system runs every process, and scripts, statements and
   notifications return: nothing is assumed of the API or of failures. *)
FairSpec ==
    /\ Spec
    /\ \A w \in Worker :
          WF_vars(Start(w)) /\ WF_vars(EnsureAlive(w)) /\ WF_vars(Step(w))

-------------------------------------------------------------------------------
(* Types of every variable of the rows and of the workers. *)
TypeOK ==
    /\ status    \in [Task -> Statuses]
    /\ created   \in [Task -> Nat]
    /\ queue     \in [Task -> Queue]
    /\ args      \in [Task -> ArgKinds]
    /\ script    \in [Task -> ScriptKinds]
    /\ lockedBy  \in [Task -> Worker \cup {NoWorker}]
    /\ result    \in [Task -> {"none", "script", "unexpected"}]
    /\ errortext \in [Task -> BOOLEAN]
    /\ reports   \in [Task -> Seq(Statuses)]
    /\ rowLock   \in [Task -> Worker \cup {NoWorker}]
    /\ clock     \in Nat
    /\ pc        \in [Worker -> PCs]
    /\ cand      \in [Worker -> SUBSET Task]
    /\ seen      \in [Worker -> SUBSET Task]
    /\ task      \in [Worker -> Task \cup {NoTask}]
    /\ out       \in [Worker -> Ended \cup {"none"}]
    /\ notices   \in [Task -> Seq(Statuses)]
    /\ starts    \in [Task -> Nat]
    /\ crashes   \in Nat
    /\ faults    \in Nat

(* The script of a task is called at most once, whatever two workers of one
   queue, restarts, rollbacks and lost acknowledgements do: the row lock and
   the recheck of the claim serialise the claims. *)
AtMostOnce == \A t \in Task : starts[t] <= 1

(* No two processes are ever inside the cycle of the same task. *)
OneRunner ==
    \A v, w \in Worker :
        v # w /\ pc[v] \in Running /\ pc[w] \in Running => task[v] # task[w]

(* A worker that holds a claim took the oldest enqueued row of its snapshot
   (ORDER BY created): a row it passed over had been claimed meanwhile. *)
OldestFirst ==
    \A w \in Worker : pc[w] = "claimed" =>
        \A u \in seen[w] :
            status[u] = "enqueued" => created[task[w]] <= created[u]

(* The reports of a row with status s and, or not, an error text. *)
Story(s, withText) ==
    CASE s \in {"absent", "enqueued"}    -> <<>>
      [] s = "working"                   -> <<"working">>
      [] s = "finished"                  -> <<"working", "finished">>
      [] s = "failed" /\ withText        -> <<"working", "failed">>
      [] OTHER                           -> <<"working">>

(* The task_reports rows tell the story of the row exactly, except that the
   recovery's bulk UPDATE leaves no report of the failure it writes, and that
   a path naming something false has "working" reported twice: by the claim
   and by the commit at the end of the cycle, which has no verdict to tell. *)
ReportsTrackRow ==
    \A t \in Task :
        \/ reports[t] = Story(status[t], errortext[t])
        \/ /\ script[t] = "falsy"
           /\ Story(status[t], errortext[t]) = <<"working">>
           /\ reports[t] = <<"working", "working">>

(* A verdict has its reason in the row: a finished task was called and has
   the script's result, a failed one has an error text or the recovery's
   message, and never both. *)
VerdictIsBacked ==
    \A t \in Task :
        /\ status[t] = "finished" =>
              result[t] = "script" /\ starts[t] = 1 /\ ~errortext[t]
        /\ status[t] = "failed" =>
              result[t] = IF errortext[t] THEN "none" ELSE "unexpected"

(* Clients of the notifier never see a task go backwards: "working" comes
   first, and at most once unless the path names something false, where the
   notice of the end repeats it; a verdict they are told is the one in the
   row. *)
NoticesInOrder ==
    \A t \in Task :
        \/ notices[t] \in {<<>>, <<"working">>}
        \/ /\ status[t] \in Ended
           /\ notices[t] \in {<<status[t]>>, <<"working", status[t]>>}
        \/ script[t] = "falsy" /\ notices[t] = <<"working", "working">>

(* A script runs with no row of the queue locked by its worker, so a long
   script never blocks the claims of the others. *)
NoLockWhileRunning ==
    \A w \in Worker : pc[w] \in Running =>
        \A t \in Task : rowLock[t] # w

(* A circle of waiting transactions consists of polls only: PostgreSQL breaks
   it by aborting one, and a poll can be repeated, while a worker that saves a
   verdict or recovers its rows would lose it or die. *)
OnlyPollsDeadlock ==
    \A W \in SUBSET Worker : LockCycle(W) => \A w \in W : pc[w] = "locking"

(* The scripts whose cycle ends without a verdict: the import breaks, or what
   it finds is false. *)
Verdictless == {"broken", "falsy"}

(* Without database errors, a row is left "working" by nobody, except with a
   script that cannot give a verdict: its worker is on it, or is being
   restarted and will fail it. *)
NoAbandoned ==
    faults = 0 =>
        \A t \in Task : status[t] = "working" /\ script[t] \notin Verdictless =>
            \E w \in Worker :
                /\ lockedBy[t] = w
                /\ \/ pc[w] \in {"down", "boot"}
                   \/ pc[w] \in Running /\ task[w] = t

(* A verdict is final: no later step changes the status, the result or the
   error text of a task that has ended. *)
TerminalIsFinal ==
    [][\A t \in Task : status[t] \in Ended =>
          /\ status'[t] = status[t]
          /\ result'[t] = result[t]
          /\ errortext'[t] = errortext[t]]_vars

(* The detailed queue implements the life cycle the API promises. *)
L == INSTANCE TaskLifecycle WITH status <- status, calls <- starts
LifecycleSpec == L!Spec

(* Some worker polls for t, and no request of its queue has null args. *)
Servable(t) ==
    /\ \E w \in Worker : Serves[w] = queue[t]
    /\ \A u \in Task : queue[u] = queue[t] => args[u] = "mapping"

(* Every enqueued servable task is eventually taken, through crashes,
   rollbacks and row locks left by the other workers of its queue. *)
EveryTaskTaken ==
    \A t \in Task :
        (status[t] = "enqueued" /\ Servable(t)) ~> (status[t] # "enqueued")

(* Every enqueued servable task gets a verdict, if its script can give one. *)
EveryTaskEnds ==
    \A t \in Task :
        (status[t] = "enqueued" /\ Servable(t) /\ script[t] \notin Verdictless)
            ~> (status[t] \in Ended)

(* A servable task is executed whatever its script: the import of the script
   may fail, and the task with it, but a task always ends. *)
EveryScriptEnds ==
    \A t \in Task :
        (status[t] = "enqueued" /\ Servable(t)) ~> (status[t] \in Ended)

(* A well-formed request that a worker polls for is taken, whatever the other
   requests of its queue look like. *)
GoodRequestTaken ==
    \A t \in Task :
        (/\ status[t] = "enqueued" /\ args[t] = "mapping"
         /\ \E w \in Worker : Serves[w] = queue[t]) ~> (status[t] # "enqueued")

===============================================================================
