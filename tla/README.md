# Verification of the ARM job processor

TLA+ models of the job processor ("PROCESSOR, the entry point of the requests
of the ARM backend"): a JSON-RPC service that stores tasks in PostgreSQL, worker
processes that execute them, and the scripts they execute (compilation and
deployment of dialogue complects, test cases, import of suites and
dictionaries), and of the tool that fills the gateway from the old database. TLC
checks the models on small instances; TLAPS proves the main safety properties for
every value of the constants.

File paths below are those of the repository; `tasks`, `task_reports`,
`complects_revisions` and `complects_revisions_seq` are its tables.

## 1. Inventory

### 1.1 Task API and tables
`components/task.py`, `models.py`, `tables.py`.

* State: the row of each task: `status` (enqueued, working, finished, failed),
  `script`, `type`, `args`, `result`, `errortext`, `locked_by`, `created`; the
  `task_reports` rows that an `after_update` listener of the ORM adds.
* Operations: `create` inserts an enqueued row, stamped by the API process
  before the commit; `info` and `list` read.
* Hard: the stamp and the commit are two moments, so rows can become visible in
  another order than that of `created`; bulk updates bypass the listener.
* Correct when: a row's history is the one its status and reports tell.

### 1.2 Task executor
`task_executor.py`.

* State: per worker process its session (transaction and row locks), the task
  model it holds, and what it has set in it and not flushed.
* Operations: recovery of its own rows at start; poll (`SELECT ... ORDER BY
  created FOR UPDATE`, first row); claim; notification; import and call of the
  script; final commit; notification; the two `except` levels of the loop.
* Interactions: workers meet only in row locks; the notifier is told by HTTP
  and its failures are swallowed.
* Hard: two workers of one filter race for rows; locks outlive a fruitless
  poll; a process dies or a database error strikes between any two steps.
* Correct when: a script is called at most once, a verdict is final and true,
  a task that can be executed gets its verdict, nobody waits for ever.

### 1.3 Process supervision
`pyqu/`. One process per worker name; every 0.1 s the master starts dead ones
again (`ensure_alive`). Correct when a dead worker's filter is served again and
its task fails instead of staying working.

### 1.4 Worker routing
`task_executor.py:246-320`, `settings.py`. Host tables give the compiler and
deploy workers a filter `(type, args["target"])`: the host's name, its group, or
nothing. `args["target"]` then also replaces the host name the deploy worker was
started with. Correct when a request matches the workers meant for it and a deploy
never reaches a host other than the one it names, or two workers one host.

### 1.5 Complect revisions
`components/complect_revision.py`, `components_utils/`.

* State: the last number per complect, the revisions.
* Operations: `_create` (upsert of the number, HTTP call to the gateway for the
  complect's code, insert, one commit); `fetch` and `list` read.
* Hard: concurrent creations; a gateway call inside a transaction; renames.
* Correct when: numbers have no gaps and no duplicates, codes are unique.

### 1.6 Compilation and deploy
`scripts/compiler.py`, `scripts/deploy.py`, `engine/`. A pipeline on a backend
(SSH to a virtual machine or a container, or a Kubernetes pod).

* State: directories and binaries on the hosts, the complect each engine has been
  given and the one it runs, the revisions, each worker process's connections.
* Operations: download and preprocessing, upload (mktemp, archive, put, extract,
  deletion of what is older than seven days), compile, update, restart, close,
  report, registration of the revision; a deploy fetches a revision's binary from
  its compiler host, uploads, updates and restarts.
* Hard: every step can fail after the ones before it took effect, and its own
  effect may have happened; the exit codes of archive and extraction are dropped;
  the clean-up knows nothing of revisions; early returns close nothing.
* Correct when: what is reported as deployed is live, what is registered stays
  what it was and, for a week, can be deployed.

### 1.7 Texts of a compile task
* `engine/preprocessors/arm1/`: unless the perl tool prints `ERROR`, dictionaries
  are exported: common ones in a loop over the gateway's list, private ones from a
  worklist that grows by the includes of what is exported. Correct when exactly
  the needed ones are in `dict.lst` with their own texts and the worklist ends, in
  spite of cycles, missing ones, ignored exceptions and colliding names.
* `engine/engine_output_parser.py`: a line automaton that turns the joined outputs
  of the tools into messages, which decide on the reported success. Correct when
  every error that ends is one message with its own id and text.

### 1.8 Transfers to the gateway
The gateway is another program; this repository calls it.
* `nlab/rpc/client.py`: `list_all` pages through a list that others change.
* `scripts/suite.py`: `import_run` cuts an archive's files into templates and
  creates a suite per file.
* `tools/import_templates.py`: for each file, removes the suite with its title and
  creates it anew, with templates whose `template_id` is their place in the file.
* `tools/dump.py`: copies a profile of the old database: suites, templates, the
  references of the templates to each other, dictionaries. It is repeated when it
  breaks off, and `--incremental` is to leave existing templates alone. Correct
  when nothing is created twice, references are resolved, users' texts survive.

All of them write to the profiles of one gateway, and so do its editors.

### 1.9 The rest
RPC server (`processor_server.py`, `nlab/rpc`, `nlab/service.py`): dispatch and
error envelopes. `nlab/*`: connection settings, logging, archives. `alembic/`, the
other `tools/`: operator scripts. They keep no state of their own.

The hazards of each part, at the lines where they bite, are in `PROJECT.json`.

## 2. What is modelled now

| Module | Stands for |
| --- | --- |
| `TaskLifecycle` | abstract: what a client may rely on: submit, one claim, one call, one verdict |
| `TaskQueue` | `task_executor.py`, `components/task.py`, the `tasks` part of `models.py` and `tables.py`, `pyqu/` |
| `MCTaskQueue` | its instances for TLC |
| `TaskQueueProofs` | types, exclusive execution, final verdicts, refinement of `TaskLifecycle` |
| `TaskRecordProofs` | truth of reports, results and notices, locks, order of claims, nothing abandoned |
| `RevisionNumbering` | `components/complect_revision.py`, `components_utils/` |
| `MCRevisionNumbering`, `RevisionNumberingProofs` | its instances and proofs |
| `Release` | `scripts/compiler.py`, `scripts/deploy.py`, `engine/tasks/`, `engine/backends/`, the filters of deploy workers |
| `MCRelease`, `ReleaseProofs` | its instance and proofs |
| `DictionaryExport` | `engine/preprocessors/arm1/` |
| `EngineOutputParser` | `parse_engine_output` |
| `CompileTexts` | both parts in one compile task: what the perl tool's output decides, the joined outputs |
| `MCCompileTexts`, `CompileTextsProofs` | the instance, and the proofs about both parts and the whole |
| `GatewayList` | the rows of a profile, `list_all` and the paging query (`nlab/rpc/object.py`) |
| `SuiteImport` | `import_run` of `scripts/suite.py` |
| `LegacyDump` | `tools/dump.py` |
| `TemplateImport` | `tools/import_templates.py` |
| `GatewayTransfer` | all of them together with editors of the web interface |
| `MCGatewayTransfer` | their instance |
| `GatewayListProofs` | lemmas on places and pages of a list |
| `GatewayTransferProofs` | lists under everybody's steps, the imports |
| `LegacyDumpProofs` | the dump |

### 2.1 `TaskQueue`

A task is a model value; its columns are functions of it. `queue[t]` is the
filter a row matches, that is its `type` together with `args["target"]` where
the workers read it. `result` keeps what wrote it (`"script"`, or
`"unexpected"` for the recovery's message), `errortext` whether there is one,
`script` what the path of the function leads to: a function (`runs`), nothing
(`missing`), something false, which `if function:` of line 134 passes over without
an else (`falsy`), or an exception that is not caught (`broken`). A falsy script
ends its cycle as a called one does, with the status `working` it began with: the
final commit reports that status a second time and the notifier gets it again.

A worker is a program counter over the places where its process can be
interrupted or another one can act:

| `pc` | the process is |
| --- | --- |
| `new`, `down` | not started yet, dead |
| `boot` | before the recovery UPDATE |
| `cycle` | between two calls of `_task_cycle_impl` |
| `locking` | in the SELECT ... FOR UPDATE, `cand` are the rows of its snapshot still to lock |
| `claimed` | holding the row, before the claim's commit |
| `notify1`, `load`, `run`, `save`, `notify2` | after the claim: POST, import, script, final commit, POST |

| Action | Code |
| --- | --- |
| `Stamp`, `Insert` | `TaskRpc._store`: `created=datetime.now()`, then the commit |
| `Start`, `EnsureAlive` | `MultiprocessingWorker.start`, `ensure_alive` |
| `Recover`, `RecoverFault` | `_task_loop`, lines 196-207 |
| `Select`, `TakeRow`, `SkipRow`, `Idle` | the query of lines 88-90 and the return of lines 92-94 |
| `BadArgs` | `update(**None)` at line 98 |
| `ClaimCommit` | lines 102-107 with the `after_update` listener |
| `NotifyWorking`, `NotifyEnd` | `send_change_status_notification` |
| `CallScript`, `ScriptMissing`, `ScriptFalsy`, `ScriptBroken` | lines 116-136 |
| `ScriptEnds` | lines 138-159 |
| `SaveCommit` | lines 164-166 with the listener |
| `DbFault`, `CommitUnacked` | `RECREATE_SESSION_ERRORS`, before or after the commit took effect |
| `DeadlockVictim` | the same, when PostgreSQL's deadlock detector aborts the statement |
| `Crash` | death of a worker process |

PostgreSQL and SQLAlchemy are modelled by what the code relies on:

* READ COMMITTED; a `SELECT ... FOR UPDATE` locks the rows of its snapshot one
  at a time in the order of `created`, waits for a locked row, rechecks a row
  that has changed, and **keeps the lock of a row that the recheck rejects**;
  `LIMIT 1` stops at the first row that passes;
* locks go with the end of the transaction, and a session that is not committed,
  rolled back or closed stays in its transaction;
* of transactions that wait for each other, one is aborted;
* `expire_on_commit`: the status sent to the notifier is read from the row again;
* a bulk `Query.update` fires no ORM event.

Assumptions that simplify: the lock acquisition of the recovery UPDATE is one
step; a killed process's transaction ends with it; one API clock with distinct
stamps; one process per worker name (the master keeps one).

### 2.2 `RevisionNumbering`

One call of `_create` per maker: `Upsert` (waits for `seqLock`, the row lock on
the sequence row or the unique-index wait of a first insert), `FetchCode` (the
gateway's answer of that moment), then `Commit` or `CodeClash` (the UNIQUE
column `code`). `CallFails` stands for every error and death inside the call,
`CommitUnacked` for a lost acknowledgement. The gateway is external: a code per
complect, unique, which `Rename` may change at any time. A revision code is the
pair of complect code and number: the code joins them by a dot, and since a
number has no dot the pair is determined by the text.

### 2.3 `Release`

A worker is a program counter over the steps of its task; `build`, `dir`,
`compiled`, `wanted`, `revision` are the run's local data (what it builds or has
fetched, its remote directory, the compiler's exit code, `try_create_revision`,
the revision to deploy). A build is the number of its compile task, so two builds
are never confused. A directory belongs to the host `mktemp` made it on.

| Action | Code |
| --- | --- |
| `StartCompile` .. `Prepare` | `scripts/compiler.py:17-46`, connect, download, preprocess |
| `MakeDir`, `Extract`, `Clean` | `SshBackendMixin._upload`, in three steps; `Extract` leaves all, a part or nothing of what it uploads and goes on; the last deletes any part of what is over a week old |
| `Compile`, `CompileFails` | `_compile`; after a failure there may be a binary, a part of one, or none |
| `Update`, `Restart` and their failures | `InfEngineManager.pl --dl-update`, `InfEngineControl.pl --restart`, also with the effect and a lost answer |
| `Close` | `close()` and the local clean-up |
| `Report`, `Register`, `ReportFails` | `scripts/compiler.py:48-67` |
| `StartDeploy` .. `ConnectTarget`, `TargetFails` | `EngineDeployProcess._execute` up to the target's connection; no such host, or a pod, whose `update()` returns nothing |
| `Abort` | every other early return or exception |
| `Crash`, `Age` | death of the worker process; a week passes for a directory |

Choices: `dl-update` copies the binary into the engine and the restart makes it
live (both are programs outside the repository). `damaged` has the places whose
content is a part of what it should be: a directory, the copy that a deploy has
fetched, what an engine was given, what it runs. An upload can leave a part
(`ssh.py:91-116`), so can a compilation and an installation that fail; a compilation
of a part of the sources gives a part of a binary, and every copy of a part is one
(`Copied`). What is missing altogether is `binary` 0. A run lasts less than a week.
Compiler hosts and deploy hosts are different machines (the tables are separate); a pod
is never a compiler.
`args["compiler_host"]` in a request, which would redirect a compilation, and
revisions without a binary path, whose deploy ends at once, are left out.
A deploy worker serves `Serves(w)`, and `HostOf` is the host `args["target"]`
names: a group that is no host ends in `TargetFails`; a group named like another
host is excluded by `GroupsAreNoHosts`, because then two workers share an engine
and `DeployedIsRegistered` fails.

### 2.4 `DictionaryExport`, `EngineOutputParser`, `CompileTexts`

`DictionaryExport` has one action per turn of a loop: `ReadTemplate`, `ListAll`,
`ExportCommon`, `KeepPrivate`, `SkipListed`, then `ExportPrivate` and
`SkipUnsaved` over the worklist `unsaved`, whose `pop` takes any element, then
`WriteList`. `Export` is `_dictionary_export_process` with its four outcomes: the
text cannot be scanned, cannot be written (after the worklist has grown), is
written, or is passed over because the list has the code as another's name.
`DictionariesList.dicts` is `dicts`, the disk is `files`.

`EngineOutputParser` takes a line as the set of the patterns it matches; `current`
and `messages` keep the numbers of the lines their fields came from. `CompileTexts`
composes: `error` is `"ERROR" in out`, `Report` feeds the outputs of the php tool,
the perl tool and the compiler to the parser, the perl tool's lines being such that
`error` is true of them. `MaxLines` bounds all outputs.

### 2.5 `GatewayList`, `SuiteImport`, `LegacyDump`, `GatewayTransfer`

`GatewayList` has the suites and templates of one profile as functions from ids,
`ListPage` is one request of `list_all`; between two requests anybody may act. The
gateway is not in the repository: its lists are assumed to page as the shared
library `nlab/rpc/object.py` does (order of creation, OFFSET, LIMIT); `Create` and
`Update` are external, and so is what a removal takes along: with a suite its
templates go (`Along`, as `tools/import_templates.py:35` says of it), and a template
for a suite that is not there is refused. A row is in the list from the moment it has
its id: one that is committed late, in the middle of the order, is left out, and a
row that two pages show is one item (the dump refuses a list with one template
twice, and makes no more of one).

`SuiteImport` walks over an archive as the generator of `ImportSuite.process` does:
`CreateSuite`, `CreateTemplate`, `SkipBlank`, `NextFile` (the `None` between files),
`ImportFails` (the archive or a file cannot be read, a request fails). A template
with `suite_id` None, or of a suite that is gone, is refused by the gateway.

`TemplateImport` is `import_data` of `tools/import_templates.py`: `StartTool` lists
the suites of the profile, then for each file `RemovePrevious` (if a suite had its
title), `CreateReplacement` and `CreateNumbered` for its pieces. The numbers it gives
as `template_id` are `Counter`: some are ids of old templates for the dump, the
others are not (`NoKey`). `numbered` are the templates it has made. Titles are not
modelled: any set of suites may have the titles of the files.

`LegacyDump` is a program counter `phase` over `process_inf` and
`process_inf_dicts`; each loop has a set `todo`. A template's text is the function
from the old ids it refers to to the new ids (0 while the old one is there);
`Replace` is `replace_extend_answer`. `Fetch` and `Reached` are `add_dicts` and
`_add_dict`. `Stop` ends a run anywhere and loses its locals. The first run creates
the profile, later ones are given `--profile-id`; the old database does not change;
a second profile and the complect are left out.

`GatewayTransfer` lets dumps, one import task, runs of `import_templates` and editors
(who edit or remove templates, and remove suites) write to one profile, in any order
of their requests.

## 3. Properties and runs

| Run | Instance | Shows |
| --- | --- | --- |
| `queue_shared` | 2 tasks, 3 workers of one filter; scripts that run, are missing or falsy; 1 crash, 1 database error, lost notices | `AtMostOnce`, `OneRunner`, `OldestFirst`, `ReportsTrackRow`, `VerdictIsBacked`, `NoticesInOrder`, `NoLockWhileRunning`, `OnlyPollsDeadlock`, `NoAbandoned`, `TerminalIsFinal`, and that `TaskQueue` implements `TaskLifecycle` |
| `queue_exclusive` | 2 tasks, one worker per filter, all kinds of args and scripts, 1 crash | `EveryTaskEnds` |
| `queue_progress` | 2 tasks, 3 workers of one filter, 1 crash | `EveryTaskTaken` |
| `queue_leftover_lock` | 2 tasks, 2 workers of one filter, no failure | `EveryTaskEnds` is violated (finding 1) |
| `queue_null_args` | an untargeted filter, null args | `GoodRequestTaken` is violated (finding 2) |
| `queue_broken_import` | scripts that run, break on import or are falsy | `EveryScriptEnds` is violated (finding 3) |
| `release` | 1 compiler host; deploy hosts: one plain, one in a group, one pod; 3 directories, 2 builds, 2 deploys, 1 crash, 1 piece of work left in part | `DeployedIsRegistered`, `RegisteredIsImmutable`, `FreshSuccessDeployable`, `DeployHostsRunRegistered`, `LeaksAreFailures` |
| `release_damaged` | the same | `DeployedIsWhole` is violated (finding 4) |
| `compile_texts` | 4 codes with colliding names, every list of up to 2 dictionaries, 1 template file; outputs of up to 4 lines | `SavedIsNeeded`, `NeededIsSaved`, `OwnTexts`, `MessagesAreReported`, `FieldsFromOwnBlock`, `LoopEnds` |
| `gateway_transfer` | 2 old templates that refer to each other, 1 listing, 3 dictionary names in a cycle; 2 runs; 1 edit, removal or run of `import_templates`, with numbers that are the id of an old template or of none; archives of up to 2 files, 4 rows, pages of 1 row | `MissedAreShifted`, `OwnSuite`, `OneOfEach`, `SuitesApart`, `AnswersResolved`, `DictionariesClosed` |
| `gateway_incremental` | the same | `EditsSurvive` is violated (finding 5) |
| `revision_numbering` | 2 makers, 2 complects, 3 codes, 2 renames, 1 fault, numbers to 2 | `Gapless`, `RevisionsDistinct`, `AppendOnly`, `SequenceFreed` |

**Bounds.** Two workers are all it takes for a race. With two tasks a worker can hold
the leftover lock of one row and run the other, while a third passes over both. A
circle of lock waits needs three workers (two that passed over a row each, and the
one that claimed them) and two tasks, so `queue_shared` and `queue_progress` reach it.
It happens when a
row is committed after a younger one (`Stamp` and `Insert` are two steps), so
the order of `created` does not keep the locks in one order. One crash and one
database error together reach every pair of failures that matters for one task (a
lost acknowledgement followed by the death of another worker, a death during the
recovery of the other). `queue_progress` has no database error: one in a poll ends
the worker's transaction and sends it back to the poll, as `DeadlockVictim` does,
which the run has; one in the recovery ends the process, as a crash does.
`MaxCrashes`, `MaxDbFaults`, `MaxNumber`, `MaxRenames` and
`MaxFaults` are the only bounds in guards of the queue and the numbering; the
theorems hold for all their values. Tasks are symmetric in `queue_shared`, and
workers too; the runs with liveness use no symmetry.

In `release` two builds and two deploys let a deploy meet the other's upload, a
directory get old between registration and deploy, and both deploy workers run at
once. A directory is one upload: three are two builds and a deploy, or a build and
two deploys, which is every pair of runs that can meet; the fourth run then ends at
`mktemp`. The directories are symmetric. One piece of work left in part
(`MaxDamages`) shows where it can get to; with more there would be more of the same
copies.
`compile_texts` enumerates two dictionaries with every set of includes (chains,
self-includes, a cycle), readable or not, and all four-line outputs over nine kinds
of lines: an error, its id, its end and one line that disturbs. After an export with
dictionaries no lines are parsed (`MaxListedLines = 0`): the parser does not depend
on them, and the theorems hold for any bounds. In `gateway_transfer` a page of one
row makes every list take several pages; two runs are the interrupted one and its
repetition; one removal shifts one page. Four rows are the dump's suite, its two
templates and one row of somebody else; or its suite and a template, and the suite
of `import_templates` with a numbered template; or two files with a suite and a
template each. A removed row makes no room: ids are not given again. One listing is
enough for `SuitesApart` to fail, since the list shows the suites of archives too; the
theorem is about any number. `MaxBuilds`, `MaxDeploys`, `MaxDamages`, `MaxLines`,
`MaxListedLines`, `MaxId`, `MaxRuns` and `MaxEdits` are bounds of guards.

**Fairness.** `TextsSpec` assumes that `preprocess()` goes on while it can
(`WF` of `Preprocess`: one thread in loops, whose calls return); `LoopEnds` needs no
more, since in each turn of a loop one action is enabled. No fairness is assumed in
`Release` and `GatewayTransfer`, which have safety properties only.
`FairSpec` of `TaskQueue` assumes of each worker that its process
is scheduled (`WF` of its steps taken together: it is one sequential program),
and of the master that it starts workers and restarts dead ones (`WF` of `Start`
and `EnsureAlive`; the master loops every 0.1 s). This includes that scripts,
statements and notification POSTs return: the code sets no timeout on any, so
there is nothing in it that would force them. Nothing is assumed of the API and
of failures. A worker blocked by a row lock has no enabled step, so fairness
does not free it. `FairSpec` of `RevisionNumbering` assumes that a call that has
begun goes on (the gateway answers); no one is made to begin a call.

**Deadlock** is checked in every run of `TaskQueue`: an idle worker polls on
(`Idle` is a stuttering step, so a state in which every other worker waits is
found by the liveness properties and by `OnlyPollsDeadlock`). It is
not checked in `revision_numbering`, `release` and `gateway_transfer`, where nobody
need begin a task and the bounds end every behaviour, and in `compile_texts`, which
ends with its task.

**Faulty variants.** Each module defines, before the operators they vary, the
bugs the code could plausibly have (no recheck of the claimed row, recovery of
all workers' rows, a kept session, a separately committed number, ...).
`PROJECT.json` pairs each property with a variant under which it fails.

**What the properties leave open on purpose.** `FreshSuccessDeployable` speaks
of successes only, because `scripts/compiler.py:56` registers a revision whenever
the upload took place, without a binary too. `DeployedIsRegistered` and
`DeployHostsRunRegistered` say of which build the binary is that a host runs; that it
may be a part of it is `DeployedIsWhole` and finding 4. `NoAbandoned` and
`EveryTaskEnds` except the scripts of finding 3. `OwnTexts` excepts colliding names,
`LoopEnds` a cycle of dictionaries that cannot be written, `NeededIsSaved` those
over which an exception was ignored, `OwnSuite` files that begin with a blank piece:
in each of these the code does something else, and the model reaches it.
`MessagesAreReported` leaves out errors that another replaces or nothing ends.
`AnswersResolved` speaks of runs without `--incremental`, `OneOfEach` and
`AnswersResolved` of profiles where no row was removed between two pages. `OneOfEach`
and `SuitesApart` say of the rows that `import_templates` numbers only that they are
in its suites: the dump takes one whose number is an old id for its own and writes
the old text into it.

## 4. Findings

1. **Leftover row lock** (`task_executor.py:92`, `queue_leftover_lock`). Two
   workers of one filter select the same row; the loser waits for its lock, gets
   it once the winner has committed its claim, finds the row claimed, and returns
   from the cycle without ending its transaction. It keeps the lock while it is
   idle. The winner runs the script and blocks in its final commit until the loser
   claims some other row: with no further request, for ever.
2. **Null args** (`task_executor.py:98`, `queue_null_args`). `task.create`
   allows `args=None` (its default); on the untargeted types the `TypeError`
   leaves the row enqueued and oldest, and the worker takes it again for ever.
3. **No verdict** (`task_executor.py:122` and `134`, `queue_broken_import`). Only
   `ModuleNotFoundError` and `AttributeError` fail the task; any other exception
   on import leaves it working until the process restarts. So does a path that names
   something false: it is not called, and the cycle ends with the status working.
4. **Partial deploy** (`engine/backends/ssh.py:138`, `release_damaged`). `_upload`
   reports code 0 whatever tar and the extraction returned, so the test of
   `engine/tasks/deploy.py:104` never holds: a truncated binary is installed, the
   engine restarts with it and the deploy reports success.
5. **Incremental dump overwrites** (`tools/dump.py:328`, `gateway_incremental`).
   The help of `--incremental` says "Do not update existed templates" (lines
   395-396), but a template with a reference that has no new id yet is noted in
   `delayed_update` before it is skipped, and the last loop updates it. A run has
   created it and broken off, a user edits it, the incremental repetition restores
   the old database's text.

`EveryTaskEnds` holds where the first three are absent: one worker per filter, and
only tasks whose queue has no null args and whose script can be imported and is not
false. `EveryTaskTaken` shows the other half: leftover locks, and circles of them,
never keep an enqueued row from being taken.

## 5. Proofs

All theorems are of the form `Spec => []Inv`, `Spec => [][A]_vars` or
an implication between specifications, for any values of the constants (tasks,
workers, hosts, dictionaries, lines, archives), any bounds and any fault history.
They use the named assumptions on the constants only (`ServesType`, `KindsType`,
`BoundsType`, `SentinelsAreNew`; `NumberingBounds`, `NumberingSentinels`;
`ReleaseBounds`, `HostTables`, `GroupsAreNoHosts`; `NameTables`, `GatewayLists`;
`LinesArePatterns`, `MessageSentinel`; `LineBounds`; `ListBounds`, `Kinds`,
`ArchivesHavePieces`, `OldDatabase`, `EditsBound`, `NoKeyIsNoId`, `CountersAreKeys`).

`TaskQueueProofs`. None of the properties is inductive. `HoldsTask` (who is past
its SELECT has a task, and at the final commit a verdict) is what `TypeOK` lacks.
`Safe` adds what protects a task: `ClaimIsLocked` (a claimed row is enqueued and
row-locked by its worker), `ClaimIsOwned` (past the claim the row is working and
`locked_by` names the worker) and `CalledInBetween` (the count of calls follows
the worker's place). The chain is: the row lock and the recheck keep a claimed
row enqueued until its worker commits; so `locked_by` of a working row names the
only worker that can be past its claim; so only it, or its own recovery when it
is down, writes the verdict. `TypeCorrect`,
`CalledAtMostOnce`, `NeverTwoRunners` and `VerdictsAreFinal` follow, and
`ImplementsLifecycle` maps each action to an abstract one or a stutter
(`Recover` to `Fail` of all its rows at once).

`TaskRecordProofs` strengthens the invariant by the record of a task: reports,
result, error text and notices as a function of the status and of the place of
the worker that is on it; for a script that is never called the function has
the second "working" and no verdict. From it: `ReportsAreTrue`, `VerdictsAreBacked`,
`NoticesAreInOrder`, `ScriptsHoldNoLock`, `OldestIsTaken` (the rows of the
snapshot no longer in `cand` are not enqueued), `DeadlocksHitPolls` (`LockFree`:
who holds a row lock polls or claims, and who claims does not wait) and
`NothingAbandoned`, which needs it, since the victim of a deadlock abandons what
it is doing.

`RevisionNumberingProofs`. The invariant ties `seqLock` to the one call that has
a number of the complect: while it holds the lock nobody changes `last`, so its
number stays the successor; the committed numbers are then an initial segment.
`NumberingTyped`, `NumbersAreGapless`, `RevisionsAreDistinct`, `NumbersAreReserved`,
`RevisionsOnlyGrow`.

`ReleaseProofs`. The properties need what no single step shows: that a directory in
use is on the worker's own host, young, in no revision and nobody else's
(`DirsHeld`), that a run carries the build of its task (`RunsCarry`), that a deploy
worker that reaches a host reaches its own (`OwnSteps`, from `GroupsAreNoHosts`), and
what the engines were given (`EnginesHold`). `DirsHeld` is why registered binaries
are never overwritten (`RevisionsStayImmutable`) and why the clean-up spares fresh
ones (`SuccessesStayDeployable`); with `EnginesHold` it gives
`DeploysWhatIsRegistered` and `DeployHostsStayRegistered`. `DamageTraced` follows a
part through a run: what its engine has been given is damaged only if the run's own
directory is. `LinksCounted` (one
connection while on a host) gives `LeaksAreBounded`. One lemma per action.

`CompileTextsProofs` has three parts. The export: `WorkLeft`: every needed code is
saved, lost, not there, or still in the worklist; `OnlyNeeded`: saved and worklist
are in every set closed under includes; `LookedAt`: what the first loop has passed is
exported or kept. At the end the worklist is empty, so the saved codes are closed:
`AllNeededIsSaved`, which quantifies over all closed sets instead of doing induction
over chains. `OnlyNeededIsSaved` and `TextsAreOwn` are the other two. The parser:
`StateIsRead` says in terms of the lines what `current` is: the one error that is
still open (`Pending`). From it, line by line, `EveryErrorIsReported` and
`NoForeignFields`, for outputs of any length. The whole: each of its steps is a step
or a stutter of each part (`TextsImplementExport`, `TextsImplementParser`), so the
theorems of both hold in it.

`GatewayListProofs` has the lemmas on places: `Place(S, i)` is the number of members
of S up to i. Places grow with the ids, all up to the cardinality are taken
(`PlaceTaken`, by counting), behind a page that is not full there is nothing
(`LastPage`), a removal moves what is behind it by as many places as rows go, and a
suite takes its templates along (`PlaceAfterRemoval`).
`MissedAreShifted` speaks of finished lists only and is not inductive. What is,
is `MissedAreBehind`: a row that a list under way will miss stands before its
offset already, and there are at most `gone` of them. A page settles the rows it
takes, a removal moves at most as many rows to before the offset as it adds to `gone`
(`PlacesHold`), a new row comes last.

`GatewayTransferProofs`. `RowsInv` holds under the steps of everybody, which gives
`MissesAreShifts`; a row keeps its key, and no id is given twice (`KeysKept`). The
import: while a file that begins with text is read, its one suite is the current one
(`SuiteIsCurrent`), and everything behind the reader is settled; the steps of dumps,
`import_templates` and editors touch none of it. `ToolStands`: what `import_templates`
knows are ids that were given. `TemplatesKeepTheirFile` follows for archives of any
shape.

`LegacyDumpProofs`. What the properties lack is what a run knows, in each phase, of
rows that others change under it; their conjunction with the types is `DumpInv`.
* `SuitesKnown`: as long as no removal came between two pages, `list_all` finds all
  suites (`NothingMissed`), a listing has one, and the run has an id for each listing
  that has a suite.
* `TemplatesKnown`: in the same case the dump has made one row of a template, and in
  the loop it knows a row for each template that has one. A numbered row may have the
  same key: a repeated run refuses a list with both, and takes the numbered one over
  when it is alone, so of the rows the dump has written to there is one for a
  template, the one in `dumped`. `FirstRun` starts
  this: before its first loop the dump has written nothing. With `SuitesKnown` it
  gives `RowsAreUnique`.
* `RowsTrue`: a reference that was written leads to the template that was meant, or
  to a row that is not there any more; this needs that ids are not given again.
  `KnownTrue` says the same of `dumped` and of the texts put aside.
* `AnswersFollow`: a full run has written all references of a template it is through
  with, or has put it aside; when `todo` is empty every template has an id, so the
  second look resolves all. At the end nothing is put aside, and
  `ReferencesAreResolved` follows together with `RowsTrue`.
* `DictsTyped`, with the lemma `FetchedDicts`: the answer has all rows asked for, so
  a name that was asked for and is there is found, and a round that has found
  nothing new can stop: `DictionariesAreComplete`. What is reached is defined by
  closed sets, so no induction over chains of includes is needed.
* `SuitesHeld` and `OwnHeld`, for `SuitesStayApart`: a suite that a run knows is gone
  or has the key of its listing, one that an import or `import_templates` is at is gone
  or has no key. Suites are removed at any time, but their templates with them, a key
  never changes (`SuitesStay`) and no update moves a template; so what held when a
  template was created, in a suite that was there (`TemplateOrigin`), holds as long as
  it is there, also for a run that broke off.

The assumptions on the constants of these modules: a list has a page size of at least
1; there are the two kinds of rows; no id of the old database is the mark of a row
without meta; and the old database has finitely many dictionaries, each a row of the
columns' types. The proofs put no bound on anything else, but the numbers `MaxId`,
`MaxRuns` and `MaxEdits` are whatever one likes.

Only model-checked: liveness (`EveryTaskEnds`, `EveryTaskTaken`, `SequenceFreed`,
`LoopEnds`), which is beyond the prover. Every invariant and action property of a
passing run is proved. `EditsSurvive` and the other properties of section 4 are
violated, so there is nothing to prove.

## 6. Not modelled

* Text: log messages, tracebacks, JSON and template formatting, the patterns of
  the parser as regular expressions, `VarsExport`, `transform_template_text`.
* `info`, `list`, `fetch`, `versions` and the RPC dispatch: reads and forwarding.
* Two masters at once (workers with the same name), and the death of the master.
* A killed process whose database backend still waits for a lock: the model ends
  its transaction at once.
* Hanging scripts and HTTP calls: without timeouts there is nothing to check.
* `scripts/testcase.py`: a sequence of HTTP calls to the engine with one session id;
  one worker runs them all.
* `export_run`, `scripts/dictionary.py` (it cannot be imported, see finding 3).
* Compiling in a pod, the dummy backend, `_put_dir` and `_get_all`, which nothing
  calls.
* `tools/copy_data.py`, which copies a profile into a new one of another gateway, and
  `import_dictionaries.py`, which updates or creates dictionaries by their code, as
  `LegacyDump`'s upload does: loops with no decision but that one. `alembic/`, and
  `nlab/` apart from paging.
* Rows of the gateway that are committed out of the order of their ids (see
  `GatewayList`).

## 7. Plan: done and left

Done, in the order of importance: `TaskQueue` with `TaskLifecycle`,
`RevisionNumbering`, `Release` (which took in the routing of deploy requests),
`DictionaryExport` and `EngineOutputParser` with their composition, `GatewayList`
(the planned list paging), `SuiteImport`, `TemplateImport` and `LegacyDump`, where paging, retries
and concurrent editors meet; proofs of all their invariants.

Left: two masters with orphaned workers in `TaskQueue`; the composition of `Release`
with `RevisionNumbering`, whose revision step `Register` abstracts.
