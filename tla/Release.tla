------------------------------ MODULE Release ------------------------------
(***************************************************************************)
(* Compilation and deployment of complects (scripts/compiler.py,           *)
(* scripts/deploy.py, engine/).  The worker of a compiler host builds a    *)
(* complect in a new directory of the host, installs it in the host's      *)
(* engine and registers a revision that names the directory; the worker of *)
(* a deploy host fetches a revision's binary over SSH and installs it in   *)
(* the engine of the host args["target"] names.  Every upload also deletes *)
(* what is older than a week on the host it uploads to.                    *)
(***************************************************************************)
EXTENDS Naturals

CONSTANTS
    Compiler,       \* settings.ENGINE_COMPILER_HOSTS, one worker per host
    Deployer,       \* settings.ENGINE_DEPLOY_HOSTS, one worker per host
    Pod,            \* the deploy hosts of type "kubernetes"
    Exclusive,      \* the deploy hosts with host_info["exclusive"]
    GroupOf,        \* host_info.get("group") of a deploy host, or NoGroup
    NoGroup,
    Dir,            \* directories that mktemp can create
    NoDir, NoHost, NoRevision,
    MaxBuilds,      \* bound: compile tasks
    MaxDeploys,     \* bound: deploy tasks
    MaxCrashes,     \* bound: deaths of worker processes
    MaxDamages      \* bound: uploads, compilations, installations left in part

Worker == Compiler \cup Deployer
Build  == 1 .. MaxBuilds        \* what a compile task builds; 0 is no binary

(* The filter of a deploy worker, task_executor.py: a host that is not
   exclusive serves the empty target and must not have a group. *)
Serves(w) ==
    IF w \in Exclusive THEN IF GroupOf[w] # NoGroup THEN GroupOf[w] ELSE w
                       ELSE NoGroup

ASSUME ReleaseBounds ==
    /\ MaxBuilds \in Nat /\ MaxDeploys \in Nat
    /\ MaxCrashes \in Nat /\ MaxDamages \in Nat
ASSUME HostTables ==
    /\ Compiler \cap Deployer = {}
    /\ NoHost \notin Worker /\ NoDir \notin Dir
    /\ \A w \in Deployer \ Exclusive : GroupOf[w] = NoGroup
ASSUME GroupsAreNoHosts == \A w \in Deployer : Serves(w) \in Deployer => Serves(w) = w

Revision == [dir : Dir, build : Build, success : BOOLEAN]

(* Where a copy of a build, or the sources it is built from, can be damaged:
   in a directory, in the local directory of a deploy, in an engine. *)
Place == ({"dir"} \X Dir) \cup ({"fetched", "installed", "running"} \X Worker)

VARIABLES
    installed, running, \* of each host: the build given to its engine, and the one it runs
    owner,              \* the host a directory was created on, NoHost while it was not
    present, old,       \* the directories that exist, those made over a week ago
    binary,             \* the build whose dldata.ie2 a directory holds, or 0
    damaged,            \* the places whose content is incomplete
    revisions,          \* complects_revisions, as far as a deploy reads it
    pc, build, dir, compiled, wanted, revision,     \* each worker's run
    conns, failures,    \* each worker's open SSH connections, and runs cut short
    builds, deploys, crashes, damages

engineVars == <<installed, running>>
fileVars   == <<owner, present, old, binary, damaged>>
runVars    == <<build, dir, compiled, wanted, revision>>
linkVars   == <<conns, failures>>
boundVars  == <<builds, deploys, crashes, damages>>
vars == <<engineVars, fileVars, revisions, pc, runVars, linkVars, boundVars>>

Init ==
    /\ installed = [h \in Worker |-> 0]
    /\ running   = [h \in Worker |-> 0]
    /\ owner     = [d \in Dir |-> NoHost]
    /\ present   = {}
    /\ old       = {}
    /\ binary    = [d \in Dir |-> 0]
    /\ damaged   = {}
    /\ revisions = {}
    /\ pc        = [w \in Worker |-> "idle"]
    /\ build     = [w \in Worker |-> 0]
    /\ dir       = [w \in Worker |-> NoDir]
    /\ compiled  = [w \in Worker |-> FALSE]
    /\ wanted    = [w \in Worker |-> FALSE]
    /\ revision  = [w \in Worker |-> NoRevision]
    /\ conns     = [w \in Worker |-> 0]
    /\ failures  = [w \in Worker |-> 0]
    /\ builds    = 0
    /\ deploys   = 0
    /\ crashes   = 0
    /\ damages   = 0

-------------------------------------------------------------------------------
(* Faulty variants of the definitions below: the properties fail on them. *)

FixedDir(w, d) == owner[d] \in {NoHost, w}          \* one upload path for all runs
AnyAge(h) == {d \in present : owner[d] = h}         \* find without -mtime
NewestBinary(w) == builds                           \* the last build, not the revision's
KeptOpen(w) == conns                                \* close() is forgotten
ClosedTwice(w) == [conns EXCEPT ![w] = @ - 2]       \* and by the error path again

-------------------------------------------------------------------------------
To(w, step) == pc' = [pc EXCEPT ![w] = step]

Connected(w) == conns' = [conns EXCEPT ![w] = @ + 1]
ConnsAfterClose(w) == [conns EXCEPT ![w] = @ - 1]

(* The names mktemp makes are new: they hold the second and a random part. *)
FreshDir(w, d) == owner[d] = NoHost

(* What `find data_path -mtime +7 -delete` matches on a host. *)
OldOn(h) == {d \in present \cap old : owner[d] = h}

(* What is done to one place is broken off half-way. *)
Breaks(place) ==
    /\ damages < MaxDamages
    /\ damages' = damages + 1
    /\ damaged' = damaged \cup {place}

(* The damage after the content at one place is copied to another. *)
Copied(from, to) ==
    IF from \in damaged THEN damaged \cup {to} ELSE damaged \ {to}

(* A run is over; its worker takes another task. *)
EndRun(w) ==
    /\ To(w, "idle")
    /\ build'    = [build EXCEPT ![w] = 0]
    /\ dir'      = [dir EXCEPT ![w] = NoDir]
    /\ compiled' = [compiled EXCEPT ![w] = FALSE]
    /\ wanted'   = [wanted EXCEPT ![w] = FALSE]
    /\ revision' = [revision EXCEPT ![w] = NoRevision]

(* An early return or an exception.  A compile task goes on to its report,
   with engine_complect only if upload had returned; nothing is closed. *)
CutShort(w) ==
    /\ failures' = [failures EXCEPT ![w] = @ + 1]
    /\ \/ /\ w \in Compiler
          /\ To(w, "report")
          /\ dir' = [dir EXCEPT ![w] =
                       IF pc[w] \in {"extract", "clean"} THEN NoDir ELSE @]
          /\ UNCHANGED <<build, compiled, wanted, revision>>
       \/ w \in Deployer /\ EndRun(w)
    /\ UNCHANGED conns

-------------------------------------------------------------------------------
(* The steps of a compile task. *)

StartCompile(c) ==
    /\ pc[c] = "idle"
    /\ builds < MaxBuilds
    /\ builds' = builds + 1
    /\ build'  = [build EXCEPT ![c] = builds + 1]
    /\ \E try \in BOOLEAN : wanted' = [wanted EXCEPT ![c] = try]
    /\ To(c, "connect")
    /\ UNCHANGED <<engineVars, fileVars, revisions, dir, compiled, revision,
                   linkVars, deploys, crashes, damages>>

Connect(c) ==
    /\ pc[c] = "connect"
    /\ Connected(c)
    /\ To(c, "prepare")
    /\ UNCHANGED <<engineVars, fileVars, revisions, runVars, failures, boundVars>>

(* Download and preprocessing, both without error. *)
Prepare(c) ==
    /\ pc[c] = "prepare"
    /\ To(c, "mkdir")
    /\ UNCHANGED <<engineVars, fileVars, revisions, runVars, linkVars, boundVars>>

(* The compiler's exit code is 0 and it has written dldata.ie2: incomplete when
   its sources are. *)
Compile(c) ==
    /\ pc[c] = "compile"
    /\ binary'   = [binary EXCEPT ![dir[c]] = build[c]]
    /\ compiled' = [compiled EXCEPT ![c] = TRUE]
    /\ To(c, "update")
    /\ UNCHANGED <<engineVars, owner, present, old, damaged, revisions, build, dir,
                   wanted, revision, linkVars, boundVars>>

(* Another exit code or a lost connection: there may be a file, whole or not. *)
CompileFails(c) ==
    /\ pc[c] = "compile"
    /\ \E b \in {0, build[c]} : binary' = [binary EXCEPT ![dir[c]] = b]
    /\ UNCHANGED <<damaged, damages>> \/ Breaks(<<"dir", dir[c]>>)
    /\ CutShort(c)
    /\ UNCHANGED <<engineVars, owner, present, old, revisions, builds, deploys,
                   crashes>>

(* format_output_result, then a revision if one is wanted and upload returned. *)
Report(c) ==
    /\ pc[c] = "report"
    /\ IF wanted[c] /\ dir[c] # NoDir
         THEN To(c, "register") /\ UNCHANGED runVars
         ELSE EndRun(c)
    /\ UNCHANGED <<engineVars, fileVars, revisions, linkVars, boundVars>>

(* The success of the result: exit code 0 and no message in any output. *)
Success(c, messages) == compiled[c] /\ ~messages

Register(c) ==
    /\ pc[c] = "register"
    /\ \E messages \in BOOLEAN :
         revisions' = revisions \cup
             {[dir |-> dir[c], build |-> build[c], success |-> Success(c, messages)]}
    /\ EndRun(c)
    /\ UNCHANGED <<engineVars, fileVars, linkVars, boundVars>>

(* The gateway fails while messages are enriched or the revision is created:
   the task fails whatever the engine runs by now. *)
ReportFails(c) ==
    /\ pc[c] \in {"report", "register"}
    /\ EndRun(c)
    /\ UNCHANGED <<engineVars, fileVars, revisions, linkVars, boundVars>>

-------------------------------------------------------------------------------
(* The steps of a deploy task. *)

StartDeploy(w) ==
    /\ pc[w] = "idle"
    /\ deploys < MaxDeploys
    /\ deploys' = deploys + 1
    /\ \E r \in revisions : revision' = [revision EXCEPT ![w] = r]
    /\ To(w, "source")
    /\ UNCHANGED <<engineVars, fileVars, revisions, build, dir, compiled, wanted,
                   linkVars, builds, crashes, damages>>

ConnectSource(w) ==
    /\ pc[w] = "source"
    /\ Connected(w)
    /\ To(w, "fetch")
    /\ UNCHANGED <<engineVars, fileVars, revisions, runVars, failures, boundVars>>

SourceBinary(w) == binary[revision[w].dir]

(* get_file raises when there is no file, or when fewer bytes arrive than the
   file has; the source is closed after it. *)
Fetch(w) ==
    /\ pc[w] = "fetch"
    /\ SourceBinary(w) # 0
    /\ build' = [build EXCEPT ![w] = SourceBinary(w)]
    /\ damaged' = Copied(<<"dir", revision[w].dir>>, <<"fetched", w>>)
    /\ conns' = ConnsAfterClose(w)
    /\ To(w, "target")
    /\ UNCHANGED <<engineVars, owner, present, old, binary, revisions, dir, compiled,
                   wanted, revision, failures, boundVars>>

(* args["target"] has replaced the worker's host name: only a target that is a
   deploy host has a backend. *)
ConnectTarget(w) ==
    /\ pc[w] = "target"
    /\ Serves(w) \in Deployer \ Pod
    /\ Connected(w)
    /\ To(w, "mkdir")
    /\ UNCHANGED <<engineVars, fileVars, revisions, runVars, failures, boundVars>>

(* No such host (KeyError), or a pod: update() returns None. *)
TargetFails(w) ==
    /\ pc[w] = "target"
    /\ Serves(w) \notin Deployer \ Pod
    /\ CutShort(w)
    /\ UNCHANGED <<engineVars, fileVars, revisions, boundVars>>

-------------------------------------------------------------------------------
(* The backend's steps, on the host of the run. *)

HostOf(w) == IF w \in Compiler THEN w ELSE Serves(w)

MakeDir(w) ==
    /\ pc[w] = "mkdir"
    /\ \E d \in Dir :
         /\ FreshDir(HostOf(w), d)
         /\ owner'   = [owner EXCEPT ![d] = HostOf(w)]
         /\ present' = present \cup {d}
         /\ dir'     = [dir EXCEPT ![w] = d]
    /\ To(w, "extract")
    /\ UNCHANGED <<engineVars, old, binary, damaged, revisions, build, compiled,
                   wanted, revision, linkVars, boundVars>>

(* What an upload finds of what it is to upload: sources, or a fetched binary. *)
Uploaded(w) ==
    IF w \in Compiler THEN damaged ELSE Copied(<<"fetched", w>>, <<"dir", dir[w]>>)

(* Archive, put, extract: the exit codes are dropped, and the run goes on with
   what there is: all, a part, or nothing.  A compile task uploads sources, a
   deploy its binary. *)
Extract(w) ==
    /\ pc[w] = "extract"
    /\ IF w \in Compiler THEN UNCHANGED binary
       ELSE \E b \in {binary[dir[w]], build[w]} :
              binary' = [binary EXCEPT ![dir[w]] = b]
    /\ \/ damaged' = Uploaded(w) /\ UNCHANGED damages
       \/ Breaks(<<"dir", dir[w]>>)
    /\ To(w, "clean")
    /\ UNCHANGED <<engineVars, owner, present, old, revisions, runVars,
                   linkVars, builds, deploys, crashes>>

(* The deletion may stop at any file; upload reports code 0 all the same. *)
Clean(w) ==
    /\ pc[w] = "clean"
    /\ \E gone \in SUBSET OldOn(HostOf(w)) :
         /\ present' = present \ gone
         /\ binary'  = [d \in Dir |-> IF d \in gone THEN 0 ELSE binary[d]]
         /\ damaged' = damaged \ ({"dir"} \X gone)
    /\ To(w, IF w \in Compiler THEN "compile" ELSE "update")
    /\ UNCHANGED <<engineVars, owner, old, revisions, runVars, linkVars, boundVars>>

Update(w) ==
    /\ pc[w] = "update"
    /\ binary[dir[w]] # 0
    /\ installed' = [installed EXCEPT ![HostOf(w)] = binary[dir[w]]]
    /\ damaged' = Copied(<<"dir", dir[w]>>, <<"installed", HostOf(w)>>)
    /\ To(w, "restart")
    /\ UNCHANGED <<running, owner, present, old, binary, revisions, runVars,
                   linkVars, boundVars>>

(* A non-zero code or a lost connection: before the effect, in the middle of it
   or after it. *)
UpdateFails(w) ==
    /\ pc[w] = "update"
    /\ \/ UNCHANGED <<installed, damaged, damages>>
       \/ /\ binary[dir[w]] # 0
          /\ installed' = [installed EXCEPT ![HostOf(w)] = binary[dir[w]]]
          /\ \/ /\ damaged' = Copied(<<"dir", dir[w]>>, <<"installed", HostOf(w)>>)
                /\ UNCHANGED damages
             \/ Breaks(<<"installed", HostOf(w)>>)
    /\ CutShort(w)
    /\ UNCHANGED <<running, owner, present, old, binary, revisions, builds,
                   deploys, crashes>>

Restarted(w) ==
    /\ running' = [running EXCEPT ![HostOf(w)] = installed[HostOf(w)]]
    /\ damaged' = Copied(<<"installed", HostOf(w)>>, <<"running", HostOf(w)>>)

Restart(w) ==
    /\ pc[w] = "restart"
    /\ Restarted(w)
    /\ To(w, "close")
    /\ UNCHANGED <<installed, owner, present, old, binary, revisions, runVars,
                   linkVars, boundVars>>

RestartFails(w) ==
    /\ pc[w] = "restart"
    /\ Restarted(w) \/ UNCHANGED <<running, damaged>>
    /\ CutShort(w)
    /\ UNCHANGED <<installed, owner, present, old, binary, revisions, boundVars>>

(* close(), local clean-up; a deploy reports success. *)
Close(w) ==
    /\ pc[w] = "close"
    /\ conns' = ConnsAfterClose(w)
    /\ IF w \in Compiler THEN To(w, "report") /\ UNCHANGED runVars ELSE EndRun(w)
    /\ UNCHANGED <<engineVars, fileVars, revisions, failures, boundVars>>

(* Every other early return and exception before the report. *)
Abort(w) ==
    /\ pc[w] \in {"connect", "prepare", "source", "fetch", "target", "mkdir",
                  "extract", "clean"}
    /\ CutShort(w)
    /\ UNCHANGED <<engineVars, fileVars, revisions, boundVars>>

Crash(w) ==
    /\ pc[w] # "idle"
    /\ crashes < MaxCrashes
    /\ crashes'  = crashes + 1
    /\ conns'    = [conns EXCEPT ![w] = 0]
    /\ failures' = [failures EXCEPT ![w] = 0]
    /\ EndRun(w)
    /\ UNCHANGED <<engineVars, fileVars, revisions, builds, deploys, damages>>

(* A week passes for a directory; a run is shorter than that. *)
Age(d) ==
    /\ d \in present \ old
    /\ \A w \in Worker : dir[w] # d
    /\ old' = old \cup {d}
    /\ UNCHANGED <<engineVars, owner, present, binary, damaged, revisions, pc,
                   runVars, linkVars, boundVars>>

CompileStep(c) ==
    \/ StartCompile(c) \/ Connect(c) \/ Prepare(c) \/ Compile(c) \/ CompileFails(c)
    \/ Report(c) \/ Register(c) \/ ReportFails(c)

DeployStep(w) ==
    \/ StartDeploy(w) \/ ConnectSource(w) \/ Fetch(w)
    \/ ConnectTarget(w) \/ TargetFails(w)

BackendStep(w) ==
    \/ MakeDir(w) \/ Extract(w) \/ Clean(w) \/ Update(w) \/ UpdateFails(w)
    \/ Restart(w) \/ RestartFails(w) \/ Close(w) \/ Abort(w) \/ Crash(w)

Next ==
    \/ \E c \in Compiler : CompileStep(c)
    \/ \E w \in Deployer : DeployStep(w)
    \/ \E w \in Worker : BackendStep(w)
    \/ \E d \in Dir : Age(d)

Spec == Init /\ [][Next]_vars

-------------------------------------------------------------------------------
(* The variables have their types. *)
Step == {"idle", "connect", "prepare", "mkdir", "extract", "clean", "compile",
         "update", "restart", "close", "report", "register",
         "source", "fetch", "target"}

TypeOK ==
    /\ installed \in [Worker -> {0} \cup Build]
    /\ running   \in [Worker -> {0} \cup Build]
    /\ owner     \in [Dir -> Worker \cup {NoHost}]
    /\ present   \subseteq Dir
    /\ old       \subseteq Dir
    /\ binary    \in [Dir -> {0} \cup Build]
    /\ damaged   \subseteq Place
    /\ revisions \subseteq Revision
    /\ pc        \in [Worker -> Step]
    /\ build     \in [Worker -> {0} \cup Build]
    /\ dir       \in [Worker -> Dir \cup {NoDir}]
    /\ compiled  \in [Worker -> BOOLEAN]
    /\ wanted    \in [Worker -> BOOLEAN]
    /\ revision  \in [Worker -> revisions \cup {NoRevision}]
    /\ conns     \in [Worker -> Nat]
    /\ failures  \in [Worker -> Nat]
    /\ builds \in 0 .. MaxBuilds /\ deploys \in 0 .. MaxDeploys
    /\ crashes \in 0 .. MaxCrashes /\ damages \in 0 .. MaxDamages

(* From the restart of a target's engine to the success that a deploy task
   reports, the engine runs what the task's own upload has put into its
   directory, and that comes from the build of the task's revision: no other
   task has replaced the binary at its path, in its directory or on its host
   (engine/tasks/deploy.py, 41-133).  What an upload left incomplete it is
   only if the directory was: DeployedIsWhole asks for more. *)
DeployedIsRegistered ==
    \A w \in Deployer : pc[w] = "close" =>
        /\ running[HostOf(w)] = revision[w].build
        /\ <<"running", HostOf(w)>> \in damaged => <<"dir", dir[w]>> \in damaged

(* A deploy task that comes to its success runs its binary as whole as it was
   fetched: the result of the upload is looked at before the engine is updated
   (deploy.py, 104-106). *)
DeployedIsWhole ==
    \A w \in Deployer : pc[w] = "close" =>
        (<<"running", HostOf(w)>> \in damaged => <<"fetched", w>> \in damaged)

(* Once a directory is in a revision its binary is never written again, only
   deleted: the path of a revision means one content for ever. *)
RegisteredIsImmutable ==
    [][\A r \in revisions :
          \/ binary'[r.dir] = 0
          \/ /\ binary'[r.dir] = binary[r.dir]
             /\ <<"dir", r.dir>> \in damaged' <=> <<"dir", r.dir>> \in damaged]_vars

(* A revision whose compilation was reported as a success can be deployed for a
   week: its directory has a binary of its build, and every upload's clean-up
   spares it (ssh.py, 123-131).  That the sources came whole is not said. *)
FreshSuccessDeployable ==
    \A r \in revisions : r.success /\ r.dir \notin old => binary[r.dir] = r.build

(* What the engine of a deploy host runs comes, whole or in part, from the build
   of a registered revision, also after tasks that failed between update and
   restart. *)
DeployHostsRunRegistered ==
    \A h \in Deployer : running[h] # 0 => \E r \in revisions : r.build = running[h]

(* Every connection that an idle worker keeps open is owed to a run cut short:
   a run that went through leaves none (the early returns of compiler.py and
   deploy.py skip close()). *)
LeaksAreFailures ==
    \A w \in Worker : pc[w] = "idle" => conns[w] <= failures[w]

=============================================================================
