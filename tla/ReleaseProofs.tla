---------------------------- MODULE ReleaseProofs ----------------------------
(***************************************************************************)
(* Proofs about Release, for every set of hosts and directories and every  *)
(* bound.                                                                  *)
(***************************************************************************)
EXTENDS Release, TLAPS

CompileSteps == {"idle", "connect", "prepare", "mkdir", "extract", "clean",
                 "compile", "update", "restart", "close", "report", "register"}
DeploySteps  == {"idle", "source", "fetch", "target", "mkdir", "extract", "clean",
                 "update", "restart", "close"}
OnHost   == {"mkdir", "extract", "clean", "update", "restart", "close"}
Fetched  == OnHost \cup {"target"}
WithDir  == {"extract", "clean", "compile", "update", "restart", "close", "register"}
Dirless  == {"idle", "connect", "prepare", "source", "fetch", "target", "mkdir"}
Unbuilt  == {"idle", "connect", "prepare", "mkdir", "extract", "clean", "compile"}
Open     == OnHost \cup {"prepare", "fetch", "compile"}

(* Each kind of worker takes its own steps, and a deploy worker that reaches
   a host reaches its own: every other target is refused before. *)
OwnSteps ==
    /\ \A c \in Compiler : pc[c] \in CompileSteps
    /\ \A w \in Deployer : pc[w] \in DeploySteps
    /\ \A w \in Deployer : pc[w] \in OnHost => HostOf(w) = w

(* A directory in use is on the worker's host, young, in no revision, and no
   other worker's; it holds nothing but the run's build. *)
DirsHeld ==
    /\ \A d \in Dir : owner[d] = NoHost =>
          d \notin present /\ d \notin old /\ binary[d] = 0
    /\ \A w \in Worker : pc[w] \in WithDir => dir[w] \in Dir
    /\ \A w \in Worker : pc[w] \in Dirless => dir[w] = NoDir
    /\ \A w \in Worker : dir[w] \in Dir =>
          /\ owner[dir[w]] # NoHost
          /\ dir[w] \notin old
          /\ binary[dir[w]] \in {0, build[w]}
          /\ \A v \in Worker \ {w} : dir[v] # dir[w]
          /\ \A r \in revisions : r.dir # dir[w]

(* What a revision says of its directory. *)
RevisionsHold ==
    \A r \in revisions :
        /\ owner[r.dir] # NoHost
        /\ r.build \in 1 .. builds
        /\ binary[r.dir] \in {0, r.build}
        /\ r.success /\ r.dir \notin old => binary[r.dir] = r.build

(* A run carries the build of its task. *)
RunsCarry ==
    /\ \A c \in Compiler : pc[c] # "idle" => build[c] \in 1 .. builds
    /\ \A w \in Worker : w \in Deployer \/ pc[w] \in Unbuilt => ~compiled[w]
    /\ \A c \in Compiler : compiled[c] =>
          dir[c] \in Dir /\ binary[dir[c]] = build[c]
    /\ \A w \in Deployer : pc[w] # "idle" => revision[w] \in revisions
    /\ \A w \in Deployer : pc[w] \in Fetched => build[w] = revision[w].build

(* What the engines of deploy hosts were given. *)
EnginesHold ==
    /\ \A h \in Deployer : installed[h] = 0 \/ \E r \in revisions : r.build = installed[h]
    /\ \A h \in Deployer : running[h] = 0 \/ \E r \in revisions : r.build = running[h]
    /\ \A w \in Deployer : pc[w] = "restart" => installed[w] = build[w]
    /\ \A w \in Deployer : pc[w] = "close" => running[w] = build[w]

(* What a deploy's engine has incomplete is incomplete in the run's directory. *)
DamageTraced ==
    \A w \in Deployer :
        /\ pc[w] = "restart" /\ <<"installed", w>> \in damaged
              => <<"dir", dir[w]>> \in damaged
        /\ pc[w] = "close" /\ <<"running", w>> \in damaged
              => <<"dir", dir[w]>> \in damaged

(* A run has one connection open while it works on a host. *)
LinksCounted ==
    \A w \in Worker :
        /\ pc[w] \in Open => conns[w] >= 1
        /\ conns[w] <= failures[w] + (IF pc[w] \in Open THEN 1 ELSE 0)

IInv == TypeOK /\ OwnSteps /\ DirsHeld /\ RevisionsHold /\ RunsCarry
        /\ EnginesHold /\ LinksCounted

------------------------------------------------------------------------------

(* The end of a run leaves a worker without one. *)
LEMMA EndRunTyped ==
    ASSUME TypeOK, NEW w \in Worker, EndRun(w)
    PROVE  /\ pc'       \in [Worker -> Step]
           /\ build'    \in [Worker -> {0} \cup Build]
           /\ dir'      \in [Worker -> Dir \cup {NoDir}]
           /\ compiled' \in [Worker -> BOOLEAN]
           /\ wanted'   \in [Worker -> BOOLEAN]
           /\ revision' \in [Worker -> revisions \cup {NoRevision}]
<1>1. compiled' \in [Worker -> BOOLEAN]
      BY DEF EndRun, TypeOK
<1>2. wanted' \in [Worker -> BOOLEAN]
      BY DEF EndRun, TypeOK
<1>3. QED BY <1>1, <1>2 DEF EndRun, To, TypeOK, Step

(* So does a run cut short, or it goes to its report. *)
LEMMA CutShortTyped ==
    ASSUME TypeOK, NEW w \in Worker, CutShort(w)
    PROVE  /\ pc'       \in [Worker -> Step]
           /\ build'    \in [Worker -> {0} \cup Build]
           /\ dir'      \in [Worker -> Dir \cup {NoDir}]
           /\ compiled' \in [Worker -> BOOLEAN]
           /\ wanted'   \in [Worker -> BOOLEAN]
           /\ revision' \in [Worker -> revisions \cup {NoRevision}]
           /\ conns'    \in [Worker -> Nat]
           /\ failures' \in [Worker -> Nat]
<1>1. conns' \in [Worker -> Nat] /\ failures' \in [Worker -> Nat]
      BY DEF CutShort, TypeOK
<1>2. CASE w \in Deployer /\ EndRun(w)
      BY <1>1, <1>2, EndRunTyped
<1>3. CASE /\ To(w, "report")
           /\ dir' = [dir EXCEPT ![w] =
                        IF pc[w] \in {"extract", "clean"} THEN NoDir ELSE @]
           /\ UNCHANGED <<build, compiled, wanted, revision>>
      BY <1>1, <1>3 DEF To, TypeOK, Step
<1>4. QED BY <1>2, <1>3 DEF CutShort

(* A run on a host has the places of its host and its directory. *)
LEMMA PlacesTyped ==
    ASSUME IInv, NEW w \in Worker
    PROVE  /\ pc[w] \in OnHost => HostOf(w) \in Worker
           /\ pc[w] \in WithDir => <<"dir", dir[w]>> \in Place
           /\ <<"fetched", w>> \in Place
           /\ pc[w] \in OnHost => <<"installed", HostOf(w)>> \in Place
           /\ pc[w] \in OnHost => <<"running", HostOf(w)>> \in Place
<1>1. pc[w] \in OnHost => HostOf(w) \in Worker
      BY DEF IInv, OwnSteps, HostOf, Worker
<1>2. pc[w] \in WithDir => dir[w] \in Dir
      BY DEF IInv, DirsHeld
<1>3. QED BY <1>1, <1>2 DEF Place

(* Damage is copied from place to place, or done to one. *)
LEMMA DamageTyped ==
    ASSUME TypeOK, NEW to \in Place
    PROVE  /\ \A from : Copied(from, to) \subseteq Place
           /\ Breaks(to) => damaged' \subseteq Place /\ damages' \in 0 .. MaxDamages
<1>1. \A from : Copied(from, to) \subseteq Place
      BY DEF Copied, TypeOK
<1>2. ASSUME Breaks(to) PROVE damaged' \subseteq Place /\ damages' \in 0 .. MaxDamages
  <2>1. damaged' \subseteq Place
        BY <1>2 DEF Breaks, TypeOK
  <2>2. QED BY <1>2, <2>1, ReleaseBounds DEF Breaks, TypeOK
<1>3. QED BY <1>1, <1>2

(* A new compile task holds no directory yet, and its build is the newest. *)
LEMMA StartCompileKeeps ==
    ASSUME IInv, NEW c \in Compiler, StartCompile(c)
    PROVE  IInv'
<1> USE ReleaseBounds, HostTables
    DEF IInv, Worker, Build, StartCompile, To, engineVars, fileVars, linkVars
<1>1. TypeOK'
      BY DEF TypeOK, Step
<1>2. OwnSteps'
      BY DEF OwnSteps, CompileSteps
<1>3. DirsHeld'
      BY DEF DirsHeld, WithDir, Dirless
<1>4. RevisionsHold'
      BY DEF TypeOK, RevisionsHold
<1>5. RunsCarry'
      BY DEF TypeOK, RunsCarry, Unbuilt
<1>6. EnginesHold'
      BY DEF EnginesHold
<1>7. LinksCounted'
      BY DEF LinksCounted, Open, OnHost
<1>8. QED BY <1>1, <1>2, <1>3, <1>4, <1>5, <1>6, <1>7

(* A connection opens with the phase that counts it. *)
LEMMA ConnectKeeps ==
    ASSUME IInv, NEW c \in Compiler, Connect(c)
    PROVE  IInv'
<1> USE ReleaseBounds, HostTables
    DEF IInv, Worker, Build, Connect, Connected, To, engineVars, fileVars,
        runVars, boundVars
<1>1. TypeOK'
      BY DEF TypeOK, Step
<1>2. OwnSteps'
      BY DEF OwnSteps, CompileSteps
<1>3. DirsHeld'
      BY DEF DirsHeld, WithDir, Dirless
<1>4. RevisionsHold'
      BY DEF RevisionsHold
<1>5. RunsCarry'
      BY DEF RunsCarry, Unbuilt
<1>6. EnginesHold'
      BY DEF EnginesHold
<1>7. LinksCounted'
      BY DEF TypeOK, LinksCounted, Open, OnHost
<1>8. QED BY <1>1, <1>2, <1>3, <1>4, <1>5, <1>6, <1>7

(* Preparing a run changes only its place. *)
LEMMA PrepareKeeps ==
    ASSUME IInv, NEW c \in Compiler, Prepare(c)
    PROVE  IInv'
<1> USE ReleaseBounds, HostTables
    DEF IInv, Worker, Build, Prepare, To, engineVars, fileVars, runVars,
        linkVars, boundVars
<1>1. TypeOK'
      BY DEF TypeOK, Step
<1>2. OwnSteps'
      BY DEF OwnSteps, CompileSteps
<1>3. DirsHeld'
      BY DEF DirsHeld, WithDir, Dirless
<1>4. RevisionsHold'
      BY DEF RevisionsHold
<1>5. RunsCarry'
      BY DEF RunsCarry, Unbuilt
<1>6. EnginesHold'
      BY DEF EnginesHold
<1>7. LinksCounted'
      BY DEF LinksCounted, Open, OnHost
<1>8. QED BY <1>1, <1>2, <1>3, <1>4, <1>5, <1>6, <1>7

(* The compiler writes into the directory of the run, which is in no revision. *)
LEMMA CompileKeeps ==
    ASSUME IInv, NEW c \in Compiler, Compile(c)
    PROVE  IInv'
<1> USE ReleaseBounds, HostTables
    DEF IInv, Worker, Build, Compile, To, engineVars, linkVars, boundVars
<1>1. TypeOK'
      BY DEF TypeOK, Step
<1>2. OwnSteps'
      BY DEF OwnSteps, CompileSteps
<1>3. DirsHeld'
      BY DEF DirsHeld, WithDir, Dirless
<1>4. RevisionsHold'
      BY DEF RevisionsHold, DirsHeld, WithDir
<1>5. RunsCarry'
      BY DEF TypeOK, RunsCarry, DirsHeld, WithDir, Unbuilt
<1>6. EnginesHold'
      BY DEF EnginesHold
<1>7. LinksCounted'
      BY DEF LinksCounted, Open, OnHost
<1>8. QED BY <1>1, <1>2, <1>3, <1>4, <1>5, <1>6, <1>7

(* A failed compilation may leave the run's own build, or nothing. *)
LEMMA CompileFailsKeeps ==
    ASSUME IInv, NEW c \in Compiler, CompileFails(c)
    PROVE  IInv'
<1> USE ReleaseBounds, HostTables
    DEF IInv, Worker, Build, CompileFails, CutShort, To, EndRun, engineVars,
        boundVars
<1>1. TypeOK'
  <2>1. binary' \in [Dir -> {0} \cup Build]
        BY DEF TypeOK
  <2>2. CutShort(c) /\ c \in Worker
        OBVIOUS
  <2>3. <<"dir", dir[c]>> \in Place
        BY <2>2, PlacesTyped DEF WithDir
  <2>4. damaged' \subseteq Place /\ damages' \in 0 .. MaxDamages
        BY ONLY <2>3, DamageTyped, CompileFails(c), TypeOK
           DEF CompileFails, TypeOK
  <2>5. QED BY ONLY <2>1, <2>2, <2>4, CutShortTyped, CompileFails(c), TypeOK
           DEF CompileFails, TypeOK, engineVars, fileVars, boundVars
<1>2. OwnSteps'
      BY DEF TypeOK, OwnSteps, CompileSteps
<1>3. DirsHeld'
      BY DEF TypeOK, DirsHeld, WithDir, Dirless
<1>4. RevisionsHold'
      BY DEF RevisionsHold, DirsHeld, WithDir
<1>5. RunsCarry'
      BY DEF TypeOK, RunsCarry, DirsHeld, Unbuilt
<1>6. EnginesHold'
      BY DEF TypeOK, EnginesHold
<1>7. LinksCounted'
      BY DEF TypeOK, LinksCounted, Open
<1>8. QED BY <1>1, <1>2, <1>3, <1>4, <1>5, <1>6, <1>7

(* A report that goes on to register has a directory. *)
LEMMA ReportKeeps ==
    ASSUME IInv, NEW c \in Compiler, Report(c)
    PROVE  IInv'
<1> USE ReleaseBounds, HostTables
    DEF IInv, Worker, Build, Report, To, runVars, EndRun, engineVars,
        fileVars, linkVars, boundVars
<1>1. TypeOK'
  <2>1. c \in Worker
        OBVIOUS
  <2>2. CASE EndRun(c)
        BY ONLY <2>1, <2>2, EndRunTyped, Report(c), TypeOK
           DEF Report, TypeOK, engineVars, fileVars, linkVars, boundVars
  <2>3. CASE To(c, "register") /\ UNCHANGED runVars
        BY ONLY <2>1, <2>3, Report(c), TypeOK
           DEF Report, To, TypeOK, Step, runVars, engineVars, fileVars, linkVars, boundVars
  <2>4. QED BY <2>2, <2>3
<1>2. OwnSteps'
      BY DEF TypeOK, OwnSteps, CompileSteps
<1>3. DirsHeld'
      BY DEF TypeOK, DirsHeld, WithDir, Dirless
<1>4. RevisionsHold'
      BY DEF RevisionsHold
<1>5. RunsCarry'
      BY DEF TypeOK, RunsCarry, Unbuilt
<1>6. EnginesHold'
      BY DEF TypeOK, EnginesHold
<1>7. LinksCounted'
      BY DEF TypeOK, LinksCounted, Open, OnHost
<1>8. QED BY <1>1, <1>2, <1>3, <1>4, <1>5, <1>6, <1>7

(* A revision takes its directory over from the run, with the run's build. *)
LEMMA RegisterKeeps ==
    ASSUME IInv, NEW c \in Compiler, Register(c)
    PROVE  IInv'
<1> USE ReleaseBounds, HostTables
    DEF IInv, Worker, Build, Register, Success, EndRun, To, engineVars,
        fileVars, linkVars, boundVars
<1>1. TypeOK'
  <2>1. EndRun(c) /\ c \in Worker
        OBVIOUS
  <2>2. PICK messages \in BOOLEAN :
          revisions' = revisions \cup
             {[dir |-> dir[c], build |-> build[c], success |-> Success(c, messages)]}
        OBVIOUS
  <2>3. dir[c] \in Dir /\ build[c] \in Build
        BY DEF TypeOK, DirsHeld, WithDir, RunsCarry
  <2>4. Success(c, messages) \in BOOLEAN
        BY DEF TypeOK
  <2>5. [dir |-> dir[c], build |-> build[c], success |-> Success(c, messages)]
           \in Revision
        BY ONLY <2>3, <2>4 DEF Revision
  <2>6. revisions' \subseteq Revision
        BY ONLY <2>2, <2>5, TypeOK DEF TypeOK
  <2>7. QED BY ONLY <2>1, <2>2, <2>6, EndRunTyped, Register(c), TypeOK
           DEF Register, TypeOK, engineVars, fileVars, linkVars, boundVars
<1>2. OwnSteps'
      BY DEF OwnSteps, CompileSteps
<1>3. DirsHeld'
      BY DEF TypeOK, DirsHeld, WithDir
<1>4. RevisionsHold'
      BY DEF TypeOK, RevisionsHold, RunsCarry, DirsHeld, WithDir
<1>5. RunsCarry'
      BY DEF TypeOK, RunsCarry
<1>6. EnginesHold'
      BY DEF EnginesHold
<1>7. LinksCounted'
      BY DEF LinksCounted, Open, OnHost
<1>8. QED BY <1>1, <1>2, <1>3, <1>4, <1>5, <1>6, <1>7

(* A failed report ends the run. *)
LEMMA ReportFailsKeeps ==
    ASSUME IInv, NEW c \in Compiler, ReportFails(c)
    PROVE  IInv'
<1> USE ReleaseBounds, HostTables
    DEF IInv, Worker, Build, ReportFails, EndRun, To, engineVars, fileVars,
        linkVars, boundVars
<1>1. TypeOK'
      BY DEF TypeOK, Step
<1>2. OwnSteps'
      BY DEF OwnSteps, CompileSteps
<1>3. DirsHeld'
      BY DEF TypeOK, DirsHeld, WithDir
<1>4. RevisionsHold'
      BY DEF RevisionsHold
<1>5. RunsCarry'
      BY DEF TypeOK, RunsCarry
<1>6. EnginesHold'
      BY DEF EnginesHold
<1>7. LinksCounted'
      BY DEF LinksCounted, Open, OnHost
<1>8. QED BY <1>1, <1>2, <1>3, <1>4, <1>5, <1>6, <1>7

(* A deploy task holds one of the revisions. *)
LEMMA StartDeployKeeps ==
    ASSUME IInv, NEW w \in Deployer, StartDeploy(w)
    PROVE  IInv'
<1> USE ReleaseBounds, HostTables
    DEF IInv, Worker, Build, StartDeploy, To, engineVars, fileVars, linkVars
<1>1. TypeOK'
      BY DEF TypeOK, Step
<1>2. OwnSteps'
      BY DEF OwnSteps, DeploySteps, OnHost
<1>3. DirsHeld'
      BY DEF DirsHeld, WithDir, Dirless
<1>4. RevisionsHold'
      BY DEF RevisionsHold
<1>5. RunsCarry'
      BY DEF TypeOK, RunsCarry, Fetched, OnHost
<1>6. EnginesHold'
      BY DEF EnginesHold
<1>7. LinksCounted'
      BY DEF LinksCounted, Open, OnHost
<1>8. QED BY <1>1, <1>2, <1>3, <1>4, <1>5, <1>6, <1>7

(* The connection to the revision's host. *)
LEMMA ConnectSourceKeeps ==
    ASSUME IInv, NEW w \in Deployer, ConnectSource(w)
    PROVE  IInv'
<1> USE ReleaseBounds, HostTables
    DEF IInv, Worker, Build, ConnectSource, Connected, To, engineVars,
        fileVars, runVars, boundVars
<1>1. TypeOK'
      BY DEF TypeOK, Step
<1>2. OwnSteps'
      BY DEF OwnSteps, DeploySteps, OnHost
<1>3. DirsHeld'
      BY DEF DirsHeld, WithDir, Dirless
<1>4. RevisionsHold'
      BY DEF RevisionsHold
<1>5. RunsCarry'
      BY DEF RunsCarry, Fetched, OnHost
<1>6. EnginesHold'
      BY DEF EnginesHold
<1>7. LinksCounted'
      BY DEF TypeOK, LinksCounted, Open, OnHost
<1>8. QED BY <1>1, <1>2, <1>3, <1>4, <1>5, <1>6, <1>7

(* What is fetched is the revision's build: the directory holds no other. *)
LEMMA FetchKeeps ==
    ASSUME IInv, NEW w \in Deployer, Fetch(w)
    PROVE  IInv'
<1> USE ReleaseBounds, HostTables
    DEF IInv, Worker, Build, Fetch, SourceBinary, ConnsAfterClose, To,
        engineVars, fileVars, boundVars
<1>1. TypeOK'
  <2>1. damaged' \subseteq Place
        BY PlacesTyped, DamageTyped
  <2>2. QED BY <2>1 DEF TypeOK, Step, Revision, LinksCounted, Open, RunsCarry
<1>2. OwnSteps'
      BY DEF OwnSteps, DeploySteps, OnHost
<1>3. DirsHeld'
      BY DEF DirsHeld, WithDir, Dirless
<1>4. RevisionsHold'
      BY DEF RevisionsHold
<1>5. RunsCarry'
      BY DEF TypeOK, RunsCarry, RevisionsHold
<1>6. EnginesHold'
      BY DEF EnginesHold
<1>7. LinksCounted'
      BY DEF TypeOK, LinksCounted, Open, OnHost
<1>8. QED BY <1>1, <1>2, <1>3, <1>4, <1>5, <1>6, <1>7

(* A worker that gets a backend has its own host. *)
LEMMA ConnectTargetKeeps ==
    ASSUME IInv, NEW w \in Deployer, ConnectTarget(w)
    PROVE  IInv'
<1> USE ReleaseBounds, HostTables
    DEF IInv, Worker, Build, ConnectTarget, Connected, To, engineVars,
        fileVars, runVars, boundVars
<1>1. TypeOK'
      BY DEF TypeOK, Step
<1>2. OwnSteps'
  <2>1. Serves(w) = w
        BY ONLY GroupsAreNoHosts, ConnectTarget(w), w \in Deployer DEF ConnectTarget
  <2>2. HostOf(w)' = HostOf(w)
        BY ONLY DEF HostOf, Serves
  <2>3. HostOf(w) = w
        BY ONLY <2>1 DEF HostOf
  <2>4. HostOf(w)' = w
        BY ONLY <2>2, <2>3
  <2>5. QED BY <2>4 DEF TypeOK, OwnSteps, CompileSteps, DeploySteps, OnHost
<1>3. DirsHeld'
      BY DEF DirsHeld, WithDir, Dirless
<1>4. RevisionsHold'
      BY DEF RevisionsHold
<1>5. RunsCarry'
      BY DEF RunsCarry, Fetched
<1>6. EnginesHold'
      BY DEF EnginesHold
<1>7. LinksCounted'
      BY DEF TypeOK, LinksCounted, Open, OnHost
<1>8. QED BY <1>1, <1>2, <1>3, <1>4, <1>5, <1>6, <1>7

(* A target without a backend ends the run. *)
LEMMA TargetFailsKeeps ==
    ASSUME IInv, NEW w \in Deployer, TargetFails(w)
    PROVE  IInv'
<1> USE ReleaseBounds, HostTables
    DEF IInv, Worker, Build, TargetFails, CutShort, To, EndRun, engineVars,
        fileVars, boundVars
<1>1. TypeOK'
  <2>1. CutShort(w) /\ w \in Worker
        OBVIOUS
  <2>2. QED BY <2>1, CutShortTyped DEF TypeOK
<1>2. OwnSteps'
      BY DEF TypeOK, OwnSteps, DeploySteps, OnHost
<1>3. DirsHeld'
      BY DEF TypeOK, DirsHeld, WithDir
<1>4. RevisionsHold'
      BY DEF RevisionsHold
<1>5. RunsCarry'
      BY DEF TypeOK, RunsCarry, Fetched, OnHost
<1>6. EnginesHold'
      BY DEF TypeOK, EnginesHold
<1>7. LinksCounted'
      BY DEF TypeOK, LinksCounted, Open, OnHost
<1>8. QED BY <1>1, <1>2, <1>3, <1>4, <1>5, <1>6, <1>7

(* A fresh directory is no other run's and in no revision. *)
LEMMA MakeDirKeeps ==
    ASSUME IInv, NEW w \in Worker, MakeDir(w)
    PROVE  IInv'
<1> USE ReleaseBounds, HostTables
    DEF IInv, Worker, Build, MakeDir, FreshDir, HostOf, To, engineVars,
        linkVars, boundVars
<1>1. TypeOK'
      BY DEF TypeOK, Step, OwnSteps, OnHost
<1>2. OwnSteps'
      BY DEF OwnSteps, CompileSteps, DeploySteps, OnHost
<1>3. DirsHeld'
      BY DEF TypeOK, DirsHeld, RevisionsHold, Dirless, OwnSteps, OnHost
<1>4. RevisionsHold'
      BY DEF RevisionsHold
<1>5. RunsCarry'
      BY DEF RunsCarry, Unbuilt, Fetched, OnHost
<1>6. EnginesHold'
      BY DEF EnginesHold
<1>7. LinksCounted'
      BY DEF LinksCounted, Open, OnHost
<1>8. QED BY <1>1, <1>2, <1>3, <1>4, <1>5, <1>6, <1>7

(* A deploy extracts its build into its own directory, or nothing. *)
LEMMA ExtractKeeps ==
    ASSUME IInv, NEW w \in Worker, Extract(w)
    PROVE  IInv'
<1> USE ReleaseBounds, HostTables
    DEF IInv, Worker, Build, Extract, To, engineVars, runVars, linkVars,
        boundVars
<1>1. TypeOK'
  <2>1. <<"dir", dir[w]>> \in Place
        BY PlacesTyped DEF WithDir
  <2>2. damaged' \subseteq Place /\ damages' \in 0 .. MaxDamages
        BY ONLY <2>1, DamageTyped, Extract(w), TypeOK DEF Extract, Uploaded, TypeOK
  <2>3. QED BY <2>2 DEF TypeOK, Step
<1>2. OwnSteps'
      BY DEF OwnSteps, CompileSteps, DeploySteps, OnHost
<1>3. DirsHeld'
      BY DEF TypeOK, DirsHeld, WithDir, Dirless
<1>4. RevisionsHold'
      BY DEF TypeOK, RevisionsHold, DirsHeld, Revision
<1>5. RunsCarry'
      BY DEF TypeOK, RunsCarry, DirsHeld, Unbuilt, Fetched, OnHost
<1>6. EnginesHold'
      BY DEF EnginesHold
<1>7. LinksCounted'
      BY DEF LinksCounted, Open, OnHost
<1>8. QED BY <1>1, <1>2, <1>3, <1>4, <1>5, <1>6, <1>7

(* The clean-up deletes only what is old, and what is in use is young. *)
LEMMA CleanKeeps ==
    ASSUME IInv, NEW w \in Worker, Clean(w)
    PROVE  IInv'
<1> USE ReleaseBounds, HostTables
    DEF IInv, Worker, Build, Clean, OldOn, HostOf, To, engineVars, runVars,
        linkVars, boundVars
<1>1. TypeOK'
  <2>1. damaged' \subseteq Place
        BY DEF TypeOK
  <2>2. QED BY <2>1 DEF TypeOK, Step
<1>2. OwnSteps'
      BY DEF OwnSteps, CompileSteps, DeploySteps, OnHost
<1>3. DirsHeld'
      BY DEF DirsHeld, WithDir, Dirless
<1>4. RevisionsHold'
      BY DEF TypeOK, RevisionsHold, Revision
<1>5. RunsCarry'
      BY DEF RunsCarry, DirsHeld, Unbuilt, Fetched, OnHost
<1>6. EnginesHold'
      BY DEF EnginesHold
<1>7. LinksCounted'
      BY DEF LinksCounted, Open, OnHost
<1>8. QED BY <1>1, <1>2, <1>3, <1>4, <1>5, <1>6, <1>7

(* The engine gets the build of the run. *)
LEMMA UpdateKeeps ==
    ASSUME IInv, NEW w \in Worker, Update(w)
    PROVE  IInv'
<1> USE ReleaseBounds, HostTables
    DEF IInv, Worker, Build, Update, HostOf, To, fileVars, runVars, linkVars,
        boundVars
<1>1. TypeOK'
  <2>1. <<"installed", HostOf(w)>> \in Place
        BY ONLY PlacesTyped, IInv, w \in Worker, Update(w) DEF Update, OnHost
  <2>2. damaged' \subseteq Place
        BY ONLY <2>1, DamageTyped, Update(w), TypeOK DEF Update
  <2>3. QED BY <2>2 DEF TypeOK, Step, DirsHeld, WithDir
<1>2. OwnSteps'
      BY DEF OwnSteps, CompileSteps, DeploySteps, OnHost
<1>3. DirsHeld'
      BY DEF DirsHeld, WithDir, Dirless
<1>4. RevisionsHold'
      BY DEF RevisionsHold
<1>5. RunsCarry'
      BY DEF RunsCarry, Unbuilt, Fetched, OnHost
<1>6. EnginesHold'
      BY DEF TypeOK, EnginesHold, RunsCarry, DirsHeld, WithDir, Fetched,
             OwnSteps, OnHost
<1>7. LinksCounted'
      BY DEF LinksCounted, Open, OnHost
<1>8. QED BY <1>1, <1>2, <1>3, <1>4, <1>5, <1>6, <1>7

(* A failed update leaves the engine with the old build or the run's. *)
LEMMA UpdateFailsKeeps ==
    ASSUME IInv, NEW w \in Worker, UpdateFails(w)
    PROVE  IInv'
<1> USE ReleaseBounds, HostTables
    DEF IInv, Worker, Build, UpdateFails, HostOf, CutShort, To, EndRun,
        fileVars, boundVars
<1>1. TypeOK'
  <2>0. binary[dir[w]] \in {0} \cup Build
        BY DEF TypeOK, DirsHeld, WithDir
  <2>1. installed' \in [Worker -> {0} \cup Build]
    <3>1. PICK b \in {0} \cup Build \cup {installed[HostOf(w)]} :
              installed' = [installed EXCEPT ![HostOf(w)] = b]
          BY ONLY <2>0, UpdateFails(w), TypeOK DEF UpdateFails, TypeOK
    <3>2. QED BY ONLY <3>1, TypeOK DEF TypeOK
  <2>2. CutShort(w) /\ w \in Worker
        OBVIOUS
  <2>3. <<"installed", HostOf(w)>> \in Place
        BY ONLY PlacesTyped, IInv, w \in Worker, UpdateFails(w)
           DEF UpdateFails, OnHost
  <2>4. damaged' \subseteq Place /\ damages' \in 0 .. MaxDamages
        BY ONLY <2>3, DamageTyped, UpdateFails(w), TypeOK DEF UpdateFails, TypeOK
  <2>5. QED BY ONLY <2>1, <2>2, <2>4, CutShortTyped, UpdateFails(w), TypeOK
           DEF UpdateFails, TypeOK, engineVars, fileVars, boundVars
<1>2. OwnSteps'
      BY DEF TypeOK, OwnSteps, CompileSteps, DeploySteps, OnHost
<1>3. DirsHeld'
      BY DEF TypeOK, DirsHeld, WithDir, Dirless
<1>4. RevisionsHold'
      BY DEF RevisionsHold
<1>5. RunsCarry'
      BY DEF TypeOK, RunsCarry, Unbuilt, Fetched, OnHost
<1>6. EnginesHold'
      BY DEF TypeOK, EnginesHold, RunsCarry, DirsHeld, WithDir, Fetched,
             OwnSteps, OnHost
<1>7. LinksCounted'
      BY DEF TypeOK, LinksCounted, Open, OnHost
<1>8. QED BY <1>1, <1>2, <1>3, <1>4, <1>5, <1>6, <1>7

(* The engine runs what it was given. *)
LEMMA RestartKeeps ==
    ASSUME IInv, NEW w \in Worker, Restart(w)
    PROVE  IInv'
<1> USE ReleaseBounds, HostTables
    DEF IInv, Worker, Build, Restart, Restarted, HostOf, To, fileVars, runVars, linkVars,
        boundVars
<1>1. TypeOK'
  <2>1. <<"running", HostOf(w)>> \in Place
        BY ONLY PlacesTyped, IInv, w \in Worker, Restart(w) DEF Restart, OnHost
  <2>2. damaged' \subseteq Place
        BY ONLY <2>1, DamageTyped, Restart(w), TypeOK DEF Restart, Restarted
  <2>3. QED BY <2>2 DEF TypeOK, Step
<1>2. OwnSteps'
      BY DEF OwnSteps, CompileSteps, DeploySteps, OnHost
<1>3. DirsHeld'
      BY DEF DirsHeld, WithDir, Dirless
<1>4. RevisionsHold'
      BY DEF RevisionsHold
<1>5. RunsCarry'
      BY DEF RunsCarry, Unbuilt, Fetched, OnHost
<1>6. EnginesHold'
      BY DEF TypeOK, EnginesHold, OwnSteps, OnHost
<1>7. LinksCounted'
      BY DEF LinksCounted, Open, OnHost
<1>8. QED BY <1>1, <1>2, <1>3, <1>4, <1>5, <1>6, <1>7

(* A failed restart leaves the engine with what it ran or was given. *)
LEMMA RestartFailsKeeps ==
    ASSUME IInv, NEW w \in Worker, RestartFails(w)
    PROVE  IInv'
<1> USE ReleaseBounds, HostTables
    DEF IInv, Worker, Build, RestartFails, Restarted, HostOf, CutShort, To, EndRun,
        fileVars, boundVars
<1>1. TypeOK'
  <2>1. running' \in [Worker -> {0} \cup Build]
    <3>1. PICK b \in {installed[HostOf(w)], running[HostOf(w)]} :
              running' = [running EXCEPT ![HostOf(w)] = b]
          BY ONLY RestartFails(w), TypeOK DEF RestartFails, Restarted, TypeOK
    <3>2. HostOf(w) \in Worker => b \in {0} \cup Build
          BY ONLY <3>1, TypeOK DEF TypeOK
    <3>3. QED BY ONLY <3>1, <3>2, TypeOK DEF TypeOK
  <2>2. CutShort(w) /\ w \in Worker
        OBVIOUS
  <2>3. <<"running", HostOf(w)>> \in Place
        BY ONLY PlacesTyped, IInv, w \in Worker, RestartFails(w)
           DEF RestartFails, OnHost
  <2>4. damaged' \subseteq Place
        BY ONLY <2>3, DamageTyped, RestartFails(w), TypeOK
           DEF RestartFails, Restarted, TypeOK
  <2>5. QED BY ONLY <2>1, <2>2, <2>4, CutShortTyped, RestartFails(w), TypeOK
           DEF RestartFails, TypeOK, engineVars, fileVars, boundVars
<1>2. OwnSteps'
      BY DEF TypeOK, OwnSteps, CompileSteps, DeploySteps, OnHost
<1>3. DirsHeld'
      BY DEF TypeOK, DirsHeld, WithDir, Dirless
<1>4. RevisionsHold'
      BY DEF RevisionsHold
<1>5. RunsCarry'
      BY DEF TypeOK, RunsCarry, Unbuilt, Fetched, OnHost
<1>6. EnginesHold'
      BY DEF TypeOK, EnginesHold, OwnSteps, OnHost
<1>7. LinksCounted'
      BY DEF TypeOK, LinksCounted, Open, OnHost
<1>8. QED BY <1>1, <1>2, <1>3, <1>4, <1>5, <1>6, <1>7

(* A run that went through closes its connection. *)
LEMMA CloseKeeps ==
    ASSUME IInv, NEW w \in Worker, Close(w)
    PROVE  IInv'
<1> USE ReleaseBounds, HostTables
    DEF IInv, Worker, Build, Close, ConnsAfterClose, To, runVars, EndRun,
        engineVars, fileVars, boundVars
<1>1. TypeOK'
  <2>1. conns' \in [Worker -> Nat]
        BY DEF TypeOK, LinksCounted, Open, OnHost
  <2>2. CASE w \in Compiler
        BY <2>1, <2>2 DEF TypeOK, Step
  <2>3. CASE w \notin Compiler
    <3>1. EndRun(w)
          BY <2>3
    <3>2. QED BY ONLY <2>1, <3>1, EndRunTyped, Close(w), TypeOK, w \in Worker
             DEF Close, TypeOK, engineVars, fileVars, boundVars
  <2>4. QED BY <2>2, <2>3
<1>2. OwnSteps'
      BY DEF TypeOK, OwnSteps, CompileSteps, DeploySteps, OnHost
<1>3. DirsHeld'
      BY DEF TypeOK, DirsHeld, WithDir, Dirless
<1>4. RevisionsHold'
      BY DEF RevisionsHold
<1>5. RunsCarry'
      BY DEF TypeOK, RunsCarry, Unbuilt, Fetched, OnHost
<1>6. EnginesHold'
      BY DEF TypeOK, EnginesHold
<1>7. LinksCounted'
      BY DEF TypeOK, LinksCounted, Open, OnHost
<1>8. QED BY <1>1, <1>2, <1>3, <1>4, <1>5, <1>6, <1>7

(* A run cut short owes its connection to a failure. *)
LEMMA AbortKeeps ==
    ASSUME IInv, NEW w \in Worker, Abort(w)
    PROVE  IInv'
<1> USE ReleaseBounds, HostTables
    DEF IInv, Worker, Build, Abort, CutShort, To, EndRun, engineVars,
        fileVars, boundVars
<1>1. TypeOK'
  <2>1. CutShort(w) /\ w \in Worker
        OBVIOUS
  <2>2. QED BY <2>1, CutShortTyped DEF TypeOK
<1>2. OwnSteps'
      BY DEF TypeOK, OwnSteps, CompileSteps, DeploySteps, OnHost
<1>3. DirsHeld'
      BY DEF TypeOK, DirsHeld, WithDir, Dirless
<1>4. RevisionsHold'
      BY DEF RevisionsHold
<1>5. RunsCarry'
      BY DEF TypeOK, RunsCarry, Unbuilt, Fetched, OnHost
<1>6. EnginesHold'
      BY DEF TypeOK, EnginesHold
<1>7. LinksCounted'
      BY DEF TypeOK, LinksCounted, Open, OnHost
<1>8. QED BY <1>1, <1>2, <1>3, <1>4, <1>5, <1>6, <1>7

(* The death of a worker process closes its connections. *)
LEMMA CrashKeeps ==
    ASSUME IInv, NEW w \in Worker, Crash(w)
    PROVE  IInv'
<1> USE ReleaseBounds, HostTables
    DEF IInv, Worker, Build, Crash, EndRun, To, engineVars, fileVars
<1>1. TypeOK'
  <2>1. EndRun(w) /\ crashes' \in 0 .. MaxCrashes
        BY DEF TypeOK
  <2>2. conns' \in [Worker -> Nat] /\ failures' \in [Worker -> Nat]
        BY DEF TypeOK
  <2>3. QED BY ONLY <2>1, <2>2, EndRunTyped, Crash(w), TypeOK, w \in Worker
           DEF Crash, TypeOK, engineVars, fileVars
<1>2. OwnSteps'
      BY DEF OwnSteps, CompileSteps, DeploySteps, OnHost
<1>3. DirsHeld'
      BY DEF TypeOK, DirsHeld, WithDir
<1>4. RevisionsHold'
      BY DEF RevisionsHold
<1>5. RunsCarry'
      BY DEF TypeOK, RunsCarry, Fetched, OnHost
<1>6. EnginesHold'
      BY DEF TypeOK, EnginesHold
<1>7. LinksCounted'
      BY DEF TypeOK, LinksCounted, Open, OnHost
<1>8. QED BY <1>1, <1>2, <1>3, <1>4, <1>5, <1>6, <1>7

(* Only directories that no run uses get old. *)
LEMMA AgeKeeps ==
    ASSUME IInv, NEW d \in Dir, Age(d)
    PROVE  IInv'
<1> USE DEF IInv, Age, engineVars, runVars, linkVars, boundVars
<1>1. TypeOK'
      BY DEF TypeOK
<1>2. OwnSteps'
      BY DEF OwnSteps, HostOf
<1>3. DirsHeld'
      BY DEF TypeOK, DirsHeld
<1>4. RevisionsHold'
      BY DEF TypeOK, RevisionsHold
<1>5. RunsCarry'
      BY DEF RunsCarry
<1>6. EnginesHold'
      BY DEF EnginesHold
<1>7. LinksCounted'
      BY DEF LinksCounted
<1>8. QED BY <1>1, <1>2, <1>3, <1>4, <1>5, <1>6, <1>7

(* Nothing is built, held or open at first. *)
LEMMA InitHolds == Init => IInv
<1> SUFFICES ASSUME Init PROVE IInv
    OBVIOUS
<1> USE ReleaseBounds, HostTables DEF Init, Worker
<1>1. TypeOK
      BY DEF TypeOK, Step
<1>2. OwnSteps /\ RunsCarry
      BY DEF OwnSteps, RunsCarry, CompileSteps, DeploySteps, OnHost, Fetched
<1>3. DirsHeld /\ RevisionsHold
      BY DEF DirsHeld, RevisionsHold, WithDir
<1>4. EnginesHold /\ LinksCounted
      BY DEF EnginesHold, LinksCounted, Open, OnHost
<1>5. QED BY <1>1, <1>2, <1>3, <1>4 DEF IInv

(* A step of nobody changes nothing. *)
LEMMA StutterKeeps == IInv /\ UNCHANGED vars => IInv'
<1> SUFFICES ASSUME IInv, UNCHANGED vars PROVE IInv'
    OBVIOUS
<1> USE DEF IInv, vars, engineVars, fileVars, runVars, linkVars, boundVars
<1>1. TypeOK'
      BY DEF TypeOK
<1>2. OwnSteps' /\ RunsCarry' /\ EnginesHold' /\ LinksCounted'
      BY DEF OwnSteps, HostOf, RunsCarry, EnginesHold, LinksCounted
<1>3. DirsHeld' /\ RevisionsHold'
      BY DEF DirsHeld, RevisionsHold
<1>4. QED BY <1>1, <1>2, <1>3

(* The inductive step, by the actor that takes it. *)
LEMMA StepKeeps == IInv /\ [Next]_vars => IInv'
<1> SUFFICES ASSUME IInv, [Next]_vars PROVE IInv'
    OBVIOUS
<1>1. CASE UNCHANGED vars
      BY <1>1, StutterKeeps
<1>2. ASSUME NEW c \in Compiler, CompileStep(c) PROVE IInv'
      BY <1>2, StartCompileKeeps, ConnectKeeps, PrepareKeeps, CompileKeeps,
         CompileFailsKeeps, ReportKeeps, RegisterKeeps, ReportFailsKeeps
         DEF CompileStep
<1>3. ASSUME NEW w \in Deployer, DeployStep(w) PROVE IInv'
      BY <1>3, StartDeployKeeps, ConnectSourceKeeps, FetchKeeps,
         ConnectTargetKeeps, TargetFailsKeeps DEF DeployStep
<1>4. ASSUME NEW w \in Worker, BackendStep(w) PROVE IInv'
      BY <1>4, MakeDirKeeps, ExtractKeeps, CleanKeeps, UpdateKeeps,
         UpdateFailsKeeps, RestartKeeps, RestartFailsKeeps, CloseKeeps,
         AbortKeeps, CrashKeeps DEF BackendStep
<1>5. ASSUME NEW d \in Dir, Age(d) PROVE IInv'
      BY <1>5, AgeKeeps
<1>6. QED BY <1>1, <1>2, <1>3, <1>4, <1>5 DEF Next

-------------------------------------------------------------------------------

(* The inductive invariant holds in every reachable state. *)
THEOREM ReleaseInvariant == Spec => []IInv
<1>1. IInv /\ [Next]_vars => IInv'
      BY StepKeeps
<1>2. QED BY InitHolds, <1>1, PTL DEF Spec

(* The variables have their types, whatever the tables of hosts. *)
THEOREM ReleaseTyped == Spec => []TypeOK
<1>1. IInv => TypeOK
      BY DEF IInv
<1>2. QED BY <1>1, ReleaseInvariant, PTL

(* The damage of a deploy's engine keeps its place in the run's directory: the
   directory is no other run's, and nothing of it is deleted meanwhile. *)
LEMMA DamageStaysTraced ==
    ASSUME IInv, DamageTraced, [Next]_vars
    PROVE  DamageTraced'
<1> SUFFICES ASSUME NEW w \in Deployer
             PROVE  /\ pc'[w] = "restart" /\ <<"installed", w>> \in damaged'
                          => <<"dir", dir'[w]>> \in damaged'
                    /\ pc'[w] = "close" /\ <<"running", w>> \in damaged'
                          => <<"dir", dir'[w]>> \in damaged'
    BY DEF DamageTraced
<1> DEFINE Goal == /\ pc'[w] = "restart" /\ <<"installed", w>> \in damaged'
                         => <<"dir", dir'[w]>> \in damaged'
                   /\ pc'[w] = "close" /\ <<"running", w>> \in damaged'
                         => <<"dir", dir'[w]>> \in damaged'
<1> USE HostTables DEF IInv, Worker
<1>1. \A v \in Worker : pc[v] \in OnHost /\ HostOf(v) = w => v = w
      BY DEF OwnSteps, HostOf
<1>2. \A v \in Worker \ {w} : dir[v] = dir[w] => dir[v] \notin Dir
      BY DEF DirsHeld
<1>3. pc[w] \in {"restart", "close"} => dir[w] \in Dir /\ dir[w] \notin old
      BY DEF DirsHeld, WithDir
<1>4. pc[w] = "update" => HostOf(w) = w
      BY DEF OwnSteps, OnHost
<1>5. ASSUME pc'[w] \notin {"restart", "close"} PROVE Goal
      BY <1>5
<1>6. ASSUME pc'[w] = pc[w], dir'[w] = dir[w],
             <<"installed", w>> \in damaged' => <<"installed", w>> \in damaged,
             <<"running", w>> \in damaged' => <<"running", w>> \in damaged,
             dir[w] \in Dir \ old /\ <<"dir", dir[w]>> \in damaged
                => <<"dir", dir[w]>> \in damaged'
      PROVE  Goal
      BY <1>3, <1>6 DEF DamageTraced
<1>7. ASSUME NEW v \in Worker, v # w, CompileStep(v) \/ DeployStep(v) \/ BackendStep(v)
      PROVE  Goal
  <2>1. pc'[w] = pc[w] /\ dir'[w] = dir[w]
        BY <1>7, HostTables DEF TypeOK, CompileStep, StartCompile, Connect, Prepare, Compile,
           CompileFails, Report, Register, ReportFails, DeployStep, StartDeploy,
           ConnectSource, Fetch, ConnectTarget, TargetFails, BackendStep, MakeDir,
           Extract, Clean, Update, UpdateFails, Restart, RestartFails, Close, Abort,
           Crash, To, EndRun, CutShort, runVars
  <2>2. CASE UNCHANGED damaged
        BY <1>6, <2>1, <2>2
  <2>3. CASE CompileFails(v)
        BY <1>6, <2>1, <2>3 DEF CompileFails, Breaks
  <2>4. CASE Fetch(v)
        BY <1>6, <2>1, <2>4 DEF Fetch, Copied
  <2>5. CASE Extract(v)
    <3>1. dir[w] \in Dir => dir[v] # dir[w]
          BY <1>2, <1>7
    <3>2. damaged' \in {damaged, damaged \cup {<<"dir", dir[v]>>},
                         damaged \ {<<"dir", dir[v]>>}}
          BY <2>5 DEF Extract, Uploaded, Copied, Breaks
    <3>3. QED BY <1>6, <2>1, <3>1, <3>2
  <2>6. CASE Clean(v)
    <3>1. PICK gone \in SUBSET old : damaged' = damaged \ ({"dir"} \X gone)
          BY <2>6 DEF Clean, OldOn
    <3>2. QED BY <1>6, <2>1, <3>1
  <2>7. CASE Update(v) \/ UpdateFails(v)
    <3>1. HostOf(v) # w
          BY <1>1, <1>7, <2>7 DEF Update, UpdateFails, OnHost
    <3>2. damaged' \in {damaged, damaged \cup {<<"installed", HostOf(v)>>},
                         damaged \ {<<"installed", HostOf(v)>>}}
          BY <2>7 DEF Update, UpdateFails, Copied, Breaks
    <3>3. QED BY <1>6, <2>1, <3>1, <3>2
  <2>8. CASE Restart(v) \/ RestartFails(v)
    <3>1. HostOf(v) # w
          BY <1>1, <1>7, <2>8 DEF Restart, RestartFails, OnHost
    <3>2. damaged' \in {damaged, damaged \cup {<<"running", HostOf(v)>>},
                         damaged \ {<<"running", HostOf(v)>>}}
          BY <2>8 DEF Restart, RestartFails, Restarted, Copied
    <3>3. QED BY <1>6, <2>1, <3>1, <3>2
  <2>9. QED BY <1>7, <2>2, <2>3, <2>4, <2>5, <2>6, <2>7, <2>8
           DEF CompileStep, StartCompile, Connect, Prepare, Compile, Report,
               Register, ReportFails, DeployStep, StartDeploy, ConnectSource,
               ConnectTarget, TargetFails, BackendStep, MakeDir, Close, Abort,
               Crash, fileVars
<1>8. ASSUME DeployStep(w) \/ BackendStep(w) PROVE Goal
  <2>1. CASE Update(w)
        BY <1>3, <1>4, <2>1 DEF Update, Copied, To, TypeOK, runVars
  <2>2. CASE Restart(w)
    <3>1. HostOf(w) = w
          BY <2>2 DEF Restart, OwnSteps, OnHost
    <3>2. pc'[w] = "close" /\ dir' = dir
          BY <2>2 DEF Restart, To, TypeOK, runVars
    <3>3. QED BY <2>2, <3>1, <3>2 DEF Restart, Restarted, Copied, DamageTraced
  <2>3. CASE ~(Update(w) \/ Restart(w))
    <3>1. pc'[w] \notin {"restart", "close"}
          BY <1>8, <2>3, HostTables DEF TypeOK, DeployStep, StartDeploy, ConnectSource,
             Fetch, ConnectTarget, TargetFails, BackendStep, MakeDir, Extract,
             Clean, UpdateFails, RestartFails, Close, Abort, Crash, To, EndRun,
             CutShort
    <3>2. QED BY <1>5, <3>1
  <2>4. QED BY <2>1, <2>2, <2>3
<1>9. CASE UNCHANGED vars \/ \E d \in Dir : Age(d)
      BY <1>6, <1>9 DEF vars, Age, runVars, fileVars
<1>10. QED BY <1>7, <1>8, <1>9 DEF Next

(* Whatever is incomplete in the engine of a deploy is so in the run's directory. *)
LEMMA DamageAlwaysTraced == Spec => []DamageTraced
<1>1. Init => DamageTraced
      BY DEF Init, DamageTraced
<1>2. IInv /\ DamageTraced /\ [Next]_vars => DamageTraced'
      BY DamageStaysTraced
<1>3. QED BY <1>1, <1>2, ReleaseInvariant, PTL DEF Spec

(* A deploy task that comes to its success has the build of its revision
   running on its target (engine/tasks/deploy.py, 41-133), no less complete than
   in the run's directory: only the target's worker reaches the target, and no
   run writes into another's directory. *)
THEOREM DeploysWhatIsRegistered == Spec => []DeployedIsRegistered
<1>1. IInv /\ DamageTraced => DeployedIsRegistered
  <2> SUFFICES ASSUME IInv, DamageTraced, NEW w \in Deployer, pc[w] = "close"
               PROVE  /\ running[HostOf(w)] = revision[w].build
                      /\ <<"running", HostOf(w)>> \in damaged
                            => <<"dir", dir[w]>> \in damaged
      BY DEF DeployedIsRegistered
  <2>1. HostOf(w) = w
        BY DEF IInv, OwnSteps, OnHost
  <2>2. running[w] = build[w] /\ build[w] = revision[w].build
        BY DEF IInv, EnginesHold, RunsCarry, Fetched, OnHost
  <2>3. <<"running", w>> \in damaged => <<"dir", dir[w]>> \in damaged
        BY DEF DamageTraced
  <2>4. QED BY <2>1, <2>2, <2>3
<1>2. QED BY <1>1, ReleaseInvariant, DamageAlwaysTraced, PTL

(* A revision reported as a success can be deployed for a week (ssh.py,
   123-131): the clean-up deletes nothing younger, and nothing else deletes. *)
THEOREM SuccessesStayDeployable == Spec => []FreshSuccessDeployable
<1>1. IInv => FreshSuccessDeployable
      BY DEF IInv, RevisionsHold, FreshSuccessDeployable
<1>2. QED BY <1>1, ReleaseInvariant, PTL

(* Deploy hosts run builds of registered revisions only, also after failed
   updates and restarts. *)
THEOREM DeployHostsStayRegistered == Spec => []DeployHostsRunRegistered
<1>1. IInv => DeployHostsRunRegistered
      BY DEF IInv, EnginesHold, DeployHostsRunRegistered
<1>2. QED BY <1>1, ReleaseInvariant, PTL

(* The connections of an idle worker are at most the runs it cut short since
   its process started (the returns of compiler.py and deploy.py that skip
   close()). *)
THEOREM LeaksAreBounded == Spec => []LeaksAreFailures
<1>1. IInv => LeaksAreFailures
  <2> SUFFICES ASSUME IInv, NEW w \in Worker, pc[w] = "idle"
               PROVE  conns[w] <= failures[w]
      BY DEF LeaksAreFailures
  <2>1. pc[w] \notin Open
        BY DEF Open, OnHost
  <2>2. conns[w] <= failures[w] + 0
        BY <2>1 DEF IInv, LinksCounted
  <2>3. QED BY <2>2 DEF IInv, TypeOK
<1>2. QED BY <1>1, ReleaseInvariant, PTL

(* The binary at a registered path is never written again, nor damaged: the only
   steps that write one write into the directory of a run, which is in no
   revision. *)
THEOREM RevisionsStayImmutable == Spec => RegisteredIsImmutable
<1> DEFINE Same(r) == /\ binary'[r.dir] = binary[r.dir]
                      /\ <<"dir", r.dir>> \in damaged' <=> <<"dir", r.dir>> \in damaged
           Immutable == \A r \in revisions : binary'[r.dir] = 0 \/ Same(r)
<1>1. ASSUME IInv, [Next]_vars PROVE Immutable
  <2> SUFFICES ASSUME NEW r \in revisions
               PROVE  binary'[r.dir] = 0 \/ Same(r)
      OBVIOUS
  <2>1. binary \in [Dir -> {0} \cup Build] /\ r.dir \in Dir
        BY <1>1 DEF IInv, TypeOK, Revision
  <2>2. ASSUME NEW w \in Worker, pc[w] \in WithDir
        PROVE  dir[w] # r.dir
        BY <1>1, <2>2 DEF IInv, DirsHeld
  <2>3. ASSUME NEW w \in Worker, Compile(w) \/ CompileFails(w) \/ Extract(w)
        PROVE  Same(r)
    <3>1. dir[w] # r.dir
          BY <2>2, <2>3 DEF Compile, CompileFails, Extract, WithDir
    <3>2. binary'[r.dir] = binary[r.dir]
          BY <2>1, <2>3, <3>1 DEF Compile, CompileFails, Extract
    <3>3. damaged' \in {damaged, damaged \cup {<<"dir", dir[w]>>},
                         damaged \ {<<"dir", dir[w]>>}}
          BY <2>3 DEF Compile, CompileFails, Extract, Uploaded, Copied, Breaks
    <3>4. QED BY <3>1, <3>2, <3>3
  <2>4. ASSUME NEW w \in Worker, Clean(w)
        PROVE  binary'[r.dir] = 0 \/ Same(r)
    <3>1. PICK gone \in SUBSET OldOn(HostOf(w)) :
             /\ binary' = [d \in Dir |-> IF d \in gone THEN 0 ELSE binary[d]]
             /\ damaged' = damaged \ ({"dir"} \X gone)
          BY <2>4 DEF Clean
    <3>2. QED BY <2>1, <3>1
  <2>5. CASE UNCHANGED <<binary, damaged>>
        BY <2>5
  <2>6. ASSUME UNCHANGED binary, NEW place, NEW h,
               place \in {"fetched", "installed", "running"},
               damaged' \in {damaged, damaged \cup {<<place, h>>}, damaged \ {<<place, h>>}}
        PROVE  Same(r)
        BY <2>6
  <2>7. ASSUME NEW w \in Worker, Fetch(w) PROVE Same(r)
        BY <2>6, <2>7 DEF Fetch, Copied
  <2>8. ASSUME NEW w \in Worker, Update(w) \/ UpdateFails(w) PROVE Same(r)
    <3>1. damaged' \in {damaged, damaged \cup {<<"installed", HostOf(w)>>},
                         damaged \ {<<"installed", HostOf(w)>>}}
          BY <2>8 DEF Update, UpdateFails, Copied, Breaks
    <3>2. QED BY <2>6, <2>8, <3>1 DEF Update, UpdateFails
  <2>9. ASSUME NEW w \in Worker, Restart(w) \/ RestartFails(w) PROVE Same(r)
    <3>1. damaged' \in {damaged, damaged \cup {<<"running", HostOf(w)>>},
                         damaged \ {<<"running", HostOf(w)>>}}
          BY <2>9 DEF Restart, RestartFails, Restarted, Copied
    <3>2. QED BY <2>6, <2>9, <3>1 DEF Restart, RestartFails, Restarted
  <2>10. CASE \E c \in Compiler : CompileStep(c)
        BY <2>3, <2>5, <2>10 DEF CompileStep, StartCompile, Connect, Prepare,
           Report, Register, ReportFails, fileVars, Worker
  <2>11. CASE \E w \in Deployer : DeployStep(w)
        BY <2>5, <2>7, <2>11 DEF DeployStep, StartDeploy, ConnectSource,
           ConnectTarget, TargetFails, fileVars, Worker
  <2>12. CASE \E w \in Worker : BackendStep(w)
        BY <2>3, <2>4, <2>5, <2>8, <2>9, <2>12 DEF BackendStep, MakeDir, Close,
           Abort, Crash, fileVars
  <2>13. QED BY <1>1, <2>5, <2>10, <2>11, <2>12 DEF Next, Age, vars, fileVars
<1>2. IInv /\ [Next]_vars => [Immutable]_vars
      BY <1>1
<1> HIDE DEF Immutable
<1>3. Spec => [][Immutable]_vars
      BY ReleaseInvariant, <1>2, PTL DEF Spec
<1>4. [][Immutable]_vars => RegisteredIsImmutable
  <2>1. Immutable => \A r \in revisions :
           \/ binary'[r.dir] = 0
           \/ /\ binary'[r.dir] = binary[r.dir]
              /\ <<"dir", r.dir>> \in damaged' <=> <<"dir", r.dir>> \in damaged
        BY DEF Immutable
  <2>2. QED BY <2>1, PTL DEF RegisteredIsImmutable
<1>5. QED BY <1>3, <1>4, PTL

==============================================================================
