SPECIFICATION Spec
CONSTANTS
    vm = vm
    grouped = grouped
    pod = pod
    group = group
    Compiler = {sova_engine}
    Deployer = {vm, grouped, pod}
    Pod = {pod}
    Exclusive = {vm, grouped, pod}
    GroupOf <- MCGroupOf
    NoGroup = NoGroup
    Dir = {d1, d2, d3}
    NoDir = NoDir
    NoHost = NoHost
    NoRevision = NoRevision
    MaxBuilds = 2
    MaxDeploys = 2
    MaxCrashes = 1
    MaxDamages = 1
SYMMETRY DirSymmetry
INVARIANTS
    TypeOK
    DeployedIsRegistered
    FreshSuccessDeployable
    DeployHostsRunRegistered
    LeaksAreFailures
PROPERTIES
    RegisteredIsImmutable
CHECK_DEADLOCK FALSE
