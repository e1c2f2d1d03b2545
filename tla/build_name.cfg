\* Two builds named from worker-pool options, sources and values varied.
CONSTANTS
    Opts <- MCOpts
    Salt = Salt
    ClusterConfigs <- MCClusterConfigs
    Nil = Nil

SPECIFICATION Spec
INVARIANT TypeOK
INVARIANT NameIdentity
INVARIANT BuildOutcome
