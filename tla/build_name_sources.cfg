\* The spec's scenario: a base image from the MachineOSConfig or from the
\* OSImageURLConfig.
CONSTANTS
    Opts <- MCOpts
    Salt = Salt
    ClusterConfigs <- MCClusterConfigs
    Nil = Nil

SPECIFICATION Spec
INVARIANT StableAcrossSources
