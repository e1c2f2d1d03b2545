\* Two workers migrate one pool's config; up to two API failures/restarts.
CONSTANTS
    Callers = {w1, w2}
    ManagedKey = "99-worker-generated-kubelet"
    DeprecatedKey = "99-worker-kubelet"
    OldConfig = OldConfig
    Absent = Absent
    MaxFailures = 2

SPECIFICATION FairSpec
INVARIANT TypeOK
INVARIANT NoConfigLost
INVARIANT ReturnedKeyUsable
PROPERTY EventuallySynced
PROPERTY MigrationRefined
