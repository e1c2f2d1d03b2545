\* One worker, one failure: the migration is not resumed after a failed Delete.
CONSTANTS
    Callers = {w1}
    ManagedKey = "99-worker-generated-kubelet"
    DeprecatedKey = "99-worker-kubelet"
    OldConfig = OldConfig
    Absent = Absent
    MaxFailures = 1

SPECIFICATION Spec
INVARIANT NoStaleDeprecatedAfterSync
