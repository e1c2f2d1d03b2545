---------------------------- MODULE GetManagedKey ----------------------------
(***************************************************************************)
(* GetManagedKey (pkg/controller/common/helpers.go) names the MachineConfig *)
(* a sub-controller generates for a pool and migrates a config stored     *)
(* under the deprecated name to it: Get(managedKey), Get(deprecatedKey),  *)
(* Create(managedKey) with a copy of the old Raw config, Delete           *)
(* (deprecatedKey).  Each API call is one step, so the calls of several   *)
(* controller workers interleave; a call may fail (a transient API error  *)
(* or a controller restart) within a budget, and a worker whose call      *)
(* returned an error is requeued and calls again.                         *)
(***************************************************************************)
EXTENDS Naturals, FiniteSets

CONSTANTS
    Callers,        \* controller workers syncing the same pool
    ManagedKey,     \* "<prefix>-<pool>-generated-<suffix>"
    DeprecatedKey,  \* the name older releases used
    OldConfig,      \* the Raw config stored under the deprecated name
    Absent,
    MaxFailures     \* bound on failed API calls and restarts

Keys == {ManagedKey, DeprecatedKey}

VARIABLES
    store,     \* the API server's MachineConfigs: key -> Raw config or Absent
    store0,    \* the store as the workers found it (never changes)
    pc,        \* per worker: "start", "getDeprecated", "create", "delete", "returned"
    old,       \* per worker: the deprecated MachineConfig read by Get
    ret,       \* per worker: "none", "ok" (managedKey, nil) or "err"
    failures   \* API failures and restarts so far

vars == <<store, store0, pc, old, ret, failures>>

-----------------------------------------------------------------------------
(* Defective variants, each a plausible slip in the code.                 *)

\* Any error of Get(deprecatedKey) is taken for NotFound.
DeprecatedGetFailedAsNotFound(p) ==
    /\ failures < MaxFailures /\ failures' = failures + 1
    /\ pc' = [pc EXCEPT ![p] = "returned"]
    /\ ret' = [ret EXCEPT ![p] = "ok"]
    /\ UNCHANGED old

\* The config read is not kept for the copy.
DeprecatedFoundNotKept(p) ==
    /\ store[DeprecatedKey] # Absent
    /\ pc' = [pc EXCEPT ![p] = "create"]
    /\ UNCHANGED <<old, store, ret, failures>>

\* The deprecated config is deleted before the managed copy is created.
DeprecatedFoundDeleteFirst(p) ==
    /\ store[DeprecatedKey] # Absent
    /\ old' = [old EXCEPT ![p] = store[DeprecatedKey]]
    /\ store' = [store EXCEPT ![DeprecatedKey] = Absent]
    /\ pc' = [pc EXCEPT ![p] = "create"]
    /\ UNCHANGED <<ret, failures>>

\* The result of Get(managedKey) ignored: the deprecated key is always read.
GetManagedSkipsCheck(p) ==
    /\ pc[p] = "start"
    /\ pc' = [pc EXCEPT ![p] = "getDeprecated"]
    /\ UNCHANGED <<store, store0, old, ret, failures>>

-----------------------------------------------------------------------------

Return(p, r) ==
    /\ pc' = [pc EXCEPT ![p] = "returned"]
    /\ ret' = [ret EXCEPT ![p] = r]

Fail == failures < MaxFailures /\ failures' = failures + 1

Init ==
    /\ store \in {[k \in Keys |-> Absent],
                  [k \in Keys |-> IF k = DeprecatedKey THEN OldConfig ELSE Absent],
                  [k \in Keys |-> IF k = ManagedKey THEN OldConfig ELSE Absent]}
    /\ store0 = store
    /\ pc = [p \in Callers |-> "start"]
    /\ old = [p \in Callers |-> Absent]
    /\ ret = [p \in Callers |-> "none"]
    /\ failures = 0

\* Get(managedKey): success returns managedKey; any error (NotFound or
\* not) goes on to the deprecated key.
GetManaged(p) ==
    /\ pc[p] = "start"
    /\ \/ /\ store[ManagedKey] # Absent
          /\ Return(p, "ok")
          /\ UNCHANGED failures
       \/ /\ store[ManagedKey] = Absent
          /\ pc' = [pc EXCEPT ![p] = "getDeprecated"]
          /\ UNCHANGED <<ret, failures>>
       \/ /\ Fail
          /\ pc' = [pc EXCEPT ![p] = "getDeprecated"]
          /\ UNCHANGED ret
    /\ UNCHANGED <<store, store0, old>>

\* Get(deprecatedKey) fails with an error other than NotFound: returned.
DeprecatedGetFailed(p) ==
    /\ Fail
    /\ Return(p, "err")
    /\ UNCHANGED old

\* Get(deprecatedKey) is NotFound: nothing to migrate, managedKey returned.
DeprecatedNotFound(p) ==
    /\ store[DeprecatedKey] = Absent
    /\ Return(p, "ok")
    /\ UNCHANGED <<old, failures>>

\* The deprecated config is found and its Raw config kept for the copy.
DeprecatedFound(p) ==
    /\ store[DeprecatedKey] # Absent
    /\ old' = [old EXCEPT ![p] = store[DeprecatedKey]]
    /\ pc' = [pc EXCEPT ![p] = "create"]
    /\ UNCHANGED <<store, ret, failures>>

GetDeprecated(p) ==
    /\ pc[p] = "getDeprecated"
    /\ \/ DeprecatedGetFailed(p) /\ UNCHANGED store
       \/ DeprecatedNotFound(p) /\ UNCHANGED store
       \/ DeprecatedFound(p)
    /\ UNCHANGED store0

\* Create(managedKey) from the old Raw config; AlreadyExists or any other
\* error is returned.
CreateManaged(p) ==
    /\ pc[p] = "create"
    /\ \/ /\ store[ManagedKey] # Absent
          /\ Return(p, "err")
          /\ UNCHANGED <<store, failures>>
       \/ /\ store[ManagedKey] = Absent
          /\ Fail
          /\ Return(p, "err")
          /\ UNCHANGED store
       \/ /\ store[ManagedKey] = Absent
          /\ store' = [store EXCEPT ![ManagedKey] = old[p]]
          /\ pc' = [pc EXCEPT ![p] = "delete"]
          /\ UNCHANGED <<ret, failures>>
    /\ UNCHANGED <<store0, old>>

\* Delete(deprecatedKey): returns managedKey with Delete's error.
DeleteDeprecated(p) ==
    /\ pc[p] = "delete"
    /\ \/ /\ store[DeprecatedKey] = Absent       \* NotFound
          /\ Return(p, "err")
          /\ UNCHANGED <<store, failures>>
       \/ /\ store[DeprecatedKey] # Absent
          /\ Fail
          /\ Return(p, "err")
          /\ UNCHANGED store
       \/ /\ store[DeprecatedKey] # Absent
          /\ store' = [store EXCEPT ![DeprecatedKey] = Absent]
          /\ Return(p, "ok")
          /\ UNCHANGED failures
    /\ UNCHANGED <<store0, old>>

\* The controller restarts in the middle of the call.
Crash(p) ==
    /\ pc[p] \in {"getDeprecated", "create", "delete"}
    /\ Fail
    /\ pc' = [pc EXCEPT ![p] = "start"]
    /\ UNCHANGED <<store, store0, old, ret>>

\* A sync that returned an error is requeued and calls again.
Requeue(p) ==
    /\ pc[p] = "returned"
    /\ ret[p] = "err"
    /\ pc' = [pc EXCEPT ![p] = "start"]
    /\ ret' = [ret EXCEPT ![p] = "none"]
    /\ UNCHANGED <<store, store0, old, failures>>

\* Every worker's sync has succeeded.
Synced ==
    /\ \A p \in Callers : pc[p] = "returned" /\ ret[p] = "ok"
    /\ UNCHANGED vars

Next ==
    \/ \E p \in Callers :
         \/ GetManaged(p) \/ GetDeprecated(p) \/ CreateManaged(p)
         \/ DeleteDeprecated(p) \/ Crash(p) \/ Requeue(p)
    \/ Synced

Spec == Init /\ [][Next]_vars

\* The controllers' work queues keep handing a pool to a worker while its
\* sync returns an error (the queue's rate-limited requeue), so every step
\* of a worker's own sync is weakly fair.  Failures and restarts are not:
\* they are what the environment may do, at most MaxFailures times.
WorkerSteps(p) ==
    GetManaged(p) \/ GetDeprecated(p) \/ CreateManaged(p) \/ DeleteDeprecated(p)
    \/ Requeue(p)

Fairness == \A p \in Callers : WF_vars(WorkerSteps(p))

FairSpec == Spec /\ Fairness

\* The store as GetManagedKey promises to change it (ManagedKeyStore).
Abstract == INSTANCE ManagedKeyStore

-----------------------------------------------------------------------------
(* Properties.                                                             *)

TypeOK ==
    /\ store \in [Keys -> {Absent, OldConfig}]
    /\ pc \in [Callers -> {"start", "getDeprecated", "create", "delete", "returned"}]
    /\ old \in [Callers -> {Absent, OldConfig}]
    /\ \A p \in Callers : pc[p] \in {"create", "delete"} => old[p] = OldConfig
    /\ ret \in [Callers -> {"none", "ok", "err"}]
    /\ failures \in 0..MaxFailures

\* The generated config is never lost: whatever failures and restarts hit
\* the workers, a config that existed under either name still exists
\* under one of them.
NoConfigLost ==
    (store0[ManagedKey] # Absent \/ store0[DeprecatedKey] # Absent)
      => (store[ManagedKey] # Absent \/ store[DeprecatedKey] # Absent)

\* A worker that got (managedKey, nil) can use the managed name: the
\* config is not left only under the deprecated name, where the caller
\* would not find it.
ReturnedKeyUsable ==
    \A p \in Callers :
      (pc[p] = "returned" /\ ret[p] = "ok")
        => (store[ManagedKey] # Absent \/ store[DeprecatedKey] = Absent)

\* Once failures stop, every worker's sync eventually returns the managed
\* key without an error: requeued syncs do not loop on AlreadyExists or
\* NotFound left behind by another worker or by an earlier failed attempt.
EventuallySynced == <>(\A p \in Callers : pc[p] = "returned" /\ ret[p] = "ok")

\* Refinement: seen through the store alone, the workers' interleaved
\* Get/Create/Delete calls, failures and restarts only ever copy the
\* deprecated config to the managed name while that name is free, or
\* delete the deprecated config once the copy exists; and a config left
\* only under the deprecated name is eventually copied.
MigrationRefined == Abstract!Spec

\* Once every worker has synced successfully, the deprecated config is
\* gone whenever it was migrated: no stale copy stays beside the managed
\* one to be merged into the pool's rendered config.
NoStaleDeprecatedAfterSync ==
    (\A p \in Callers : pc[p] = "returned" /\ ret[p] = "ok")
      => ~(store[ManagedKey] # Absent /\ store[DeprecatedKey] # Absent
           /\ store0[ManagedKey] = Absent)

=============================================================================
