--------------------------- MODULE ManagedKeyStore ---------------------------
(***************************************************************************)
(* What GetManagedKey promises of the API server's MachineConfigs, with    *)
(* the workers, their API calls and their failures hidden: the only       *)
(* changes are copying the deprecated config to the managed name while    *)
(* the managed name is free, and retiring the deprecated config once the  *)
(* managed copy exists.  A config stored only under the deprecated name   *)
(* is eventually copied.  Retiring is not promised: a Delete that fails   *)
(* is never repeated (see NoStaleDeprecatedAfterSync in GetManagedKey).   *)
(***************************************************************************)
CONSTANTS
    ManagedKey, DeprecatedKey, OldConfig, Absent

VARIABLE store     \* key -> Raw config or Absent

Keys == {ManagedKey, DeprecatedKey}

Init ==
    store \in {[k \in Keys |-> Absent],
               [k \in Keys |-> IF k = DeprecatedKey THEN OldConfig ELSE Absent],
               [k \in Keys |-> IF k = ManagedKey THEN OldConfig ELSE Absent]}

\* The deprecated config appears under the managed name, unchanged.
Migrate ==
    /\ store[ManagedKey] = Absent
    /\ store[DeprecatedKey] # Absent
    /\ store' = [store EXCEPT ![ManagedKey] = store[DeprecatedKey]]

\* The deprecated config goes once the managed copy exists.
Retire ==
    /\ store[ManagedKey] # Absent
    /\ store[DeprecatedKey] # Absent
    /\ store' = [store EXCEPT ![DeprecatedKey] = Absent]

Next == Migrate \/ Retire

Spec == Init /\ [][Next]_store /\ WF_store(Migrate)

=============================================================================
