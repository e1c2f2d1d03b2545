----------------------------- MODULE ConfigDiffs -----------------------------
(***************************************************************************)
(* CalculateConfigFileDiffs and CalculateConfigUnitDiffs (pkg/controller/ *)
(* common/helpers.go): the paths of the files (names of the units) that   *)
(* are removed, added or different between two Ignition v3 configs, and  *)
(* FindClosestFilePolicyPathMatch with IsSubdirectory, which picks the    *)
(* node-disruption file policy whose path is the longest match of a diff *)
(* path.  Both diff functions build Go maps keyed by path (name) and      *)
(* range over them twice; Go randomises map iteration, so every iteration *)
(* step picks any key not yet visited.                                    *)
(*                                                                         *)
(* Data abstraction: a path is the sequence of its characters over a     *)
(* small alphabet without "." (so filepath.Clean only folds repeated and  *)
(* trailing slashes); an entry is a record compared field by field, as    *)
(* reflect.DeepEqual does.                                                 *)
(***************************************************************************)
EXTENDS Naturals, Sequences, SequencesExt, Functions

CONSTANTS
    FileConfigs,   \* file lists a config may have (distinct paths)
    UnitConfigs,   \* unit lists a config may have (distinct names)
    PolicyLists    \* node-disruption file policy lists [path, actions]

VARIABLES
    sec,       \* "files" (CalculateConfigFileDiffs) or "units" (...UnitDiffs)
    old, new,  \* the entries of the two configs' section
    phase,     \* "removed", "changed" or "done": the loop running
    visited,   \* keys the current range loop has already produced
    diff,      \* the returned slice so far
    policies   \* the file policies diff paths are matched against

vars == <<sec, old, new, phase, visited, diff, policies>>

-----------------------------------------------------------------------------
(* Helpers translated from helpers.go.                                     *)

RECURSIVE Collapse(_)
Collapse(s) == IF Len(s) < 2 THEN s
               ELSE IF s[1] = "/" /\ s[2] = "/" THEN Collapse(Tail(s))
               ELSE <<s[1]>> \o Collapse(Tail(s))

\* filepath.Clean on a path without "." components.
Clean(p) == IF Len(Collapse(p)) > 1 /\ Last(Collapse(p)) = "/"
            THEN Front(Collapse(p)) ELSE Collapse(p)

-----------------------------------------------------------------------------
(* Defective variants, each a plausible slip in the code.                 *)

\* A changed entry compared without its mode, not deeply.
DeepEqualIgnoringMode(a, b) ==
    [f \in DOMAIN a \ {"mode"} |-> a[f]] = [f \in DOMAIN b \ {"mode"} |-> b[f]]
\* The prefix check without the separator appended to dirPath.
IsSubdirectoryNoSeparator(dirPath, targetPath) ==
    IsPrefix(Clean(dirPath), Clean(targetPath))
\* A later policy of equal length replaces the earlier one.
LongerOrEqual(a, b) == a >= b

-----------------------------------------------------------------------------

\* The map key: Path for files, Name for units.
Key(e) == IF sec = "files" THEN e.path ELSE e.name

\* for _, f := range ...Files { set[f.Path] = f }: the last entry of a key.
ToMap(entries) ==
    [k \in {Key(entries[j]) : j \in DOMAIN entries} |->
       entries[SelectLastInSeq(entries, LAMBDA e : Key(e) = k)]]

\* reflect.DeepEqual on the entry records.
DeepEqual(a, b) == a = b

\* strings.HasPrefix(Clean(target), Clean(dir) + "/").
IsSubdirectory(dirPath, targetPath) ==
    IsPrefix(Clean(dirPath) \o <<"/">>, Clean(targetPath))

\* if len(filePolicy.Path) > matchLength.
Longer(a, b) == a > b

\* The loop over the policies, keeping [found, length, actions] of the
\* longest match so far; lengths are those of the raw policy paths.
FindClosestFilePolicyPathMatch(diffPath, filePolicies) ==
    LET Step(acc, filePolicy) ==
          IF /\ \/ diffPath = filePolicy.path
                \/ IsSubdirectory(filePolicy.path, diffPath)
             /\ Longer(Len(filePolicy.path), acc.len)
          THEN [found |-> TRUE, len |-> Len(filePolicy.path),
                actions |-> filePolicy.actions]
          ELSE acc
        r == FoldLeft(Step, [found |-> FALSE, len |-> 0, actions |-> <<>>],
                      filePolicies)
    IN  [found |-> r.found, actions |-> r.actions]

-----------------------------------------------------------------------------

Init ==
    /\ \/ sec = "files" /\ old \in FileConfigs /\ new \in FileConfigs
          /\ policies \in PolicyLists
       \/ sec = "units" /\ old \in UnitConfigs /\ new \in UnitConfigs
          /\ policies = <<>>
    /\ phase = "removed"
    /\ visited = {}
    /\ diff = <<>>

\* for path := range oldFileSet: a removed key is appended.
RemovedStep ==
    /\ phase = "removed"
    /\ \E k \in DOMAIN ToMap(old) \ visited :
         /\ visited' = visited \cup {k}
         /\ diff' = IF k \notin DOMAIN ToMap(new) THEN Append(diff, k) ELSE diff
    /\ UNCHANGED <<sec, old, new, phase, policies>>

\* The second range loop starts without forgetting the first one's keys.
RemovedDoneKeepVisited ==
    /\ phase = "removed"
    /\ visited = DOMAIN ToMap(old)
    /\ phase' = "changed"
    /\ UNCHANGED <<sec, old, new, visited, diff, policies>>

\* Both range loops are over fresh map iterators.
RemovedDone ==
    /\ phase = "removed"
    /\ visited = DOMAIN ToMap(old)
    /\ phase' = "changed"
    /\ visited' = {}
    /\ UNCHANGED <<sec, old, new, diff, policies>>

\* for path, newFile := range newFileSet: an added or changed key is
\* appended.
ChangedStep ==
    /\ phase = "changed"
    /\ \E k \in DOMAIN ToMap(new) \ visited :
         /\ visited' = visited \cup {k}
         /\ diff' = IF \/ k \notin DOMAIN ToMap(old)
                       \/ ~DeepEqual(ToMap(old)[k], ToMap(new)[k])
                    THEN Append(diff, k) ELSE diff
    /\ UNCHANGED <<sec, old, new, phase, policies>>

ChangedDone ==
    /\ phase = "changed"
    /\ visited = DOMAIN ToMap(new)
    /\ phase' = "done"
    /\ UNCHANGED <<sec, old, new, visited, diff, policies>>

\* The function has returned.
Finished ==
    /\ phase = "done"
    /\ UNCHANGED vars

\* One step of either loop of the function being run.
DiffStep == RemovedStep \/ RemovedDone \/ ChangedStep \/ ChangedDone

\* CalculateConfigFileDiffs over storage.files keyed by Path, and
\* CalculateConfigUnitDiffs, the same loops over systemd.units keyed by Name.
CalculateConfigFileDiffs == sec = "files" /\ DiffStep
CalculateConfigUnitDiffs == sec = "units" /\ DiffStep

Next == CalculateConfigFileDiffs \/ CalculateConfigUnitDiffs \/ Finished

Spec == Init /\ [][Next]_vars

-----------------------------------------------------------------------------
(* Properties.                                                             *)

TypeOK ==
    /\ sec \in {"files", "units"}
    /\ phase \in {"removed", "changed", "done"}
    /\ visited \subseteq DOMAIN ToMap(IF phase = "removed" THEN old ELSE new)
    /\ ToSet(diff) \subseteq {Key(e) : e \in ToSet(old) \cup ToSet(new)}

\* The keys whose entry is not the same in both configs: present in one
\* only, or present in both with entries that differ in any field.
RefDiff == {Key(e) : e \in ToSet(old) \cup ToSet(new)}
             \ {Key(e) : e \in ToSet(old) \cap ToSet(new)}

\* Whatever order Go's map iteration takes, the returned slice names every
\* removed, added or deeply changed file (unit) exactly once, and nothing
\* else (spec section 4.6 and law 9).
DiffExact ==
    phase = "done" => IsInjective(diff) /\ ToSet(diff) = RefDiff

\* The non-empty components of a path: "/a//b/" has <<"a", "b">>.
Components(s) ==
    LET cuts == SetToSortSeq({j \in DOMAIN s : s[j] = "/"} \cup {Len(s) + 1},
                             LAMBDA x, y : x < y)
        parts == [k \in 1..Len(cuts) - 1 |-> SubSeq(s, cuts[k] + 1, cuts[k + 1] - 1)]
    IN  SelectSeq(parts, LAMBDA c : c # <<>>)

\* The policies whose directory is the diff path or one of its ancestors;
\* of those the deepest, and of equally deep ones the first listed.
ClosestPolicy(p, pols) ==
    LET covering == {j \in DOMAIN pols :
                       IsPrefix(Components(pols[j].path), Components(p))}
        Depth(j) == Len(Components(pols[j].path))
        deepest == {j \in covering : \A k \in covering : Depth(k) <= Depth(j)}
    IN  IF covering = {} THEN [found |-> FALSE, actions |-> <<>>]
        ELSE [found |-> TRUE, actions |-> pols[Min(deepest)].actions]

\* Every file the diff reports is matched by FindClosestFilePolicyPathMatch
\* to the policy of its nearest enclosing directory (or itself), the
\* first-listed one of equal paths winning, and to none when no policy
\* path encloses it: "/a" does not enclose "/ab".
PolicyMatchClosest ==
    phase = "done" /\ sec = "files" =>
      \A j \in DOMAIN diff :
        FindClosestFilePolicyPathMatch(diff[j], policies) = ClosestPolicy(diff[j], policies)

=============================================================================
