------------------------- MODULE RemoveIgnDuplicates -------------------------
(***************************************************************************)
(* removeIgnDuplicateFilesUnitsUsers and dedupePasswdUserSSHKeys           *)
(* (pkg/controller/common/helpers.go): the pass that makes an Ignition v2  *)
(* config free of the duplicate files, units and users that spec v3       *)
(* forbids, before ParseAndConvertConfig translates it.  Every loop        *)
(* iteration of the function is one step: the reverse walk over files,   *)
(* the reverse walk over units (appending drop-ins of older duplicates),  *)
(* and the walk over users that gathers every SSH key into the newest     *)
(* "core" user, followed by the key dedup.                                 *)
(*                                                                         *)
(* Data abstraction: a file is its path and contents, a unit its name and *)
(* drop-ins, a drop-in its name and contents, a user its name and keys.   *)
(***************************************************************************)
EXTENDS Naturals, Sequences, SequencesExt, FiniteSets

CONSTANTS
    Inputs,   \* the v2 configs [files, units, users] the pass may be given
    Nil

VARIABLES
    in,        \* the input config
    phase,     \* "files", "units", "users", "userloop", "done" or "error"
    i,         \* index of the current loop
    outFiles,  \* files kept so far, newest first
    outUnits,  \* units kept so far, newest first
    seen,      \* filePathMap / unitNameMap of the current loop
    outUser,   \* the newest user, gathering every key
    result     \* the returned config, or Nil

vars == <<in, phase, i, outFiles, outUnits, seen, outUser, result>>

-----------------------------------------------------------------------------
(* Defective variants, each a plausible slip in the code.                 *)

\* The inner check against existing drop-ins is left out.
AppendAllDropins(existing, new) == existing \o new
\* Keys deduplicated walking from the end, as the file loop walks: the
\* last occurrence of each key is kept.
DedupeKeepLast(passwdUser) ==
    [passwdUser EXCEPT !.keys =
        Reverse(FoldLeft(LAMBDA acc, k : IF k \in ToSet(acc) THEN acc ELSE Append(acc, k),
                         <<>>, Reverse(passwdUser.keys)))]
\* The file loop's map reused by the unit loop.
FilesDoneKeepSeen ==
    /\ phase = "files"
    /\ i = 0
    /\ phase' = "units"
    /\ i' = Len(in.units)
    /\ UNCHANGED <<in, seen, outFiles, outUnits, outUser, result>>
\* The path-seen check never reports a duplicate.
IsDupNever(key, m) == FALSE

-----------------------------------------------------------------------------
(* Helpers translated from helpers.go.                                     *)

\* Append each new drop-in whose name the kept unit does not have yet; the
\* check sees drop-ins appended earlier in the same walk.
AppendNewDropins(existing, new) ==
    FoldLeft(LAMBDA acc, d : IF \E k \in DOMAIN acc : acc[k].name = d.name
                             THEN acc ELSE Append(acc, d),
             existing, new)

\* dedupePasswdUserSSHKeys: first occurrence of every key, in order.
dedupePasswdUserSSHKeys(passwdUser) ==
    [passwdUser EXCEPT !.keys =
        FoldLeft(LAMBDA acc, k : IF k \in ToSet(acc) THEN acc ELSE Append(acc, k),
                 <<>>, passwdUser.keys)]

\* _, isDup := filePathMap[path] (and unitNameMap[unitName]).
IsDup(key, m) == key \in m

\* The newest user must be "core".
NewestUserIsCore(users) == users[Len(users)].name = "core"

-----------------------------------------------------------------------------

Init ==
    /\ in \in Inputs
    /\ phase = "files"
    /\ i = Len(in.files)
    /\ outFiles = <<>>
    /\ outUnits = <<>>
    /\ seen = {}
    /\ outUser = Nil
    /\ result = Nil

\* One iteration of the reverse walk over files: the first copy of a path
\* met (the newest) is kept.
FileStep ==
    /\ phase = "files"
    /\ i >= 1
    /\ LET f == in.files[i] IN
         IF IsDup(f.path, seen) THEN UNCHANGED <<outFiles, seen>>
         ELSE /\ outFiles' = Append(outFiles, f)
              /\ seen' = seen \cup {f.path}
    /\ i' = i - 1
    /\ UNCHANGED <<in, phase, outUnits, outUser, result>>

FilesDone ==
    /\ phase = "files"
    /\ i = 0
    /\ phase' = "units"
    /\ i' = Len(in.units)
    /\ seen' = {}
    /\ UNCHANGED <<in, outFiles, outUnits, outUser, result>>

\* One iteration of the reverse walk over units: a duplicate's drop-ins
\* are appended to the kept (newer) unit of that name.
UnitStep ==
    /\ phase = "units"
    /\ i >= 1
    /\ LET u == in.units[i] IN
         IF IsDup(u.name, seen)
         THEN /\ outUnits' = [j \in DOMAIN outUnits |->
                   IF outUnits[j].name = u.name
                   THEN [outUnits[j] EXCEPT
                           !.dropins = AppendNewDropins(@, u.dropins)]
                   ELSE outUnits[j]]
              /\ UNCHANGED seen
         ELSE /\ outUnits' = Append(outUnits, u)
              /\ seen' = seen \cup {u.name}
    /\ i' = i - 1
    /\ UNCHANGED <<in, phase, outFiles, outUser, result>>

UnitsDone ==
    /\ phase = "units"
    /\ i = 0
    /\ phase' = "users"
    /\ UNCHANGED <<in, i, outFiles, outUnits, seen, outUser, result>>

Normalized(users) == [files |-> outFiles, units |-> outUnits, users |-> users]

\* No users: the files and units are replaced, the users left alone.
UsersNone ==
    /\ phase = "users"
    /\ in.users = <<>>
    /\ phase' = "done"
    /\ result' = Normalized(in.users)
    /\ UNCHANGED <<in, i, outFiles, outUnits, seen, outUser>>

\* The newest user gathers the keys; any name but "core" is an error.
UserStart ==
    /\ phase = "users"
    /\ in.users # <<>>
    /\ IF NewestUserIsCore(in.users)
       THEN /\ phase' = "userloop"
            /\ outUser' = in.users[Len(in.users)]
            /\ i' = Len(in.users) - 1
       ELSE /\ phase' = "error"
            /\ UNCHANGED <<outUser, i>>
    /\ UNCHANGED <<in, outFiles, outUnits, seen, result>>

\* One iteration over the older users, newest first.
UserStep ==
    /\ phase = "userloop"
    /\ i >= 1
    /\ IF in.users[i].name # "core"
       THEN /\ phase' = "error"
            /\ UNCHANGED <<outUser, i>>
       ELSE /\ outUser' = [outUser EXCEPT !.keys = @ \o in.users[i].keys]
            /\ i' = i - 1
            /\ UNCHANGED phase
    /\ UNCHANGED <<in, outFiles, outUnits, seen, result>>

UserFinish ==
    /\ phase = "userloop"
    /\ i = 0
    /\ phase' = "done"
    /\ result' = Normalized(<<dedupePasswdUserSSHKeys(outUser)>>)
    /\ UNCHANGED <<in, i, outFiles, outUnits, seen, outUser>>

\* The function has returned.
Returned ==
    /\ phase \in {"done", "error"}
    /\ UNCHANGED vars

Next ==
    \/ FileStep \/ FilesDone \/ UnitStep \/ UnitsDone
    \/ UsersNone \/ UserStart \/ UserStep \/ UserFinish
    \/ Returned

Spec == Init /\ [][Next]_vars

-----------------------------------------------------------------------------
(* Properties.                                                             *)

Done == phase = "done"
Paths(s) == {s[k].path : k \in DOMAIN s}
UnitNames(s) == {s[k].name : k \in DOMAIN s}
DropinNames(s) == {s[k].name : k \in DOMAIN s}
Unique(s, F(_)) == \A j, k \in DOMAIN s : j # k => F(s[j]) # F(s[k])
IsSubsequence(s, t) ==
    \E f \in [DOMAIN s -> DOMAIN t] :
        /\ \A j \in DOMAIN s : s[j] = t[f[j]]
        /\ \A j, k \in DOMAIN s : j < k => f[j] < f[k]

TypeOK ==
    /\ DOMAIN in = {"files", "units", "users"}
    /\ phase \in {"files", "units", "users", "userloop", "done", "error"}
    /\ i \in 0..Max({Len(in.files), Len(in.units), Len(in.users)})
    /\ outFiles \in Seq(Range(in.files))
    /\ seen \subseteq (IF phase = "files" THEN Paths(in.files) ELSE UnitNames(in.units))
    /\ result = Nil \/ DOMAIN result = {"files", "units", "users"}

\* Every path survives exactly once, with the contents of its newest entry.
FilesLastWins ==
    Done =>
      /\ Paths(result.files) = Paths(in.files)
      /\ Unique(result.files, LAMBDA f : f.path)
      /\ \A k \in DOMAIN result.files :
           LET last == Max({j \in DOMAIN in.files :
                              in.files[j].path = result.files[k].path})
           IN  result.files[k] = in.files[last]

\* The spec's reading: survivors keep the relative order they had in the
\* input ("reverse back to preserve original-relative ordering").
FilesKeepInputOrder ==
    Done => IsSubsequence(result.files, in.files)

\* Each unit name survives once; it carries every drop-in name any entry of
\* that name declared, once, with the contents of the newest entry that
\* declared it.
DropinsMerged ==
    Done =>
      /\ UnitNames(result.units) = UnitNames(in.units)
      /\ Unique(result.units, LAMBDA u : u.name)
      /\ \A k \in DOMAIN result.units :
           LET u == result.units[k]
               E == {j \in DOMAIN in.units : in.units[j].name = u.name}
           IN  /\ Unique(u.dropins, LAMBDA d : d.name)
               /\ DropinNames(u.dropins)
                    = UNION {DropinNames(in.units[j].dropins) : j \in E}
               /\ \A m \in DOMAIN u.dropins :
                    LET newest == Max({j \in E : u.dropins[m].name
                                                    \in DropinNames(in.units[j].dropins)})
                    IN  \E x \in DOMAIN in.units[newest].dropins :
                          in.units[newest].dropins[x] = u.dropins[m]

\* The keys in the order the code gathers them: the newest user's, then
\* each older user's, newest first.
KeysNewestFirst == FlattenSeq([j \in DOMAIN in.users |-> in.users[Len(in.users) + 1 - j].keys])

\* Where a key first occurs in a sequence.
FirstAt(s, k) == Min({n \in DOMAIN s : s[n] = k})

\* A v2 config whose users are all "core" normalises to one "core" user
\* carrying every key of every entry exactly once, in the order each key is
\* first seen, the newest entry's keys first (removeIgnDuplicateFilesUnits-
\* Users' fold, then dedupePasswdUserSSHKeys, which preserves ordering on
\* purpose); any other user name is an error.
UsersMerged ==
    /\ Done /\ in.users # <<>> =>
         LET ks  == result.users[1].keys
             all == KeysNewestFirst
         IN  /\ Len(result.users) = 1
             /\ ToSet(ks) = ToSet(all)
             /\ Unique(ks, LAMBDA k : k)
             /\ \A a, b \in DOMAIN ks : a < b => FirstAt(all, ks[a]) < FirstAt(all, ks[b])
    /\ phase \in {"done", "error"} =>
         (phase = "error" <=> \E j \in DOMAIN in.users : in.users[j].name # "core")

=============================================================================
