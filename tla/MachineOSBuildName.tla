------------------------- MODULE MachineOSBuildName -------------------------
(***************************************************************************)
(* NewMachineOSBuild (pkg/controller/build/buildrequest/machineosbuild.go) *)
(* names a build "<MachineOSConfig name>-<md5 hex>" after validating its   *)
(* options and hashing, behind an 80-byte salt, the pool's rendered        *)
(* configuration, the MachineOSConfig spec with its multisource fields     *)
(* cleared, the complete OSImageURLConfig and the three effective          *)
(* multisource values; the name then becomes the tag of the rendered      *)
(* image pushspec.  Two builds are named side by side so that properties  *)
(* can compare their names.                                                *)
(*                                                                         *)
(* Each build is asked for through one of the four constructors: New-      *)
(* MachineOSBuild with given options, NewMachineOSBuildFromAPI which first *)
(* reads the OSImageURLConfig from the API server (NewMachineOSBuildOpts), *)
(* and the OrDie wrappers of both, which panic where the others return an *)
(* error.  The OSImageURLConfig on the server may be edited at any time,  *)
(* or be unreadable.                                                      *)
(*                                                                         *)
(* Data abstraction: md5 over the YAML of the objects is taken to be       *)
(* injective (the digest is the sequence of objects hashed); a name is     *)
(* its id and its length in characters.                                    *)
(***************************************************************************)
EXTENDS Naturals, Sequences

CONSTANTS
    Opts,          \* the MachineOSBuildOpts a build may be asked for
    Salt,
    ClusterConfigs, \* what the API server may hold (Nil: not readable)
    Nil

Builds == {1, 2}
Callers == {"New", "NewOrDie", "FromAPI", "FromAPIOrDie"}
FromAPI == {"FromAPI", "FromAPIOrDie"}
OrDie == {"NewOrDie", "FromAPIOrDie"}
Fields == {"base", "ext", "release"}   \* the multisource fields
HexLen == 32                           \* md5 as lower-case hex
MaxTagLen == 128                       \* reference.WithTag's tag grammar

VARIABLES
    opts,    \* build -> its options
    pc,      \* build -> "fetch", "validate", "hash", "construct", "done",
             \* "error" or "panic"
    hash,    \* build -> the digest, or Nil
    name,    \* build -> the MachineOSBuild name, or Nil
    caller,  \* build -> the constructor it is asked for through
    cluster  \* the OSImageURLConfig on the API server, or Nil

vars == <<opts, pc, hash, name, caller, cluster>>

-----------------------------------------------------------------------------
(* Defective variants, each a plausible slip in the code.                 *)

\* ReleaseVersion is not cleared in the copy.
ForHashingKeepsRelease(o) ==
    [o.mosc.spec EXCEPT !.base = "", !.ext = ""]
\* The effective release version is left out of the objects hashed.
ObjectsWithoutRelease(o) ==
    <<o.pool.configuration, o.mosc.spec, o.osImageURLConfig>>

-----------------------------------------------------------------------------
(* Helpers translated from machineosbuild.go.                             *)

\* BuildRequestOpts getters: the MachineOSConfig's value when it sets one,
\* else the OSImageURLConfig's.
Effective(o, f) == IF o.mosc.spec[f] # "" THEN o.mosc.spec[f] ELSE o.osImageURLConfig[f]

\* getMachineOSConfigForHashing: the spec with the multisource fields cleared.
getMachineOSConfigForHashing(o) ==
    [o.mosc.spec EXCEPT !.base = "", !.ext = "", !.release = ""]

\* objectsForHash, in order.
objectsForHash(o) ==
    <<o.pool.configuration, getMachineOSConfigForHashing(o), o.osImageURLConfig,
      Effective(o, "ext"), Effective(o, "base"), Effective(o, "release")>>

\* validateForHash.
validateForHash(o) ==
    /\ o.mosc # Nil
    /\ o.pool # Nil
    /\ o.pool.name = o.mosc.spec.pool
    /\ o.osImageURLConfig # Nil

\* getHashedNameWithConfig: "<MachineOSConfig name>-<hash>".
getHashedNameWithConfig(o, h) == <<o.mosc.name, h>>

\* A failure is returned as an error, or panics in the OrDie wrappers.
Fail(b) == IF caller[b] \in OrDie THEN "panic" ELSE "error"

-----------------------------------------------------------------------------

Init ==
    /\ caller \in [Builds -> Callers]
    \* The options given; FromAPI callers' OSImageURLConfig is read later.
    /\ opts \in {o \in [Builds -> Opts] :
                 \A b \in Builds : caller[b] \in FromAPI => o[b].osImageURLConfig = Nil}
    /\ cluster \in ClusterConfigs
    /\ pc = [b \in Builds |-> IF caller[b] \in FromAPI THEN "fetch" ELSE "validate"]
    /\ hash = [b \in Builds |-> Nil]
    /\ name = [b \in Builds |-> Nil]

\* NewMachineOSBuildOpts: GetOSImageURLConfig reads the server's config,
\* an error failing the build.
NewMachineOSBuildOpts(b) ==
    /\ pc[b] = "fetch"
    /\ \/ cluster = Nil /\ pc' = [pc EXCEPT ![b] = Fail(b)] /\ UNCHANGED opts
       \/ cluster # Nil /\ pc' = [pc EXCEPT ![b] = "validate"]
          /\ opts' = [opts EXCEPT ![b].osImageURLConfig = cluster]
    /\ UNCHANGED <<hash, name, caller, cluster>>

\* The OSImageURLConfig is edited (or removed) on the API server.
UpdateOSImageURLConfig ==
    /\ cluster' \in ClusterConfigs \ {cluster}
    /\ UNCHANGED <<opts, pc, hash, name, caller>>

\* getHashedName's validation.
Validate(b) ==
    /\ pc[b] = "validate"
    /\ pc' = [pc EXCEPT ![b] = IF validateForHash(opts[b]) THEN "hash" ELSE Fail(b)]
    /\ UNCHANGED <<opts, hash, name, caller, cluster>>

\* The salt, then the YAML of every object, written to the hasher.
getHashedName(b) ==
    /\ pc[b] = "hash"
    /\ hash' = [hash EXCEPT ![b] = <<Salt>> \o objectsForHash(opts[b])]
    /\ pc' = [pc EXCEPT ![b] = "construct"]
    /\ UNCHANGED <<opts, name, caller, cluster>>

\* The tag length checked with >= instead of >.
NewMachineOSBuildTagOffByOne(b) ==
    /\ pc[b] = "construct"
    /\ LET o == opts[b]
           tagLen == o.mosc.nameLen + 1 + HexLen
       IN  \/ /\ ~o.mosc.spec.pushspecValid \/ tagLen >= MaxTagLen
              /\ pc' = [pc EXCEPT ![b] = Fail(b)]
              /\ UNCHANGED name
           \/ /\ o.mosc.spec.pushspecValid /\ tagLen < MaxTagLen
              /\ name' = [name EXCEPT ![b] = getHashedNameWithConfig(o, hash[b])]
              /\ pc' = [pc EXCEPT ![b] = "done"]
    /\ UNCHANGED <<opts, hash, caller, cluster>>

\* getHashedNameWithConfig and the pushspec tag: an unparseable pushspec
\* or a tag longer than the grammar allows fails the build.
NewMachineOSBuild(b) ==
    /\ pc[b] = "construct"
    /\ LET o == opts[b]
           tagLen == o.mosc.nameLen + 1 + HexLen
       IN  \/ /\ ~o.mosc.spec.pushspecValid \/ tagLen > MaxTagLen
              /\ pc' = [pc EXCEPT ![b] = Fail(b)]
              /\ UNCHANGED name
           \/ /\ o.mosc.spec.pushspecValid /\ tagLen <= MaxTagLen
              /\ name' = [name EXCEPT ![b] = getHashedNameWithConfig(o, hash[b])]
              /\ pc' = [pc EXCEPT ![b] = "done"]
    /\ UNCHANGED <<opts, hash, caller, cluster>>

Finished ==
    /\ \A b \in Builds : pc[b] \in {"done", "error", "panic"}
    /\ UNCHANGED vars

Next ==
    \/ \E b \in Builds : \/ NewMachineOSBuildOpts(b) \/ Validate(b)
                        \/ getHashedName(b) \/ NewMachineOSBuild(b)
    \/ UpdateOSImageURLConfig
    \/ Finished

Spec == Init /\ [][Next]_vars

-----------------------------------------------------------------------------
(* Properties.                                                             *)

TypeOK ==
    /\ pc \in [Builds -> {"fetch", "validate", "hash", "construct", "done", "error", "panic"}]
    /\ \A b \in Builds : pc[b] = "panic" => caller[b] \in OrDie
    /\ \A b \in Builds : hash[b] # Nil => Len(hash[b]) = 7 /\ hash[b][1] = Salt
    /\ \A b \in Builds : name[b] # Nil => pc[b] = "done"

BothNamed == \A b \in Builds : pc[b] = "done"

\* Two sets of options that agree on everything but where the multisource
\* values come from, the effective values being equal.
SameApartFromSources(o1, o2) ==
    /\ o1.mosc.name = o2.mosc.name
    /\ o1.pool.configuration = o2.pool.configuration
    /\ [f \in DOMAIN o1.mosc.spec \ Fields |-> o1.mosc.spec[f]]
         = [f \in DOMAIN o2.mosc.spec \ Fields |-> o2.mosc.spec[f]]
    /\ \A f \in Fields : Effective(o1, f) = Effective(o2, f)

\* Two named builds share a name only when they agree on every input the
\* build depends on: the rendered configuration, the MachineOSConfig apart
\* from where the multisource values come from, and the effective values
\* (the comment above getMachineOSConfigForHashing).  Builds that agree on
\* all of that and on the OSImageURLConfig as well get the same name.
NameIdentity ==
    BothNamed =>
      /\ name[1] = name[2] => SameApartFromSources(opts[1], opts[2])
      /\ SameApartFromSources(opts[1], opts[2])
         /\ opts[1].osImageURLConfig = opts[2].osImageURLConfig
         => name[1] = name[2]

\* The longest MachineOSConfig name whose "<name>-<32 hex digits>" still
\* fits the 128 characters of an image tag.
MaxNameLen == 95

\* Whatever the constructor and whenever the server's config is edited, a
\* build ends named exactly when its options are complete and for the
\* MachineOSConfig's pool, its pushspec parses and its name fits a tag;
\* a failed build panics exactly when it was asked for through an OrDie
\* wrapper.
BuildOutcome ==
    \A b \in Builds :
      LET o == opts[b] IN
      /\ pc[b] \in {"done", "error", "panic"} =>
           (pc[b] = "done" <=>
              /\ o.mosc # Nil /\ o.pool # Nil /\ o.osImageURLConfig # Nil
              /\ o.pool.name = o.mosc.spec.pool
              /\ o.mosc.spec.pushspecValid
              /\ o.mosc.nameLen <= MaxNameLen)
      /\ pc[b] \in {"error", "panic"} => (pc[b] = "panic" <=> caller[b] \in OrDie)

\* The spec's hash stability (section 8, law 4 and scenario 4): options
\* that differ only in which object supplies a multisource value, the
\* effective value being equal, get the same name.
StableAcrossSources ==
    BothNamed => (SameApartFromSources(opts[1], opts[2]) => name[1] = name[2])

=============================================================================
