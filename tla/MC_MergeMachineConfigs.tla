----------------------- MODULE MC_MergeMachineConfigs -----------------------
(***************************************************************************)
(* Instances of MergeMachineConfigs for TLC:                             *)
(*  - FileFragments: configs whose Ignition declares one path with every  *)
(*    combination of source, compression and overwrite, plus a config     *)
(*    without labels and one whose Ignition does not parse;               *)
(*  - MergeFragments: up to three configs drawn from FileFragments and    *)
(*    from configs varying kernel type and kernel-devel, the OS image or  *)
(*    the extensions image.                                               *)
(***************************************************************************)
EXTENDS MergeMachineConfigs

\* File entries as a MachineConfig may declare them (overwrite true and an
\* unset overwrite render alike, so true is left out).
MCFiles == [source: Sources \cup {Nil}, compression: {Nil, "", Gzip},
            overwrite: {Nil, FALSE}]
MCIgnConfigs == [Paths -> MCFiles \cup {Absent}]

Plain(role, raw) ==
    [role |-> role, raw |-> raw, fips |-> FALSE, kernelType |-> "",
     kargs |-> <<>>, extensions |-> <<>>, osImageURL |-> "", extImage |-> ""]

FileFragments ==
    {Plain(r, raw) : r \in {Worker, "infra"}, raw \in {Nil} \cup MCIgnConfigs}
    \cup {Plain(NoLabels, Nil), Plain("infra", Invalid)}

\* Configs whose files set a compression only together with contents.
ContentsFragments ==
    {f \in FileFragments :
       f.raw \notin {Nil, Invalid} =>
         \A p \in Paths : f.raw[p] # Absent /\ f.raw[p].source = Nil
                            => f.raw[p].compression = Nil}

\* The field values the kernel and image properties tell apart, for
\* configs merged among the file fragments: kernel type with extensions,
\* and, separately, OS image and extensions image overrides.
KernelImageFragments ==
    [role: {Worker, "infra"}, raw: {Nil}, fips: {FALSE},
     kernelType: {"", KernelTypeDefault, KernelTypeRealtime},
     kargs: {<<>>}, extensions: {<<>>, <<"usbguard">>, <<"kernel-devel">>},
     osImageURL: {""}, extImage: {""}]
    \cup
    [role: {Worker, "infra"}, raw: {Nil}, fips: {FALSE}, kernelType: {""},
     kargs: {<<>>}, extensions: {<<>>},
     osImageURL: {"quay.io/os:1", "quay.io/os:2"}, extImage: {""}]
    \cup
    [role: {Worker, "infra"}, raw: {Nil}, fips: {FALSE}, kernelType: {""},
     kargs: {<<>>}, extensions: {<<>>},
     osImageURL: {""}, extImage: {"quay.io/ext:1", "quay.io/ext:2"}]

MergeFragments == FileFragments \cup KernelImageFragments

=============================================================================
