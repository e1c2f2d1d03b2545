------------------------- MODULE MergeMachineConfigs -------------------------
(***************************************************************************)
(* MergeMachineConfigs (pkg/controller/common/helpers.go) combines the     *)
(* MachineConfigs of a pool into one rendered MachineConfig.  The model    *)
(* follows the function step by step: the worker-first sort, the parse of  *)
(* the base Ignition config, one step per iteration of the merge loop      *)
(* (with the compression default set before and cleared after each        *)
(* Ignition merge), and the final pass that defaults "overwrite" and       *)
(* merges the non-Ignition fields.                                         *)
(*                                                                         *)
(* Data abstraction: an Ignition config is its storage.files section, a    *)
(* function from path to file entry (spec v3 forbids duplicate paths); a   *)
(* raw config is the config it parses to, or Invalid when parsing fails.   *)
(* Names are numbers whose order stands for the lexical order of the       *)
(* MachineConfig names.                                                    *)
(***************************************************************************)
EXTENDS Naturals, Sequences, SequencesExt, FiniteSets, TLC

CONSTANTS
    Names,            \* MachineConfig names (numbers, ordered like the strings)
    Paths,            \* file paths
    Sources,          \* data-URL file sources
    Nil,              \* an absent pointer field
    Absent,           \* no file entry at a path
    Invalid,          \* raw bytes that fail to parse
    NoLabels,         \* ObjectMeta.Labels == nil
    Fragments,        \* the MachineConfig specs an input MachineConfig may carry
    DefaultOSImage,   \* ControllerConfig.Spec.BaseOSContainerImage
    DefaultExtImage   \* ControllerConfig.Spec.BaseOSExtensionsContainerImage

ASSUME Names \subseteq Nat

Worker == "worker"
Gzip == "gzip"
KernelTypeDefault == "default"
KernelTypeRealtime == "realtime"
KernelType64kPages == "64k-pages"

Compressions == {Nil, "", Gzip}
File == [source: Sources \cup {Nil}, compression: Compressions,
         overwrite: {Nil, TRUE, FALSE}]
IgnConfig == [Paths -> File \cup {Absent}]
\* A rendered file always says whether it overwrites.
RenderedFile == [source: Sources \cup {Nil}, compression: Compressions,
                 overwrite: BOOLEAN]

\* NewIgnConfig: a config with the latest version and nothing else.
NewIgnConfig == [p \in Paths |-> Absent]

VARIABLES
    configs,   \* the input: MachineConfig name -> spec (a member of Fragments)
    pc,        \* "sort", "base", "merge", "done" or "error"
    order,     \* the configs slice after the sort, as a sequence of names
    idx,       \* the merge loop index
    outIgn,    \* the running merged Ignition config
    result     \* the returned MachineConfig spec, or Nil

vars == <<configs, pc, order, idx, outIgn, result>>

-----------------------------------------------------------------------------
(* Defective variants of the helpers below, each a plausible slip in the   *)
(* code; a property that no variant breaks would say nothing about it.     *)

\* Plain name sort, forgetting the worker-first partition.
MergeOrderByNameOnly(cs) == SetToSortSeq(DOMAIN cs, <)
\* The compression default is never set before the merge.
SetFilesDefaultCompressionSkipped(c) == c
\* The overwrite default pass left out.
DefaultOverwriteSkipped(c) == c
\* Overwrite forced to true even where a config set it.
OverwriteAlways(c) ==
    [p \in Paths |-> IF c[p] # Absent THEN [c[p] EXCEPT !.overwrite = TRUE]
                     ELSE c[p]]
\* Only the first extension is looked at.
InSliceFirstOnly(elem, s) == s # <<>> /\ s[1] = elem
\* kernelType assigned from every config, not only non-default ones.
MergedKernelTypeUnguarded(seq) ==
    LET k == seq[Len(seq)].kernelType
    IN  IF k = "" THEN "default" ELSE k
\* The last config's image assigned even when it is empty.
LastValue(default, vals) == IF vals = <<>> THEN default ELSE vals[Len(vals)]

-----------------------------------------------------------------------------
(* Helpers translated from helpers.go.                                     *)

\* The sort: worker-role configs first, then the others, each by name.
MergeOrder(cs) ==
    LET ws == {n \in DOMAIN cs : cs[n].role = Worker}
    IN  SetToSortSeq(ws, <) \o SetToSortSeq(DOMAIN cs \ ws, <)

\* ignitionMergeSetFilesDefaultCompression: absent compression becomes "".
ignitionMergeSetFilesDefaultCompression(c) ==
    [p \in Paths |-> IF c[p] # Absent /\ c[p].compression = Nil
                     THEN [c[p] EXCEPT !.compression = ""] ELSE c[p]]

\* ignitionMergeUnsetFilesDefaultCompression: "" compression becomes absent.
ignitionMergeUnsetFilesDefaultCompression(c) ==
    [p \in Paths |-> IF c[p] # Absent /\ c[p].compression = ""
                     THEN [c[p] EXCEPT !.compression = Nil] ELSE c[p]]

\* ign3.Merge on storage.files: entries are matched by path; a set pointer
\* field of the child overrides the parent's, an unset one keeps it.
MergeField(parent, child) == IF child = Nil THEN parent ELSE child
IgnMerge(parent, child) ==
    [p \in Paths |->
        CASE child[p] = Absent  -> parent[p]
          [] parent[p] = Absent -> child[p]
          [] OTHER -> [f \in {"source", "compression", "overwrite"} |->
                          MergeField(parent[p][f], child[p][f])]]

\* One iteration of the merge loop.
MergeStep(parent, child) ==
    ignitionMergeUnsetFilesDefaultCompression(
        IgnMerge(parent, ignitionMergeSetFilesDefaultCompression(child)))

\* Files without an explicit overwrite are forced to overwrite.
DefaultOverwrite(c) ==
    [p \in Paths |-> IF c[p] # Absent /\ c[p].overwrite = Nil
                     THEN [c[p] EXCEPT !.overwrite = TRUE] ELSE c[p]]

InSlice(elem, s) == \E i \in DOMAIN s : s[i] = elem

\* The last config (in merge order) setting a non-default kernel wins.
MergedKernelType(seq) ==
    LET nd == {i \in DOMAIN seq :
                 seq[i].kernelType \in {KernelTypeRealtime, KernelType64kPages}}
    IN  IF nd = {} THEN KernelTypeDefault ELSE seq[Max(nd)].kernelType

\* The last non-empty override wins over the controller default.
LastOverride(default, vals) ==
    LET set == {i \in DOMAIN vals : vals[i] # ""}
    IN  IF set = {} THEN default ELSE vals[Max(set)]

Concat(seqs) == FlattenSeq(seqs)

\* DecodeIgnitionFileContents, what a node writes for a file entry: nothing
\* without a source, the data URL's bytes with no or "" compression, those
\* bytes gunzipped with "gzip", an error with any other compression.
DecodeIgnitionFileContents(source, compression) ==
    CASE source = Nil                -> <<>>
      [] compression \in {Nil, ""}   -> <<"data", source>>
      [] compression = Gzip          -> <<"gunzip", source>>
      [] OTHER                       -> "error"

-----------------------------------------------------------------------------

Init ==
    /\ configs \in UNION {[S -> Fragments] : S \in SUBSET Names}
    /\ pc = "sort"
    /\ order = <<>>
    /\ idx = 1
    /\ outIgn = NewIgnConfig
    /\ result = Nil

\* len(configs) == 0: return nil, nil.
SortEmpty ==
    /\ pc = "sort"
    /\ DOMAIN configs = {}
    /\ pc' = "done"
    /\ UNCHANGED <<configs, order, idx, outIgn, result>>

\* A config without labels fails the whole merge.
SortMissingLabel ==
    /\ pc = "sort"
    /\ \E n \in DOMAIN configs : configs[n].role = NoLabels
    /\ pc' = "error"
    /\ UNCHANGED <<configs, order, idx, outIgn, result>>

Sort ==
    /\ pc = "sort"
    /\ DOMAIN configs # {}
    /\ \A n \in DOMAIN configs : configs[n].role # NoLabels
    /\ order' = MergeOrder(configs)
    /\ pc' = "base"
    /\ UNCHANGED <<configs, idx, outIgn, result>>

\* The first config's Ignition is the base (an empty config when Raw is nil).
ParseBase ==
    /\ pc = "base"
    /\ LET raw == configs[order[1]].raw IN
         \/ /\ raw = Invalid
            /\ pc' = "error"
            /\ UNCHANGED outIgn
         \/ /\ raw # Invalid
            /\ outIgn' = IF raw = Nil THEN NewIgnConfig ELSE raw
            /\ pc' = "merge"
    /\ idx' = 2
    /\ UNCHANGED <<configs, order, result>>

\* One iteration of the loop over configs[1:].
MergeNext ==
    /\ pc = "merge"
    /\ idx <= Len(order)
    /\ LET raw == configs[order[idx]].raw IN
         \/ /\ raw = Nil
            /\ idx' = idx + 1
            /\ UNCHANGED <<pc, outIgn>>
         \/ /\ raw = Invalid
            /\ pc' = "error"
            /\ UNCHANGED <<idx, outIgn>>
         \/ /\ raw \notin {Nil, Invalid}
            /\ outIgn' = MergeStep(outIgn, raw)
            /\ idx' = idx + 1
            /\ UNCHANGED pc
    /\ UNCHANGED <<configs, order, result>>

\* After the loop: overwrite defaults, then the non-Ignition fields in
\* merge order, the kernel-devel check and the image overrides.
Finish ==
    /\ pc = "merge"
    /\ idx > Len(order)
    /\ LET seq  == [i \in DOMAIN order |-> configs[order[i]]]
           kt   == MergedKernelType(seq)
           exts == Concat([i \in DOMAIN seq |-> seq[i].extensions])
       IN \/ /\ kt # KernelTypeDefault /\ InSlice("kernel-devel", exts)
             /\ pc' = "error"
             /\ UNCHANGED result
          \/ /\ ~(kt # KernelTypeDefault /\ InSlice("kernel-devel", exts))
             /\ pc' = "done"
             /\ result' =
                  [files      |-> DefaultOverwrite(outIgn),
                   fips       |-> \E i \in DOMAIN seq : seq[i].fips,
                   kernelType |-> kt,
                   kargs      |-> Concat([i \in DOMAIN seq |-> seq[i].kargs]),
                   extensions |-> exts,
                   osImageURL |-> LastOverride(DefaultOSImage,
                                     [i \in DOMAIN seq |-> seq[i].osImageURL]),
                   extImage   |-> LastOverride(DefaultExtImage,
                                     [i \in DOMAIN seq |-> seq[i].extImage])]
    /\ UNCHANGED <<configs, order, idx, outIgn>>

\* The function has returned.
Returned ==
    /\ pc \in {"done", "error"}
    /\ UNCHANGED vars

Next ==
    \/ SortEmpty \/ SortMissingLabel \/ Sort
    \/ ParseBase \/ MergeNext \/ Finish
    \/ Returned

Spec == Init /\ [][Next]_vars

-----------------------------------------------------------------------------
(* Properties.                                                             *)

TypeOK ==
    /\ DOMAIN configs \subseteq Names
    /\ \A n \in DOMAIN configs : configs[n].raw \in {Nil, Invalid} \cup IgnConfig
    /\ pc \in {"sort", "base", "merge", "done", "error"}
    /\ order \in Seq(Names)
    /\ idx \in 1..(Cardinality(Names) + 1)
    /\ outIgn \in IgnConfig
    /\ result = Nil \/ result.files \in [Paths -> RenderedFile \cup {Absent}]

\* Effective compression: the codec treats "" and an absent field alike.
Effective(c) == IF c = Gzip THEN Gzip ELSE ""

\* Positions in merge order whose parsed Ignition declares path p.
Declaring(p) ==
    {i \in DOMAIN order : configs[order[i]].raw \notin {Nil, Invalid}
                          /\ configs[order[i]].raw[p] # Absent}
DeclaredFile(i, p) == configs[order[i]].raw[p]

Merged == pc = "done" /\ result # Nil

Contents(f) == DecodeIgnitionFileContents(f.source, f.compression)

\* The compression hazard of the merge loop, as a node sees it: when the
\* last config that declares a file supplies its contents, decoding the
\* rendered file gives exactly what decoding that config's entry gives,
\* never its bytes gunzipped, or left compressed, because of a compression
\* merged in from another config.
ContentsFollowLastDeclaration ==
    Merged =>
      \A p \in Paths :
        LET D == Declaring(p) IN
          (D # {} /\ DeclaredFile(Max(D), p).source # Nil) =>
            Contents(result.files[p]) = Contents(DeclaredFile(Max(D), p))

\* The stronger reading: the rendered compression always belongs to the
\* config whose source the rendered file carries.
CompressionMatchesSource ==
    Merged =>
      \A p \in Paths :
        LET S == {i \in Declaring(p) : DeclaredFile(i, p).source # Nil} IN
          S # {} =>
            Effective(result.files[p].compression)
              = Effective(DeclaredFile(Max(S), p).compression)

\* Every rendered file keeps the last explicit overwrite any config set for
\* it, and overwrites when no config said anything.
OverwriteFollowsLastExplicit ==
    Merged =>
      \A p \in Paths :
        LET E == {i \in Declaring(p) : DeclaredFile(i, p).overwrite # Nil} IN
          Declaring(p) # {} =>
            result.files[p].overwrite =
              IF E = {} THEN TRUE ELSE DeclaredFile(Max(E), p).overwrite

\* Custom-pool configs take priority over base worker configs: when a
\* non-worker config supplies contents for a path, the rendered contents
\* come from a non-worker config, whatever the names.
PoolPrecedence ==
    Merged =>
      \A p \in Paths :
        LET Other == {n \in DOMAIN configs :
                        /\ configs[n].role # Worker
                        /\ configs[n].raw \notin {Nil, Invalid}
                        /\ configs[n].raw[p] # Absent
                        /\ configs[n].raw[p].source # Nil} IN
          Other # {} =>
            result.files[p].source \in {configs[n].raw[p].source : n \in Other}

NonDefaultKernel(n) ==
    configs[n].kernelType \in {KernelTypeRealtime, KernelType64kPages}

\* A non-default kernelType set by any config survives the merge, even
\* when a later config states the default explicitly or leaves it empty.
NonDefaultKernelWins ==
    Merged =>
      (result.kernelType = KernelTypeDefault
         <=> \A n \in DOMAIN configs : ~NonDefaultKernel(n))

\* The merge fails on the kernel-devel extension exactly when some config
\* asks for kernel-devel and some (possibly other) config for a
\* non-default kernel.
KernelDevelCheck ==
    LET wellFormed == /\ DOMAIN configs # {}
                      /\ \A n \in DOMAIN configs :
                           configs[n].role # NoLabels /\ configs[n].raw # Invalid
        conflict   == /\ \E n \in DOMAIN configs : NonDefaultKernel(n)
                      /\ \E n \in DOMAIN configs :
                           \E i \in DOMAIN configs[n].extensions :
                             configs[n].extensions[i] = "kernel-devel"
    IN  (wellFormed /\ pc \in {"done", "error"}) => (pc = "error" <=> conflict)

\* Image overrides follow pool precedence: the rendered OS image (and
\* extensions image) is a custom-pool config's override whenever one
\* exists, whatever the names; otherwise a worker config's; among configs
\* of the same kind the greatest name wins, and the controller's default
\* stands only when no config overrides it.
ImageOverridesWin ==
    LET Wins(field, default) ==
          LET ov     == {n \in DOMAIN configs : configs[n][field] # ""}
              custom == {n \in ov : configs[n].role # Worker}
              pick   == IF custom # {} THEN custom ELSE ov
          IN  result[field] = IF ov = {} THEN default ELSE configs[Max(pick)][field]
    IN  Merged => (Wins("osImageURL", DefaultOSImage)
                   /\ Wins("extImage", DefaultExtImage))

=============================================================================
