--------------------------- MODULE KubeletBootstrap ---------------------------
(***************************************************************************)
(* RunKubeletBootstrap (pkg/controller/kubelet-config/                     *)
(* kubelet_config_bootstrap.go) renders, at install time, one MachineConfig *)
(* per (KubeletConfig, pool) pair the KubeletConfig's selector matches:    *)
(* every KubeletConfig is validated first, then each one's selector is     *)
(* parsed and matched against every pool, and generateBootstrapManaged-    *)
(* KeyKubelet names the config, refusing a second KubeletConfig for a      *)
(* pool.  Every iteration of the nested loops is one step.  Each pool's   *)
(* kubelet config is rendered afresh from the templates, and a Kubelet-   *)
(* Config's TLSSecurityProfile, when it has one, overrides the rendered   *)
(* TLS settings (GetSecurityProfileCiphers, from TLSProfile).             *)
(*                                                                         *)
(* Data abstraction: a KubeletConfig is whether it validates and its      *)
(* selector (InvalidSelector, or the set of labels it requires; the empty *)
(* set stands for an empty or nil selector); a pool is its name and its   *)
(* labels.  Of the rendered kubelet config only its TLS settings are      *)
(* kept: the template's are TemplateTLS; the files are left out.          *)
(***************************************************************************)
EXTENDS Naturals, Sequences, SequencesExt, FiniteSets

CONSTANTS
    Inputs,            \* [kubeletConfigs, pools] the bootstrap may be given
    InvalidSelector,
    TLSProfiles, OpenSSLToIANA,  \* the tables TLSProfile consults
    TemplateTLS,       \* the rendered template's TLS settings
    Nil

T == INSTANCE TLSProfile

VARIABLES
    in,               \* the input
    pc,               \* "validate", "select", "pools", "done" or "error"
    i,                \* index into kubeletConfigs
    j,                \* index into pools
    res,              \* the MachineConfigs generated so far: [name, role]
    managedKeyExist,  \* pool names a MachineConfig was generated for
    annotated,        \* KubeletConfigs given the name-suffix annotation
    originalKubeConfig  \* TLS settings of the kubelet config last rendered

vars == <<in, pc, i, j, res, managedKeyExist, annotated, originalKubeConfig>>

-----------------------------------------------------------------------------
(* Defective variants, each a plausible slip in the code.                 *)

\* The deprecated naming, without "generated".
ManagedKeyDeprecated(pool) == <<"99", pool, "kubelet">>
\* The check for a second KubeletConfig on the pool left out.
generateBootstrapManagedKeyKubeletUnchecked(pool, exist) == <<"99", pool, "generated", "kubelet">>
\* The kubelet config rendered once and reused for every pool.
KubeletTLSReused(prev, profile) ==
    IF profile # Nil THEN T!GetSecurityProfileCiphers(profile)
    ELSE IF prev = Nil THEN TemplateTLS ELSE prev

-----------------------------------------------------------------------------
(* Helpers translated from the code.                                       *)

\* GetManagedKey(pool, nil, "99", "kubelet", ""): without a client the
\* name is returned as is.
ManagedKey(pool) == <<"99", pool, "generated", "kubelet">>

\* Nil when a MachineConfig was already generated for the pool.
generateBootstrapManagedKeyKubelet(pool, exist) ==
    IF pool \in exist THEN Nil ELSE ManagedKey(pool)

\* generateOriginalKubeletConfigWithFeatureGates renders the template's
\* settings; a TLSSecurityProfile then overrides TLSMinVersion and
\* TLSCipherSuites.
KubeletTLS(prev, profile) ==
    IF profile # Nil THEN T!GetSecurityProfileCiphers(profile) ELSE TemplateTLS

\* MachineConfigFromIgnConfig (through MachineConfigFromRawIgnConfig): a
\* MachineConfig labelled with the role, named, carrying the config; the
\* bootstrap then sets Raw to the rendered kubelet files.
MachineConfigFromIgnConfig(role, name, tls) == [name |-> name, role |-> role, tls |-> tls]

\* selector.Empty() || !selector.Matches(pool.Labels): skip the pool.
Selects(selector, labels) == selector # {} /\ selector \subseteq labels

-----------------------------------------------------------------------------

Init ==
    /\ in \in Inputs
    /\ pc = "validate"
    /\ i = 1
    /\ j = 1
    /\ res = <<>>
    /\ managedKeyExist = {}
    /\ annotated = {}
    /\ originalKubeConfig = Nil

KC == in.kubeletConfigs

\* validateUserKubeletConfig on every KubeletConfig, before anything else.
ValidateStep ==
    /\ pc = "validate"
    /\ \/ i <= Len(KC) /\ ~KC[i].valid /\ pc' = "error" /\ UNCHANGED i
       \/ i <= Len(KC) /\ KC[i].valid /\ i' = i + 1 /\ UNCHANGED pc
       \/ i > Len(KC) /\ pc' = "select" /\ i' = 1
    /\ UNCHANGED <<in, j, res, managedKeyExist, annotated, originalKubeConfig>>

\* LabelSelectorAsSelector for the next KubeletConfig, or the return.
SelectorStep ==
    /\ pc = "select"
    /\ \/ i > Len(KC) /\ pc' = "done"
       \/ i <= Len(KC) /\ KC[i].selector = InvalidSelector /\ pc' = "error"
       \/ /\ i <= Len(KC) /\ KC[i].selector # InvalidSelector
          /\ pc' = "pools"
    /\ j' = 1
    /\ UNCHANGED <<in, i, res, managedKeyExist, annotated, originalKubeConfig>>

\* One pool for the current KubeletConfig: skipped unless selected, else
\* its kubelet config rendered and a MachineConfig named by generate-
\* BootstrapManagedKeyKubelet (MachineConfigFromIgnConfig: role label,
\* name and the rendered files).
PoolStep ==
    /\ pc = "pools"
    /\ j <= Len(in.pools)
    /\ LET pool == in.pools[j]
           key  == generateBootstrapManagedKeyKubelet(pool.name, managedKeyExist)
           tls  == KubeletTLS(originalKubeConfig, KC[i].tls)
       IN  \/ /\ ~Selects(KC[i].selector, pool.labels)
              /\ UNCHANGED <<pc, res, managedKeyExist, annotated, originalKubeConfig>>
           \/ /\ Selects(KC[i].selector, pool.labels) /\ key = Nil
              /\ pc' = "error"
              /\ originalKubeConfig' = tls
              /\ UNCHANGED <<res, managedKeyExist, annotated>>
           \/ /\ Selects(KC[i].selector, pool.labels) /\ key # Nil
              /\ originalKubeConfig' = tls
              /\ managedKeyExist' = managedKeyExist \cup {pool.name}
              /\ annotated' = annotated \cup {i}
              /\ res' = Append(res, MachineConfigFromIgnConfig(pool.name, key, tls))
              /\ UNCHANGED pc
    /\ j' = j + 1
    /\ UNCHANGED <<in, i>>

\* All pools seen: on to the next KubeletConfig.
NextKubeletConfig ==
    /\ pc = "pools"
    /\ j > Len(in.pools)
    /\ pc' = "select"
    /\ i' = i + 1
    /\ UNCHANGED <<in, j, res, managedKeyExist, annotated, originalKubeConfig>>

Returned ==
    /\ pc \in {"done", "error"}
    /\ UNCHANGED vars

Next ==
    \/ ValidateStep \/ SelectorStep \/ PoolStep \/ NextKubeletConfig
    \/ Returned

Spec == Init /\ [][Next]_vars

-----------------------------------------------------------------------------
(* Properties.                                                             *)

PoolNames == {in.pools[k].name : k \in DOMAIN in.pools}

TypeOK ==
    /\ pc \in {"validate", "select", "pools", "done", "error"}
    /\ managedKeyExist \subseteq PoolNames
    /\ annotated \subseteq DOMAIN KC
    /\ \A k \in DOMAIN res : res[k].name = <<"99", res[k].role, "generated", "kubelet">>

\* The pools KubeletConfig c selects, as the API documents selectors: a
\* selector that parses and requires at least one label selects the pools
\* carrying every label it requires; an empty or nil one selects none.
Selected(c) == {in.pools[k].name : k \in {k \in DOMAIN in.pools :
                   /\ c.selector \notin {InvalidSelector, {}}
                   /\ \A l \in c.selector : l \in in.pools[k].labels}}

\* The bootstrap succeeds exactly when every KubeletConfig validates, every
\* selector parses and no two KubeletConfigs select the same pool; then it
\* returns one MachineConfig for every selected pool and none for a pool
\* only an empty selector could reach, and annotates exactly the
\* KubeletConfigs that selected a pool.
BootstrapOutcome ==
    pc \in {"done", "error"} =>
      LET ok == /\ \A k \in DOMAIN KC : KC[k].valid /\ KC[k].selector # InvalidSelector
                /\ \A a, b \in DOMAIN KC : a # b => Selected(KC[a]) \cap Selected(KC[b]) = {}
          sel == UNION {Selected(KC[k]) : k \in DOMAIN KC}
      IN  /\ (pc = "done" <=> ok)
          /\ pc = "done" =>
               /\ {res[k].role : k \in DOMAIN res} = sel
               /\ Len(res) = Cardinality(sel)
               /\ annotated = {k \in DOMAIN KC : Selected(KC[k]) # {}}

\* The TLS settings the API documents for a profile: the template's when
\* there is none; a Custom profile's own spec; a known type's table entry;
\* Intermediate for a Custom profile without a spec or an unknown type;
\* the cipher names in IANA form.
RefKubeletTLS(p) ==
    IF p = Nil THEN TemplateTLS
    ELSE LET spec == CASE p.type = "Custom" /\ p.custom # Nil -> p.custom
                       [] p.type # "Custom" /\ p.type \in DOMAIN TLSProfiles -> TLSProfiles[p.type]
                       [] OTHER -> TLSProfiles["Intermediate"]
         IN  [minTLSVersion |-> spec.minTLSVersion,
              ciphers |-> T!OpenSSLToIANACipherSuites(spec.ciphers)]

\* Every generated MachineConfig carries the TLS settings of the Kubelet-
\* Config that selected its pool: a KubeletConfig without a profile keeps
\* the template's even after an earlier one overrode them for another
\* pool, and a profile naming no usable spec yields Intermediate, never
\* the template's settings or no ciphers.
KubeletTLSFollowsProfile ==
    \A r \in DOMAIN res :
      \E k \in DOMAIN KC : res[r].role \in Selected(KC[k]) /\ res[r].tls = RefKubeletTLS(KC[k].tls)

=============================================================================
