------------------------ MODULE MC_KubeletBootstrap ------------------------
(***************************************************************************)
(* Inputs for KubeletBootstrap: up to three KubeletConfigs, valid or not,  *)
(* whose selectors are unparseable, empty, or require one pool label, over *)
(* the master, worker and an infra pool that also carries the worker      *)
(* label (so one selector can reach two pools).  A KubeletConfig's TLS    *)
(* profile is none, Old, Modern, a type the table lacks, or Custom with   *)
(* or without a spec; three carry none, Modern or Custom without one.  *)
(* The profile table is a trimmed configv1.TLSProfiles: each profile's    *)
(* minimum version and some of its ciphers, one of them with no IANA name *)
(* (dropped by OpenSSLToIANACipherSuites).                                *)
(***************************************************************************)
EXTENDS KubeletBootstrap, MC_TLSTables

Pools ==
    << [name |-> "master", labels |-> {"role/master"}],
       [name |-> "worker", labels |-> {"role/worker"}],
       [name |-> "infra",  labels |-> {"role/infra", "role/worker"}] >>

MCTemplateTLS == [minTLSVersion |-> "VersionTLS12", ciphers |-> <<"template">>]

Profile(t, c) == [type |-> t, custom |-> c]
Profiles ==
    {Nil, Profile("Old", Nil), Profile("Modern", Nil), Profile("", Nil),
     Profile("Custom", Nil),
     Profile("Custom", ProfileSpec("VersionTLS13", <<"TLS_AES_128_GCM_SHA256", "DHE-RSA-AES128-GCM-SHA256">>))}

KubeletConfigs(tls) ==
    [valid: BOOLEAN,
     selector: {InvalidSelector, {}, {"role/master"}, {"role/worker"}, {"role/infra"}},
     tls: tls]

MCInputs ==
    {[kubeletConfigs |-> kcs, pools |-> Pools] :
        kcs \in UNION {[1..n -> KubeletConfigs(Profiles)] : n \in 0..2}
                 \cup [1..3 -> KubeletConfigs({Nil, Profile("Modern", Nil), Profile("Custom", Nil)})]}

=============================================================================
