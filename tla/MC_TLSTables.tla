---------------------------- MODULE MC_TLSTables ----------------------------
(***************************************************************************)
(* The vendored TLS tables, trimmed for TLC: configv1.TLSProfiles with    *)
(* each profile's minimum version and some of its OpenSSL cipher names    *)
(* (Intermediate's last one has no IANA name), the OpenSSL-to-IANA name   *)
(* table, and the names k8sapiflag knows.                                 *)
(***************************************************************************)
EXTENDS TLC

ProfileSpec(min, ciphers) == [minTLSVersion |-> min, ciphers |-> ciphers]

MCTLSProfiles ==
    [p \in {"Old", "Intermediate", "Modern"} |->
       CASE p = "Old" -> ProfileSpec("VersionTLS10", <<"ECDHE-RSA-AES128-GCM-SHA256", "ECDHE-RSA-AES128-SHA", "DES-CBC3-SHA">>)
         [] p = "Intermediate" -> ProfileSpec("VersionTLS12", <<"TLS_AES_128_GCM_SHA256", "ECDHE-RSA-AES128-GCM-SHA256", "DHE-RSA-AES128-GCM-SHA256">>)
         [] p = "Modern" -> ProfileSpec("VersionTLS13", <<"TLS_AES_128_GCM_SHA256">>)]

MCOpenSSLToIANA ==
    ("TLS_AES_128_GCM_SHA256" :> "TLS_AES_128_GCM_SHA256")
    @@ ("ECDHE-RSA-AES128-GCM-SHA256" :> "TLS_ECDHE_RSA_WITH_AES_128_GCM_SHA256")
    @@ ("ECDHE-RSA-AES128-SHA" :> "TLS_ECDHE_RSA_WITH_AES_128_CBC_SHA")
    @@ ("DES-CBC3-SHA" :> "TLS_RSA_WITH_3DES_EDE_CBC_SHA")

\* k8sapiflag.TLSVersion's and TLSCipherSuites' tables (IANA names only).
MCTLSVersionNames == {"VersionTLS10", "VersionTLS11", "VersionTLS12", "VersionTLS13"}
MCGoCipherSuites ==
    {"TLS_AES_128_GCM_SHA256", "TLS_ECDHE_RSA_WITH_AES_128_GCM_SHA256",
     "TLS_ECDHE_RSA_WITH_AES_128_CBC_SHA", "TLS_RSA_WITH_3DES_EDE_CBC_SHA"}

=============================================================================
