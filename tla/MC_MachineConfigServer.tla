------------------------ MODULE MC_MachineConfigServer ------------------------
(***************************************************************************)
(* The bootstrap server as a whole: ServerStartup brings the listeners up *)
(* and ConfigServer's request pipeline runs once one of them serves.      *)
(*                                                                         *)
(* The request handler never reads the listener's TLS settings nor the    *)
(* manifest, and start-up never reads the request, so the two state       *)
(* spaces are independent apart from "a listener is up".  ServerInit      *)
(* therefore explores every request behind one start-up (no manifest, a   *)
(* loadable cert) and every start-up in front of one request (a probe of *)
(* /healthz), instead of the product of the two.                          *)
(***************************************************************************)
EXTENDS MC_ConfigServer, MC_TLSTables

CONSTANTS TLSProfiles, OpenSSLToIANA, Manifests, Absent, Unreadable, BadYAML,
          TLSVersionNames, GoCipherSuites

VARIABLES manifest, certOK, spc, apiServer, tlsConfig, listeners

S == INSTANCE ServerStartup

startupVars == <<manifest, certOK, spc, apiServer, tlsConfig, listeners>>

APIServer(t, c) == [tlsSecurityProfile |-> IF t = Nil THEN Nil ELSE [type |-> t, custom |-> c]]

\* Manifests: missing, unreadable, malformed, without a profile, with an
\* Old, Modern, unknown or empty-Custom profile, and with a Custom profile
\* whose ciphers have IANA names (a Custom profile none of whose ciphers
\* has one makes GetGoTLSConfig fall back; see the README).
MCManifests ==
    {Absent, Unreadable, BadYAML,
     APIServer(Nil, Nil), APIServer("Old", Nil), APIServer("Modern", Nil),
     APIServer("Fancy", Nil), APIServer("Custom", Nil),
     APIServer("Custom", ProfileSpec("VersionTLS11",
                                     <<"DHE-RSA-AES128-GCM-SHA256", "ECDHE-RSA-AES128-SHA">>))}

Probe == [route |-> "healthz", method |-> "GET", pathEmpty |-> FALSE,
          accept |-> <<>>, conf |-> ConfNone]

ServerInit ==
    \/ S!StartupInit /\ manifest = Absent /\ certOK /\ Init
    \/ req = Probe /\ Init /\ S!StartupInit

ServerNext ==
    \/ S!StartupNext /\ UNCHANGED vars
    \/ (\E p \in S!Ports : listeners[p].up) /\ Next /\ UNCHANGED startupVars

ServerSpec == ServerInit /\ [][ServerNext]_<<vars, startupVars>>

\* Start-up's property, named for the configuration.
ListenerFollowsProfile == S!ListenerFollowsProfile

=============================================================================
