---------------------------- MODULE ServerStartup ----------------------------
(***************************************************************************)
(* Start-up of the bootstrap Machine Config Server: GetBootstrapAPIServer *)
(* (pkg/controller/common/helpers.go) reads the APIServer manifest, its   *)
(* TLS security profile is resolved by GetSecurityProfileCiphersFrom-     *)
(* APIServer (TLSProfile, instantiated as T) and turned into a tls.Config *)
(* by GetGoTLSConfig; then the secure and the insecure APIServer          *)
(* (pkg/server/api.go NewAPIServer) each Serve on their own goroutine.    *)
(* The command that chains these calls is outside src/ and follows the    *)
(* spec (section 5: two listeners; a missing manifest means defaults).    *)
(*                                                                         *)
(* Data abstraction: the manifest is Absent, Unreadable (a read error      *)
(* other than not-exist), BadYAML, or the APIServer it holds; a TLS       *)
(* version or cipher suite ID is its name, k8sapiflag's tables being the  *)
(* constants TLSVersionNames and GoCipherSuites.                          *)
(***************************************************************************)
EXTENDS Naturals, Sequences

CONSTANTS
    TLSProfiles, OpenSSLToIANA, Nil,   \* for TLSProfile
    Manifests,        \* the bootstrap manifests the node may hold
    Absent, Unreadable, BadYAML,
    TLSVersionNames,  \* the version names k8sapiflag.TLSVersion knows
    GoCipherSuites    \* the IANA names k8sapiflag.TLSCipherSuites knows

T == INSTANCE TLSProfile

Ports == {"secure", "insecure"}
Down == [up |-> FALSE, tls |-> Nil, http2 |-> FALSE, getCertificate |-> FALSE]

VARIABLES
    manifest,   \* the file at APIServerBootstrapFileLocation
    certOK,     \* whether certwatcher.New can load the serving cert and key
    spc,        \* "read", "tls", "serve" or "exited"
    apiServer,  \* the APIServer read, or Nil
    tlsConfig,  \* [minVersion, cipherSuites] from GetGoTLSConfig, or Nil
    listeners   \* port -> Down or [up, tls, http2, getCertificate]

svars == <<manifest, certOK, spc, apiServer, tlsConfig, listeners>>

-----------------------------------------------------------------------------
(* Defective variant, a plausible slip in the code.                       *)

\* Any read error taken for a missing manifest.
GetBootstrapAPIServerErrorsAsAbsent(m) ==
    IF m \in {Absent, Unreadable} THEN [err |-> FALSE, obj |-> Nil]
    ELSE IF m = BadYAML THEN [err |-> TRUE, obj |-> Nil]
    ELSE [err |-> FALSE, obj |-> m]

-----------------------------------------------------------------------------
(* Helpers translated from the code.                                       *)

\* GetBootstrapAPIServer: a missing file is no APIServer and no error; any
\* other read error and a failed unmarshal are errors.
GetBootstrapAPIServer(m) ==
    CASE m = Absent               -> [err |-> FALSE, obj |-> Nil]
      [] m \in {Unreadable, BadYAML} -> [err |-> TRUE, obj |-> Nil]
      [] OTHER                    -> [err |-> FALSE, obj |-> m]

\* GetGoTLSConfig, with k8sapiflag.TLSVersion (an empty name is TLS 1.2)
\* and TLSCipherSuites (an empty list is nil; an unknown name an error with
\* a nil list).  On an error or an empty list it falls back to the
\* Intermediate profile's table entry, ignoring the errors of that.
GetGoTLSConfig(minVersion, cipherSuites) ==
    LET TLSVersion(n) ==
          CASE n = ""                -> [id |-> "VersionTLS12", err |-> FALSE]
            [] n \in TLSVersionNames -> [id |-> n, err |-> FALSE]
            [] OTHER                 -> [id |-> 0, err |-> TRUE]
        TLSCipherSuites(s) ==
          IF \A i \in DOMAIN s : s[i] \in GoCipherSuites
          THEN [ids |-> s, err |-> FALSE] ELSE [ids |-> <<>>, err |-> TRUE]
        v == TLSVersion(minVersion)
        c == TLSCipherSuites(cipherSuites)
        fallback == TLSProfiles[T!Intermediate]
    IN  IF v.err \/ c.err \/ c.ids = <<>>
        THEN [minVersion |-> TLSVersion(fallback.minTLSVersion).id,
              cipherSuites |-> TLSCipherSuites(fallback.ciphers).ids]
        ELSE [minVersion |-> v.id, cipherSuites |-> c.ids]

\* getHTTPServerCfg: the handler behind an empty TLSNextProto map, which
\* turns HTTP/2 off, and the given tls.Config.
getHTTPServerCfg(tls) == [up |-> TRUE, tls |-> tls, http2 |-> FALSE,
                          getCertificate |-> FALSE]

-----------------------------------------------------------------------------

StartupInit ==
    /\ manifest \in Manifests
    /\ certOK \in BOOLEAN
    /\ spc = "read"
    /\ apiServer = Nil
    /\ tlsConfig = Nil
    /\ listeners = [p \in Ports |-> Down]

\* The manifest is read; an error ends the start-up.
ReadAPIServer ==
    /\ spc = "read"
    /\ LET r == GetBootstrapAPIServer(manifest) IN
         /\ apiServer' = r.obj
         /\ spc' = IF r.err THEN "exited" ELSE "tls"
    /\ UNCHANGED <<manifest, certOK, tlsConfig, listeners>>

\* The profile's minimum version and IANA ciphers become the tls.Config
\* both APIServers are built with (NewAPIServer).
ConfigureTLS ==
    /\ spc = "tls"
    /\ LET r == T!GetSecurityProfileCiphersFromAPIServer(apiServer)
       IN  tlsConfig' = GetGoTLSConfig(r.minTLSVersion, r.ciphers)
    /\ spc' = "serve"
    /\ UNCHANGED <<manifest, certOK, apiServer, listeners>>

\* Serve with insecure set: ListenAndServe, no TLS.
ServeInsecure ==
    /\ spc = "serve"
    /\ ~listeners["insecure"].up
    /\ listeners' = [listeners EXCEPT !["insecure"] = getHTTPServerCfg(Nil)]
    /\ UNCHANGED <<manifest, certOK, spc, apiServer, tlsConfig>>

\* Serve on the secure port: the cert watcher is created, its
\* GetCertificate installed, and ListenAndServeTLS started; when the cert
\* cannot be loaded, klog.Exitf ends the whole process.
ServeSecure ==
    /\ spc = "serve"
    /\ ~listeners["secure"].up
    /\ IF certOK
       THEN /\ listeners' = [listeners EXCEPT !["secure"] =
                  [getHTTPServerCfg(tlsConfig) EXCEPT !.getCertificate = TRUE]]
            /\ UNCHANGED spc
       ELSE /\ spc' = "exited"
            /\ listeners' = [p \in Ports |-> Down]
    /\ UNCHANGED <<manifest, certOK, apiServer, tlsConfig>>

\* The process has exited, or both servers are serving.
Stopped ==
    /\ \/ spc = "exited"
       \/ \A p \in Ports : listeners[p].up
    /\ UNCHANGED svars

StartupNext == ReadAPIServer \/ ConfigureTLS \/ ServeInsecure \/ ServeSecure \/ Stopped

-----------------------------------------------------------------------------
(* Properties.                                                             *)

\* The settings the spec gives the secure listener: the manifest's profile
\* (no manifest or no profile meaning Intermediate), its OpenSSL ciphers
\* renamed to IANA names.
RefListenerTLS ==
    LET p    == IF manifest = Absent THEN Nil ELSE manifest.tlsSecurityProfile
        spec == CASE p = Nil -> TLSProfiles[T!Intermediate]
                  [] p.type = T!Custom /\ p.custom # Nil -> p.custom
                  [] p.type \in DOMAIN TLSProfiles -> TLSProfiles[p.type]
                  [] OTHER -> TLSProfiles[T!Intermediate]
    IN  [minVersion |-> spec.minTLSVersion,
         cipherSuites |-> T!OpenSSLToIANACipherSuites(spec.ciphers)]

\* A server that serves has read its manifest: an unreadable or malformed
\* manifest never leaves the node serving with defaults.  The secure
\* listener serves with the manifest profile's version and ciphers,
\* HTTP/2 off and the cert watcher's GetCertificate installed.
ListenerFollowsProfile ==
    /\ (\E p \in Ports : listeners[p].up) => manifest \notin {Unreadable, BadYAML}
    /\ listeners["secure"].up =>
         /\ listeners["secure"].tls = RefListenerTLS
         /\ ~listeners["secure"].http2
         /\ listeners["secure"].getCertificate

=============================================================================
