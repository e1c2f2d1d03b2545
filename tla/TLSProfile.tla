----------------------------- MODULE TLSProfile -----------------------------
(***************************************************************************)
(* How an OpenShift TLSSecurityProfile becomes TLS settings: GetSecurity- *)
(* ProfileCiphers and GetSecurityProfileCiphersFromAPIServer (pkg/        *)
(* controller/common/helpers.go) resolve a profile to a minimum version   *)
(* and IANA cipher names.  Operators only; KubeletBootstrap and APIServer *)
(* instantiate it.                                                        *)
(*                                                                         *)
(* The tables the code consults live in vendored libraries and are       *)
(* constants here: configv1.TLSProfiles (type -> [minTLSVersion, ciphers *)
(* in OpenSSL names]) and crypto.OpenSSLToIANACipherSuites' name table.  *)
(* A profile is Nil or [type, custom], custom being Nil or a TLSProfile-  *)
(* Spec; an APIServer is Nil or [tlsSecurityProfile].                     *)
(***************************************************************************)
EXTENDS Naturals, Sequences, SequencesExt

CONSTANTS
    TLSProfiles,     \* configv1.TLSProfiles
    OpenSSLToIANA,   \* OpenSSL cipher name -> IANA name, where one exists
    Nil

Intermediate == "Intermediate"
Custom == "Custom"

-----------------------------------------------------------------------------
(* Defective variant, a plausible slip in the code.                       *)

\* The Custom type looked up in the table like the others.
ResolveSpecNoCustom(profileType, profile) ==
    IF profileType \in DOMAIN TLSProfiles THEN TLSProfiles[profileType] ELSE Nil

-----------------------------------------------------------------------------
(* Helpers translated from the code.                                       *)

\* crypto.OpenSSLToIANACipherSuites: names without an IANA name dropped.
OpenSSLToIANACipherSuites(ciphers) ==
    LET known == SelectSeq(ciphers, LAMBDA c : c \in DOMAIN OpenSSLToIANA)
    IN  [n \in DOMAIN known |-> OpenSSLToIANA[known[n]]]

\* The spec of a profile type: a Custom profile's own (Nil without one),
\* otherwise the table's entry (Nil for a type the table lacks).
ResolveSpec(profileType, profile) ==
    IF profileType = Custom
    THEN profile.custom
    ELSE IF profileType \in DOMAIN TLSProfiles THEN TLSProfiles[profileType] ELSE Nil

\* GetSecurityProfileCiphers: a nil profile, a Custom type without a
\* custom spec and an unknown type all resolve to Intermediate.
GetSecurityProfileCiphers(profile) ==
    LET profileType == IF profile = Nil THEN Intermediate ELSE profile.type
        found == ResolveSpec(profileType, profile)
        profileSpec == IF found = Nil THEN TLSProfiles[Intermediate] ELSE found
    IN  [minTLSVersion |-> profileSpec.minTLSVersion,
         ciphers |-> OpenSSLToIANACipherSuites(profileSpec.ciphers)]

\* GetSecurityProfileCiphersFromAPIServer: no APIServer object is a nil
\* profile.
GetSecurityProfileCiphersFromAPIServer(apiServer) ==
    GetSecurityProfileCiphers(IF apiServer = Nil THEN Nil
                              ELSE apiServer.tlsSecurityProfile)

=============================================================================
