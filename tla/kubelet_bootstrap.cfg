\* Up to three KubeletConfigs, with TLS profiles, over three pools.
CONSTANTS
    Inputs <- MCInputs
    InvalidSelector = InvalidSelector
    TLSProfiles <- MCTLSProfiles
    OpenSSLToIANA <- MCOpenSSLToIANA
    TemplateTLS <- MCTemplateTLS
    Nil = Nil

SPECIFICATION Spec
INVARIANT TypeOK
INVARIANT BootstrapOutcome
INVARIANT KubeletTLSFollowsProfile
