\* Accept-header negotiation and the ServeHTTP pipeline.
CONSTANTS
    Requests <- MCRequests
    Supported <- MCSupported
    NaN = NaN
    BadQ = BadQ
    BadVersion = BadVersion
    NotMime = NotMime
    IgnSubtype = IgnSubtype
    OtherSubtype = OtherSubtype
    ConfErr = ConfErr
    ConfNone = ConfNone
    ConfInvalid = ConfInvalid
    Nil = Nil
    TLSProfiles <- MCTLSProfiles
    OpenSSLToIANA <- MCOpenSSLToIANA
    Manifests <- MCManifests
    TLSVersionNames <- MCTLSVersionNames
    GoCipherSuites <- MCGoCipherSuites
    Absent = Absent
    Unreadable = Unreadable
    BadYAML = BadYAML

SPECIFICATION ServerSpec
INVARIANT TypeOK
INVARIANT NegotiationMatchesSpec
INVARIANT ResponseFollowsChecks
INVARIANT ListenerFollowsProfile
