\* Three Accept entries, one of them with q=NaN.
CONSTANTS
    Requests <- QRequests
    Supported <- MCSupported
    NaN = NaN
    BadQ = BadQ
    BadVersion = BadVersion
    NotMime = NotMime
    IgnSubtype = IgnSubtype
    OtherSubtype = OtherSubtype
    ConfErr = ConfErr
    ConfNone = ConfNone
    ConfInvalid = ConfInvalid
    Nil = Nil

SPECIFICATION Spec
INVARIANT QPrecedence
