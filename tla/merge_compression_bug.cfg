\* Configs set a compression only with contents; a later config that
\* declares a file without contents keeps the gzip source, drops "gzip".
CONSTANTS
    Names = {1, 2}
    Paths = {p1}
    Sources = {sa, sb}
    Nil = Nil
    Absent = Absent
    Invalid = Invalid
    NoLabels = NoLabels
    Fragments <- ContentsFragments
    DefaultOSImage = "os-default"
    DefaultExtImage = "ext-default"

SPECIFICATION Spec
INVARIANT CompressionMatchesSource
