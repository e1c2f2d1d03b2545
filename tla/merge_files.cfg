\* Up to three configs declaring one path or varying kernel type,
\* kernel-devel and the OS image.
CONSTANTS
    Names = {1, 2, 3}
    Paths = {p1}
    Sources = {sa, sb}
    Nil = Nil
    Absent = Absent
    Invalid = Invalid
    NoLabels = NoLabels
    Fragments <- MergeFragments
    DefaultOSImage = "os-default"
    DefaultExtImage = "ext-default"

SPECIFICATION Spec
INVARIANT TypeOK
INVARIANT ContentsFollowLastDeclaration
INVARIANT OverwriteFollowsLastExplicit
INVARIANT PoolPrecedence
INVARIANT NonDefaultKernelWins
INVARIANT KernelDevelCheck
INVARIANT ImageOverridesWin
