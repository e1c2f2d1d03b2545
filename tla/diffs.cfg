\* Two configs' files (with policies) or units, in every map order.
CONSTANTS
    FileConfigs <- MCFileConfigs
    UnitConfigs <- MCUnitConfigs
    PolicyLists <- MCPolicyLists

SPECIFICATION Spec
INVARIANT TypeOK
INVARIANT DiffExact
INVARIANT PolicyMatchClosest
