CONSTANTS
    s1 = s1
    s2 = s2
    s3 = s3
    none = none
    Selectors <- MCSelectors
    EntryPoints = {0, 1, 2}
    NoValue = none

SPECIFICATION Spec

CHECK_DEADLOCK FALSE

PROPERTIES
    ImplementsDecompileOutput
