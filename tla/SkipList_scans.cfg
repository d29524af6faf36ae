SPECIFICATION Spec
CONSTANTS
    Keys <- MCKeys
    Ranges <- MCRanges
    Values = {v1}
    Readers = {r1}
    MaxLevel = 1
    MaxNodes = 3
INVARIANTS LevelsAgree ScanRegular
PROPERTIES WritesAtomic
