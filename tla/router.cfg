\* Every configuration of up to three entries over six nested prefixes.
SPECIFICATION Spec
CONSTANTS
    Char <- MCChar
    Configs <- MCConfigs
    Targets <- MCTargets
INVARIANTS RouterInv LongestPrefixWins FallbackInListOrder
