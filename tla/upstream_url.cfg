\* One remote origin, whose path ends in "/" or does not.
SPECIFICATION Spec
CONSTANTS
    Char <- MCChar
    Configs <- OnePrefix
    Targets <- MCTargets
INVARIANTS UpstreamBelowUrl
