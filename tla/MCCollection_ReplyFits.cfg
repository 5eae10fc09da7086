\* Two files, two rescans, one key fetch and one search.
CONSTANTS
    f1 = f1
    f2 = f2
    g = g
    k = k
    Files <- MCFiles
    FileGroup <- MCFileGroup
    KeyEntry = k
    NullCtx = NullCtx
    SearchGroup = g
    MaxRescans = 2
    MaxFetches = 1
    MaxSearches = 1
SPECIFICATION Spec
INVARIANT ReplyFits
