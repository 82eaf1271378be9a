\* The same, asked of every save.
SPECIFICATION EditorSpec
CONSTANTS
    f = f
    g = g
    p = p
    q = q
    s1 = s1
    s2 = s2
    s3 = s3
    Files <- TwoFiles
    Prefixes <- TwoPrefixes
    Saves <- ThreeSaves
INVARIANT
    EverySaveIsShownAndTold
CHECK_DEADLOCK FALSE
