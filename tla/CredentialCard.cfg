\* One credential with up to two credits, two redemptions, two switches; and
\* an editor whose saves succeed, fail, get lost or are dismissed.
SPECIFICATION PageSpec
CONSTANTS
    None = None
    p1 = p1
    p2 = p2
    Patches <- TwoPatches
    MaxCredits = 2
    MaxRedeems = 2
    f = f
    g = g
    p = p
    q = q
    s1 = s1
    s2 = s2
    s3 = s3
    Files <- TwoFiles
    Prefixes <- TwoPrefixes
    Saves <- ThreeSaves
SYMMETRY Symmetry
INVARIANTS
    SpentIsConfirmed
    CountFollows
    StatusFollows
    CardFollows
    SavedIsShownAndTold
    LockedWhileSaving
\* Nobody has to click.
CHECK_DEADLOCK FALSE
