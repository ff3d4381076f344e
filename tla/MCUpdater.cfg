SPECIFICATION Spec
CONSTANTS
    p1 = p1
    p2 = p2
    Procs <- MCProcs
    None = None
    MaxVersion = 3
    MaxCrashes = 2
SYMMETRY Symmetry
INVARIANT InstallsWhatItVerified
PROPERTY CheckSettles
PROPERTY PendingKept
PROPERTY DirSpec
