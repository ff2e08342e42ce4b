CONSTANTS
    NUM_PHIL <- MCNumPhil

SPECIFICATION FairSpec

INVARIANT TypeOK

PROPERTY AbsSpec
PROPERTY StarvationFree
