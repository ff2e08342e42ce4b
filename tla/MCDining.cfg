CONSTANTS
    NUM_PHIL <- MCNumPhil

SPECIFICATION FairSpec

INVARIANT TypeOK
INVARIANT NoUnwrapPanic

PROPERTY StartupCompletes
