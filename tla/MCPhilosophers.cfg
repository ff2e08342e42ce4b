CONSTANTS
    NUM_PHIL <- MCNumPhil

SPECIFICATION FairSpec

INVARIANT TypeOK
INVARIANT ForkExclusion
INVARIANT NoCircularWait

PROPERTY SomeoneEats
