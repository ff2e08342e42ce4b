CONSTANTS
    Slots <- MCSlots
    Callers <- MCCallers
    NoSlot = NoSlot

SPECIFICATION FairSpec

INVARIANT TypeOK
INVARIANT ExactlyOnce
INVARIANT Publication

PROPERTY InitCompletes
PROPERTY StateForward
