SPECIFICATION Spec
CONSTANTS
    Foreign <- MCForeign
    Tails <- MCTails
INVARIANTS
    TypeOK
    FilledFromMessage
    UnpackedAsPacked
    StringFreed
