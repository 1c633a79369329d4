SPECIFICATION Spec
CONSTANTS
    Foreign <- MCForeign
    Tails <- MCTails
INVARIANTS
    MandatoryFilled
