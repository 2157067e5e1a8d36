SPECIFICATION Spec
CONSTANTS
    BaseDishes <- MCBaseDishes
    MaxWraps = 3
INVARIANTS TypeOK ScoreIsPercentage QualifiedSucceeds
PROPERTIES PracticePays VariationPays
CHECK_DEADLOCK FALSE
