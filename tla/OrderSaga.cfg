SPECIFICATION FairSpec
CONSTANT MaximumAttempts = 3
INVARIANTS EffectsOnce PivotIsFinal ConfirmedMeansPaid
PROPERTY SagaEnds
CHECK_DEADLOCK FALSE
