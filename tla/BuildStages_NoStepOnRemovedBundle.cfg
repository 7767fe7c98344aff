CONSTANTS
    NumStages <- MCNumStages
    ConveyorAttempts <- MCConveyorAttempts
    MaxSignals <- MCMaxSignals

SPECIFICATION Spec

\* The build process really stops: Full returns or the process exits.
CHECK_DEADLOCK FALSE

PROPERTY NoStepOnRemovedBundle
