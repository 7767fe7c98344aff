CONSTANTS
    t1 = t1
    t2 = t2
    Targets <- MCTargets
    MaxMounts <- MCMaxMounts
    MaxTicks <- MCMaxTicks

SPECIFICATION Spec

\* The driver's life ends with Stop, and the helper bound ends mounting.
CHECK_DEADLOCK FALSE

INVARIANT StopKillsAllHelpers
