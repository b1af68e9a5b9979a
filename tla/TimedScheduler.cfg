SPECIFICATION Spec
CONSTANTS
    c1 = c1
    c2 = c2
    c3 = c3
    Checks <- ThreeChecks
    FailAfter = 8
    MaxLoop = 2
    MaxFaults = 1
CHECK_DEADLOCK FALSE
INVARIANTS NoStarvation TimelyVerdict
