SPECIFICATION Spec
CONSTANTS
    c1 = c1
    c2 = c2
    c3 = c3
    Checks <- OneCheck
    FailAfter = 8
    MaxLoop = 2
    MaxFaults = 0
CHECK_DEADLOCK FALSE
PROPERTY RestsBetweenCalls
