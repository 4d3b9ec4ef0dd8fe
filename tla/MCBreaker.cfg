CONSTANTS
    c1 = c1
    c2 = c2
    c3 = c3
    Calls = {c1, c2, c3}
    Threshold = 2
SPECIFICATION BreakerFairSpec
 
PROPERTIES TripsOnlyAtThreshold HealsAfterOutage
