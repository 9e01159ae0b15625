CONSTANTS
    Instances = {i1, i2}
    Plans <- MCPlans
    Counts = {1}
    MaxTime = 6
SPECIFICATION Spec
SYMMETRY InstanceSymmetry
INVARIANT EnforcedAcrossPlans
INVARIANT NothingIsInflated
