CONSTANTS
    alice = alice
    robot = robot
    Users = {alice, robot}
    Clients = {c1}
    Counts = {1, 2}
    Plan <- SharedKeyPlans
    MaxTime = 4
    MaxLate = 1
SPECIFICATION StatusSpec
INVARIANT StatusTypeOK
INVARIANT SlidingWindowLimit
INVARIANT StoreIsFaithful
INVARIANT HashIsBounded
INVARIANT StatusIsBracketed
INVARIANT StatusAgreesWithEnforcement
PROPERTY ImplementsSlidingWindow
