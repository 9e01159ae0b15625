CONSTANTS
    Absent = Absent
    Rules <- MCRules
    MIN_WINDOW = 60
    MAX_WINDOW = 2678400
    BUCKET_TARGET_COUNT = 50
    MIN_BUCKET = 1
    MAX_BUCKET = 86400
SPECIFICATION FairSpec
INVARIANT PlanIsSound
INVARIANT PlanIsFaithful
INVARIANT BucketSizeFits
PROPERTY Terminates
CHECK_DEADLOCK FALSE
