\* The default policy: two messages at two priorities, a cache of two.
SPECIFICATION CacheSpec
CONSTANTS
    Messages = {"hello", "motion"}
    Ranks = {3, 5}
    Policy = "same_or_lower_priority"
    Size = 2
    Ttl = 2
    MaxClock = 3
    MaxChecks = 5
INVARIANTS
    CacheTyped
    DupeHasReason
    RepeatOnlyWhenCrowded
