\* One visit with two possible times, a sweep every two ticks, a day of three,
\* one run missed.
CONSTANTS
    Never = Never
    Visits = {v1}
    Times <- MCTimes
    Interval = 2
    Lookahead = 4
    Day = 3
    Lookback = 6
    Retention = 4
    MaxMissed = 1
    MaxChanges = 3
    LastTick = 12
SPECIFICATION Spec
INVARIANTS TypeOK UpcomingIsTold UpcomingToldOnce OverdueRings
