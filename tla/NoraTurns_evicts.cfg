\* Two sessions where there is room for one.
CONSTANTS
    Turns = {1, 2, 3}
    Sessions = {1, 2}
    Users = {1}
    Workers = {1, 2}
    Routes <- MCRoutes
    PoolSize = 2
    MaxSessions = 1
    MaxLocks = 2
    MaxEvents = 0
SPECIFICATION Spec
PROPERTY KeepsTheRecent
