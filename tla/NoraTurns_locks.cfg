\* Three turns of two users on two sessions, two workers with two connections
\* each, room for one session and one lock in memory, one failure, restart or read.
CONSTANTS
    Turns = {1, 2, 3}
    Sessions = {1, 2}
    Users = {1, 2}
    Workers = {1, 2}
    Routes <- MCRoutes
    PoolSize = 2
    MaxSessions = 1
    MaxLocks = 1
    MaxEvents = 1
SPECIFICATION FairSpec
INVARIANTS OneTurnAtATime NoTurnLost OneOwner
PROPERTY EveryTurnAnswered
