SPECIFICATION WebSpec
CONSTANTS
    MaxTurns = 1
    MaxSessions = 2
    NoAnswer = NoAnswer
CHECK_DEADLOCK FALSE
INVARIANTS OwnWritesShow SessionsAreSound
PROPERTIES RefusalsHaveCause RunsAreWatched
