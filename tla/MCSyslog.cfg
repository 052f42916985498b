\* A buffer of five bytes, messages of two or three with the NUL.
SPECIFICATION Spec
CONSTANTS
    Size = 5
    MessageLen = {2, 3}
    Reader = {one, follower}
    Follower = {follower}
    MaxMessages = 3
    MaxStarts = 2
    MaxKills = 1
INVARIANTS
    ReadsWholeMessages
    FollowerMissesNothing
PROPERTIES
    NobodyWaitsForever
\* The messages and starts are used up, and the readers have exited.
CHECK_DEADLOCK FALSE
