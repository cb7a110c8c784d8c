\* Two servers one of which may miss what is published, one customer that may
\* lose its connection, a ride of four versions.
SPECIFICATION FairSpec
CONSTANTS
    Servers = {s1, s2}
    NoServer = NoServer
    MaxVersion = 4
    Drops = 1
    Losses = 1
INVARIANTS TypeOK CaughtUp ScreenIsCurrent
PROPERTIES StaysInformed
CHECK_DEADLOCK FALSE
