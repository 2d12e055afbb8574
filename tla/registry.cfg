\* Two storage servers, room for one in ss_list, each may crash, halt and
\* be restarted once.
CONSTANTS
    SSId = {"s1", "s2"}
    Runs <- MCRunsTwo
    MaxSS = 1
    Unit <- MCUnitCoarse
    Interval <- MCInterval
    Grace <- MCGrace
    Timeout <- MCTimeout
    MaxBeats = 2
SPECIFICATION Spec
INVARIANT TypeOK
PROPERTY DeadDetected
