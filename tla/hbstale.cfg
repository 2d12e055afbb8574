\* One storage server, started and then restarted, with the code's timing.
CONSTANTS
    SSId = {"s1"}
    Runs <- MCRunsOne
    MaxSS = 1
    Unit <- MCUnit
    Interval <- MCInterval
    Grace <- MCGrace
    Timeout <- MCTimeout
    MaxBeats = 1
SPECIFICATION Spec
INVARIANT NoFalseSuspicion
