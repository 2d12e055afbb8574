\* One storage server, started and then restarted with the code's timing:
\* after the NM's old command thread closed its socket, the restarted SS's
\* new command socket may be accepted under the same fd number.
CONSTANTS
    SSId = {"s1"}
    Runs <- MCRunsOne
    MaxSS = 1
    Unit <- MCUnit
    Interval <- MCInterval
    Grace <- MCGrace
    Timeout <- MCTimeout
    MaxBeats = 1
SPECIFICATION Spec
INVARIANT ActiveSlotServed
