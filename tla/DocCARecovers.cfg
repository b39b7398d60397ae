SPECIFICATION ProcessSpec
CONSTANTS
    Procs = {p1, p2}
    Launches <- MCLaunches
    MaxAttempts = 2
    Seconds = 2
CHECK_DEADLOCK FALSE
PROPERTY CorrectedCARecovers
