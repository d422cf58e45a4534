\* The driver finds the host unacceptable, and its application tries again.
SPECIFICATION FairSpec
CONSTANTS
    Processes = {p1}
    Nobody = Nobody
    Sessions = 2
    DialAttempts = 2
    WaitExit = TRUE
    Acceptances = {FALSE}
PROPERTY
    ListenersAreDialled
