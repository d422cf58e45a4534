\* Two processes that create and destroy instances, and may die, over three sessions.
SPECIFICATION FairSpec
CONSTANTS
    Processes = {p1, p2}
    Nobody = Nobody
    Sessions = 3
    DialAttempts = 2
    WaitExit = TRUE
    Acceptances = {TRUE, FALSE}
INVARIANTS
    InstancesAreServed
    SuccessIsTheContainers
PROPERTIES
    AdapterEnds
    AcceptedListenersAreDialled
