SPECIFICATION Spec
CONSTANTS
    Workers = {w1, w2, w3}
    NumBots = 5
    Strategies = {"RoundRobin", "RoleBased", "LoadBalanced", "Isolation",
                  "AffinityByRole", "AffinityByScenario", "AffinityByOther"}
    Roles = {user, trader}
    GeneralUser = user
    MaxCapacity = 2
    WordSize = 16
    Builds = {TRUE, FALSE}
INVARIANTS
    TypeOK
    AssignedOnce
    EvenTurns
    CapabilityRespected
    NoEnvyByRole
    OverloadOnlyWhenAllFull
    KeptTogether
\* A call of the scheduler ends.
CHECK_DEADLOCK FALSE
