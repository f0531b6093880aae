SPECIFICATION FairLoopSpec
CONSTANTS
    a = a
    b = b
    c1 = c1
    c2 = c2
    Controllers <- MCControllers
    Keys <- MCKeys
    Template <- MCTemplate
    Proposals <- MCProposals
    HighRisk = TRUE
    MaxSteps <- MCMaxSteps
    MaxIncidents = 1
INVARIANT ReviewedGraph
PROPERTIES
    NoDispatchOverBlocker
    RunGetsReady
