SPECIFICATION FairSpec
INVARIANTS TypeOK AnswersAreWhole
PROPERTIES NeverBack AnswersSettle
CONSTANTS
    c1 = c1
    c2 = c2
    Clients <- TwoClients
    Kinds = {"voice", "text"}
    MaxRuns = 2
    MaxFaults = 2
    MaxLosses = 1
