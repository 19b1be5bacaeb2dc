SPECIFICATION Spec
CONSTANTS
    Tokens <- MCTokens
    Cost <- MCCost
    Destinations <- MCDestinations
    Results <- MCResults
    Keys <- MCKeys
    Recent = 6
    Older = 4
    Share = 2
    DestinationShare = 1
    MaxResults = 5
INVARIANTS WithinBudget FloodIsLong LoneDestinationStays
PROPERTY NewIsChecked
CHECK_DEADLOCK FALSE
