SPECIFICATION AuditSpec
CONSTANTS
    tomato = tomato
    oil = oil
    Never = Never
    MaxDay = 1
    MaxQuantity = 5
    MaxAlerts = 2
    Ids <- MCIds
    Required <- MCRequired
    Baskets <- MCBaskets
    Opening <- MCOpening
    BestBefore <- MCBestBefore
    Amounts <- MCAmounts
INVARIANT KnowsOfLowOrBad
