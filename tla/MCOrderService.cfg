SPECIFICATION Spec
CONSTANTS
    tomato = tomato
    oil = oil
    salad = salad
    chips = chips
    Never = Never
    Ids <- MCIds
    Required <- MCRequired
    OpeningStock <- MCOpeningStock
    ShelfLife <- MCShelfLife
    Amounts = {1}
    Dishes <- MCDishes
    Contents <- MCContents
    Price <- MCPrice
    Levels <- MCLevels
    CookScore <- MCCookScore
    Patiences = {2}
    Expenses = {100}
    MaxNow = 3
    MaxDay = 1
    MaxOrders = 2
    MaxQuantity = 4
    MaxAlerts = 1
    MaxDebt = 0
INVARIANTS TypeOK StatusAgrees FirstComeFirstServed LedgersAligned SatisfactionFitsOutcome
PROPERTIES ImplementsLifecycle OrdersEnd
