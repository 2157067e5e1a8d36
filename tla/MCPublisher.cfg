SPECIFICATION Spec
CONSTANTS
    fulfillment = fulfillment
    satisfaction = satisfaction
    customer = customer
    KitchenObservers <- MCObservers
    Null = Null
    MaxDishes = 3
    MaxCalls = 4
INVARIANTS HearsEachDishOnce NotifiedInTurn
