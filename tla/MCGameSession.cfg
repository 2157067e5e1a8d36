SPECIFICATION Spec
CONSTANTS
    chicken = chicken
    oil = oil
    wings = wings
    ribeye = ribeye
    bigWings = bigWings
    premiumWings = premiumWings
    Never = Never
    Ids <- MCIds
    Required <- MCRequired
    OpeningStock <- MCOpeningStock
    ShelfLife <- MCShelfLife
    Cost <- MCCost
    Recipes <- MCRecipes
    Ingredients <- MCIngredients
    Skill <- MCSkill
    RecipeId <- MCRecipeId
    Name <- MCName
    Lower <- MCLower
    Seeded <- MCSeeded
    Variations = {}
    Price <- MCPrice
    CookScore <- MCCookScore
    PatienceOf <- MCPatienceOf
    Thresholds <- MCThresholds
    StartingLevels <- MCStartingLevels
    MaxLevel = 2
    MaxWraps = 0
    MaxNow = 2
    MaxDay = 1
    MaxOrders = 2
    MaxQuantity = 3
    MaxAlerts = 1
INVARIANTS NothingRuined NamesUnique
PROPERTIES QueueDrains
CHECK_DEADLOCK FALSE
