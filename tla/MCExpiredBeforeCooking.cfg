SPECIFICATION Spec
CONSTANTS
    tomato = tomato
    oil = oil
    salad = salad
    chips = chips
    premium = premium
    double = double
    Never = Never
    Ids <- MCIds
    Required <- MCRequired
    OpeningStock <- MCOpeningStock
    ShelfLife <- MCShelfLife
    Cost <- MCCost
    Recipes <- MCRecipes
    Ingredients <- MCIngredients
    Skill <- MCSkill
    RecipeId <- MCRecipeId
    Name <- MCName
    Lower <- MCName
    Seeded <- MCRecipes
    Variations <- MCVariations
    Toggles <- MCToggles
    Price <- MCPrice
    CookScore <- MCCookScore
    PatienceOf <- MCPatienceOf
    Thresholds <- MCThresholds
    MaxLevel = 2
    MaxWraps = 2
    MaxNow = 2
    MaxDay = 1
    MaxOrders = 3
PROPERTIES ExpiredBeforeCooking
CHECK_DEADLOCK FALSE
