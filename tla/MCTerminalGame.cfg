SPECIFICATION Spec
CONSTANTS
    tomato = tomato
    oil = oil
    salad = salad
    chips = chips
    premium = premium
    Never = Never
    Ids <- MCIds
    Required <- MCRequired
    OpeningStock <- MCOpeningStock
    ShelfLife <- MCShelfLife
    Cost <- MCCost
    Recipes <- MCRecipes
    Ingredients <- MCIngredients
    Skill <- MCSkill
    RecipeId <- MCRecipeId
    Name <- MCName
    Lower <- MCName
    Seeded <- MCRecipes
    Variations <- MCVariations
    Price <- MCPrice
    CookScore <- MCCookScore
    PatienceOf <- MCPatienceOf
    Thresholds <- MCThresholds
    MaxLevel = 3
    MaxWraps = 1
    MaxNow = 3
    MaxDay = 1
    MaxOrders = 4
INVARIANTS TypeOK StockCovered OnlyExpiryCrashes NeverInDebt MenuIsQuiet
PROPERTIES ImplementsCareer
CHECK_DEADLOCK FALSE
