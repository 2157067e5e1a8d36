------------------------------ MODULE GameManager ------------------------------
(***************************************************************************)
(* What the terminal game and the Swing game share: GameManager (the wiring    *)
(* of the services and the player's level), CustomerOrderFactory, checkLevelUp,  *)
(* which both games define alike, and the iterator of the loop in which both     *)
(* show the stock alerts.  The kitchen is that of module OrderService, the       *)
(* recipe book that of RecipeBook.                                               *)
(***************************************************************************)
EXTENDS Integers, Sequences, FiniteSets, RecipeBook

CONSTANTS
    Ids, Required, Never, OpeningStock, ShelfLife,  \* as in OrderService
    Cost,             \* price of one portion of each ingredient
    Seeded,           \* the recipes of seedRecipes
    Variations,       \* the decorations the player may ask for
    Price, CookScore, \* of each dish, as in OrderService
    PatienceOf,       \* the patience createForRecipe may give an order for a dish
    MaxLevel,         \* the highest skill level
    Thresholds,       \* XP_THRESHOLDS, from index 1 on
    MaxWraps, MaxNow, MaxDay, MaxOrders  \* bounds

\* A recipe wrapped in decorators, the innermost first.
Dishes == Recipes \X UNION {[1 .. n -> Variations] : n \in 0 .. MaxWraps}

ASSUME GameRequired == Required \in [Ids -> Nat \ {0}]
ASSUME GameStock == /\ OpeningStock \in [Ids -> Nat]
                    /\ ShelfLife \in [Ids -> Nat \cup {Never}]
                    /\ Never \notin Nat
ASSUME GameCost == Cost \in [Ids -> Nat \ {0}]
ASSUME GameLevels == /\ MaxLevel \in Nat \ {0}
                     /\ Thresholds \in [1 .. MaxLevel - 1 -> Nat \ {0}]
                     /\ \A j, k \in 1 .. MaxLevel - 1 : j < k => Thresholds[j] < Thresholds[k]
ASSUME GameRecipes == /\ Ingredients \in [Recipes -> Seq(Ids)]
                      /\ Skill \in [Recipes -> 1 .. MaxLevel]
                      /\ Price \in [Dishes -> Nat \ {0}]
                      /\ CookScore \in [Dishes \X (1 .. MaxLevel) -> 0 .. 100]
                      /\ PatienceOf \in [Dishes -> SUBSET (Nat \ {0})]
\* What GameManager seeds: recipes of different ids and names that list no ingredient
\* twice, and two portions at least of whatever they list.
ASSUME GameSeeds ==
    \A r \in Seeded :
        /\ \A k \in DOMAIN Ingredients[r] :
               OpeningStock[Ingredients[r][k]] >= 2 * Required[Ingredients[r][k]]
        /\ \A j, k \in DOMAIN Ingredients[r] :
               Ingredients[r][j] = Ingredients[r][k] => j = k
ASSUME GameBook == /\ Seeded \subseteq Recipes
                   /\ \A q, r \in Seeded :
                          RecipeId[q] = RecipeId[r] \/ EqualsIgnoreCase(q, r) => q = r
ASSUME GameBounds == MaxWraps \in Nat /\ MaxNow \in Nat /\ MaxDay \in Nat /\ MaxOrders \in Nat

VARIABLES
    stored, quantity, expiry, alerts, today, basket, at,   \* Inventory
    now, orders, queue, current, completedOrders, totalEarnings, earnedPerOrder,
    totalOrders, totalSatisfaction, satisfactionScores,    \* OrderService
    playerSkillLevel,  \* GameManager.playerSkillLevel
    ordersCompleted,   \* the count of orders each game keeps
    cursor,            \* the iterator over the list of alerts: how many it gave,
    expected           \* and the size it expects the list to have

\* A game buys one portion at a time, or ten.
Portions == {1, 10}

\* A bound of the kitchen that no instance of a game comes near.
Plenty == 100000

Kitchen == INSTANCE OrderService WITH
               Contents <- [d \in Dishes |-> Ingredients[d[1]]],
               Levels <- 1 .. MaxLevel,
               Patiences <- UNION {PatienceOf[d] : d \in Dishes},
               Amounts <- {n * Required[i] : n \in Portions, i \in Ids},
               Expenses <- {n * Cost[i] : n \in Portions, i \in Ids},
               MaxQuantity <- Plenty, MaxAlerts <- Plenty, MaxDebt <- Plenty

kitchenVars == <<stored, quantity, expiry, alerts, today, basket, at,
                 now, orders, queue, current, completedOrders, totalEarnings,
                 earnedPerOrder, totalOrders, totalSatisfaction, satisfactionScores>>
progress == <<recipes, playerSkillLevel, ordersCompleted>>
iterator == <<cursor, expected>>

\* new GameManager(level), seeded
StartAt(level) == /\ Kitchen!Init
                  /\ recipes = Seeded
                  /\ playerSkillLevel = level
                  /\ ordersCompleted = 0
                  /\ cursor = 0 /\ expected = 0

NewGame == StartAt(1)

GameTypeOK == /\ Kitchen!TypeOK
              /\ recipes \subseteq Recipes
              /\ playerSkillLevel \in 1 .. MaxLevel
              /\ ordersCompleted \in Nat
              /\ cursor \in Nat
              /\ expected \in Nat

--------------------------------------------------------------------------------
(* RecipeService, CustomerOrderFactory *)

Available == FindByMaxSkillLevel(playerSkillLevel)

\* createForRecipe: a new order, created at the moment of the call.
NewOrders(dish) == [dish : {dish}, created : {now}, patience : PatienceOf[dish]]

Tickets == [dish : Dishes, created : Nat, patience : Nat \ {0}]

Plain(r) == <<r, <<>>>>

\* getAverageSatisfaction
AverageSatisfaction == IF totalOrders = 0 THEN 0 ELSE totalSatisfaction \div totalOrders

--------------------------------------------------------------------------------
(* checkLevelUp and GameManager.levelUp *)

\* Slip: one more order than the threshold is asked for.
LevelAfterOneMore(n) ==
    IF playerSkillLevel < MaxLevel /\ n > Thresholds[playerSkillLevel]
    THEN playerSkillLevel + 1 ELSE playerSkillLevel

LevelAfter(n) ==
    IF playerSkillLevel < MaxLevel /\ n >= Thresholds[playerSkillLevel]
    THEN playerSkillLevel + 1 ELSE playerSkillLevel

\* The level that n orders entitle to.
LevelFor(n) == 1 + Cardinality({k \in DOMAIN Thresholds : Thresholds[k] <= n})

--------------------------------------------------------------------------------
(* The iterator of the loop over StockAlertObserver.alerts.  The loop goes on until *)
(* it has given as many elements as the list has, and fails if the list has another *)
(* size by then than it had when the loop began.                                    *)

BeginAlerts == cursor' = 0 /\ expected' = Len(alerts)

HasNext == cursor # Len(alerts)

ListGrew == Len(alerts) # expected

Alerted == alerts[cursor + 1]

NextAlert == cursor' = cursor + 1 /\ UNCHANGED expected

================================================================================
