# Recipe Realm in TLA+

Recipe Realm is a single-player cooking game in Java (`src/main/java/recipeRealm`, about 2300 lines
without its test suite), with a terminal and a Swing front end over the same services. A customer
asks for a dish, the player may add a variation, cooks it or lets the customer go; the dish takes
ingredients out of the pantry, is scored by a cooking method and the player's skill, and is paid
for; low or spoiled stock raises alerts that the player answers by buying more or by taking recipes
off the menu; orders earn skill levels.

This directory holds TLA+ modules of that program, TLC configurations that check them on small
instances, and proofs for every value of the constants. Paths below are relative to
`src/main/java/recipeRealm`.

## 1. The system

| part | state | operations that change it | what makes it correct |
|---|---|---|---|
| `InventoryRepository`, `Ingredient`, `InventoryService` | map id → ingredient; per ingredient quantity and expiry date | add (`save`), `restockIngredient`, `purgeExpiredIngredients`, `consumeIngredients` | nothing is taken that is not there; a call takes a prefix of its list; no shortage is silent |
| `StockAlertObserver` | list of alerts | `onLowStock`, `onStockExpired`, `clearAlerts` | one entry for each crossing the player must hear of |
| `OrderService`, `CustomerOrder` | queue, list of completed orders; per order status, satisfaction | `enqueueOrder`, `processNextOrder`, `complete` | first come first served; one fate per order; status and lists agree |
| `KitchenEventPublisher`, `OrderFulfillmentObserver`, `SatisfactionObserver` | observers; earnings (sum and list); satisfaction (sum, count, list) | `notifyDishCompleted`, `spend` | the three lists are about the same orders; paid exactly if completed |
| `cooking/*`, `decorator/*`, recipe categories | none (pure) | – | scores are percentages, monotone in skill; a qualified player succeeds; a variation pays |
| `RecipeService`, `InMemoryRecipeRepository` | map of recipes | `addRecipe`, `removeRecipe`, `removeRecipeWithIngredient` | what is offered can be cooked |
| `GameManager` | skill level, wiring | `levelUp`, `processNextOrder`, `submitRandomOrder`, `spendFunds` | level between 1 and 10; observers in the right order |
| `TerminalGame` | order count, the order at hand, position in a blocking dialogue | `run`, `handleTakeOrder` | no crash but for spoiled food; no debt; every dialogue ends |
| `SwingGame` | order count, pending order, toggle buttons, status bar | button handlers | one decoration and one payment per order; buttons and figures fit the game |
| factories, `Main` | none | – | – |

How the parts interact: the front ends call services and `GameManager`; `OrderService` calls
`InventoryRepository.consumeIngredients`, which may throw and which calls back the alert observer;
then the recipe's strategy; then the publisher, whose first observer completes the order and whose
second reads the result. There is one thread. What makes the behaviour hard all the same:

- **Time.** `LocalDate.now()` is read up to three times per ingredient of one call and
  `Instant.now()` up to three times per order; the answers may differ. In the terminal game the
  clock also runs at every blocking prompt.
- **Failure half-way.** `consumeIngredients` throws in three places, after it may have taken other
  ingredients, and nothing is rolled back; its caller has by then polled the order.
- **Live lists.** The alert loops of both games iterate over the observer's own list while a
  purchase inside the loop may append to it.
- **Hidden protocols.** `processNextOrder` never asks `hasAllIngredients`; that there is enough
  stock for every recipe still on offer is an invariant of the alert dialogue. The satisfaction
  statistics rely on the order of two registrations in `GameManager`.

`PROJECT.json` lists each of these hazards at its line, with the properties that would catch it.

## 2. The modules

| module | models | uses |
|---|---|---|
| `Inventory` | pantry and alerts | |
| `StockAudit` | `Inventory` with history variables, for what a whole call does | extends `Inventory` |
| `Cooking` | scores, prices, payment, decorators | |
| `OrderLifecycle` | abstract: what the kitchen promises about orders | |
| `OrderService` | kitchen: orders, queue, observers, clock | instance of `Inventory`; implements `OrderLifecycle` |
| `KitchenEventPublisher` | the list of kitchen observers, with history variables | |
| `RecipeBook` | recipes added, removed and looked up | |
| `GameManager` | what both games share: menu, level, order factory, alert iterator | extends `RecipeBook`; instance of `OrderService` |
| `GameSession` | `GameManager` driven through its public methods, without a user interface | extends `GameManager` |
| `ChefCareer` | abstract: what the terminal game promises its player | |
| `TerminalGame` | the terminal game with all its prompts | extends `GameManager`; implements `ChefCareer` |
| `SwingGame` | the button handlers of the Swing game | extends `GameManager` |
| `MC...` | constants for TLC | |
| `...Proofs` | theorems: `Inventory` (with `StockAudit`), `Cooking`, `OrderService`, `GameManager` (with `RecipeBook`), `TerminalGame`, `SwingGame`, `GameSession`, `KitchenEventPublisher` | extend the module of that name |

**Inventory.** `stored` is the key set of `InventoryRepository.store`, `quantity` and `expiry` are
the fields of the ingredient objects, `alerts` is the observer's list, `today` is the calendar. `at`
and `basket` are the program counter of `consumeIngredients` and what is left of its argument:
`BeginConsume` calls it; each round is `FoundFresh`/`MissingThrows`/`ExpiredThrows` (lines 49-54),
then `Take`/`UnavailableThrows` (`Ingredient.consume`), then `Warn` (`checkThresholds`), with
`Midnight` possible between any two; `ReturnToCaller` ends it. The other operations are one action
each and run only when no call is under way, since there is one thread. Calls that throw and change
nothing (restocking an unknown id or by nothing) are disabled actions.

**StockAudit** adds `list` and `before` (argument of, and quantities before, the last call),
`assured` (what `hasAllIngredients` would have said of that list at that moment) and `excused`: the
ingredients whose shortage nobody owes an alert for, because they were saved that way (`save` checks
no threshold) or because the player dismissed the alert (`clearAlerts`).

**Cooking** is the arithmetic. The state machine wraps a dish in decorators, one at a time as
`SwingGame.applyDecoration` does, and raises the level. Doubles are replaced by exact integers:
prices in units of 1/160 dollar, scores as what the cast to `int` yields for the ten possible skill
gaps (for gap 7 both baking and frying lose a point to binary rounding, 64 instead of 65 and 43
instead of 44, and the definitions say so).

**OrderService.** `orders` holds every order ever enqueued, `queue` and `completedOrders` hold their
numbers, `current` is the local variable `order` of `processNextOrder`, and the six books are the
observers' fields. `processNextOrder` is `CloseOverdue` (overdue when polled), or `TakeUp` (lines
34-48), then `Consume` steps of the pantry, then `StrandOrder` (the exception leaves the method),
`ServeTooLate` or `ServeInTime` (lines 50-55 with `complete` and both observers). An order is
created before it is enqueued, so its creation time is any earlier moment. `ServeInTime` reads the
clock a second time, as `complete` does. Satisfaction is the exact integer of the formula; where the
product of doubles in the code lands just under a whole number its cast is one less, which no
property here tells apart.

**OrderLifecycle** knows only a fate per order and the till: orders are taken up in turn and one at
a time, each has one final fate, money comes in only when an order is completed. `OrderService`
implements it with `fate` computed from status and `current` (IN_PROGRESS and not current is "lost")
and `till` the earnings.

**KitchenEventPublisher** is the list itself, with registration (null and repetitions are ignored),
removal of the first equal entry, and notification in list order. `heard` is what the observers got
to know; `since` and `owed` are history: since which call an observer is subscribed, and the dishes
completed while it was. What the program's two observers do when notified is in `OrderService`.

**RecipeBook.** `recipes` is the set of recipes in the map (`InMemoryRecipeRepository.store`, one
for each id); `With` is `save`, which puts a recipe in the place of the one with its id, `Without`
is `delete`. A decorated recipe has the id of the one it wraps (`RecipeDecorator.getId`). `Lower`
gives names in lower case, so that `EqualsIgnoreCase` is the comparison in `addRecipe`. A rejected
duplicate changes nothing, whether the exception is ignored (`GameManager.tryAdd`) or not.

**GameManager.** `progress` is recipes, level, and the order count each game keeps. A dish of the
kitchen is a recipe with the sequence of variations around it. `cursor` and `expected` are the state
of the iterator of the alert loop: the number of elements it has given and the size the list had
when it was made, which is what `ConcurrentModificationException` is about: as in the library, the
loop ends when `cursor` equals the size and throws when the list grew. `GameSeeds` is what
`seedIngredients` and `seedRecipes` guarantee: two portions or more of whatever a recipe lists. The
seeded recipes (`Seeded`) are those of the book at the start; a session may add others.

**GameSession** has one action per public method and no screens: `SubmitRandomOrder`,
`ProcessNextOrder` (the steps of the kitchen, with the player's level of that moment), `LevelUp`,
`TendPantry` (restock, purge and clear alerts), `TendBook`. Unlike in the two games, several orders
may wait, and level, pantry and book may change while they do. This is how the test suite drives the
program.

**ChefCareer** leaves kitchen, pantry and recipe book out: guests come one at a time and are turned
away or accepted; an accepted order lapses or is served; bills are paid with money there is; a
served order counts once, when its business is settled, and the level is then the one so many orders
entitle to; spoiled food may close the place. It also says that an accepted order ends
(`OrdersSettle`). `TerminalGame` implements it with `phase` computed from `screen`, `purse` the
earnings, `served` the count and `level` the skill level.

**TerminalGame.** `screen` is where `handleTakeOrder` waits or works: `menu`, `variation` (line
194), `confirm` (138), `cooking` (148), `alerts` (162), `buying` (between 169 and 170), and `over`
or `crashed`; `ticket` is the order at hand, not enqueued yet.

**SwingGame.** `screen` is where the event thread is: `window` (free), `cooking` (line 241),
`alerts` (437, with the modal dialogue open), `buying` (between 449 and 450), `closed`.
`pendingOrder` is the field of that name and `number` the place of the same object among the
kitchen's orders, 0 until it is enqueued. An exception ends a handler, not the program:
`CookingThrows` and `IterationThrows` go back to `window` with `pendingOrder` set and the buttons
enabled, and the next `HandleCook` decorates and enqueues *the same* `CustomerOrder`
(`EnqueueAgain`): its creation time stays, its decorations pile up, and its status starts over.
`HandleNewOrder` drops a pending order, as the code does. The toggle buttons carry no state of their
own: the player sets any of them before pressing Cook, so `ApplyDecoration` allows every subset,
applied in the order of the buttons. `shown` is what the labels of the status bar said when
`updateStatusBar` last ran (`UpdateStatusBar`). Unlike the terminal game's, a purchase here is ten
portions and asks for no funds.

Definitions whose comment starts with **Slip** are not part of any specification: each is a
plausible mistake in the definition that follows it (a dropped reset, a missing clamp, a swapped
order). Substituting one must break the property that `PROJECT.json` names for it; that is how each
property is known to depend on the code.

## 3. What is checked

| run | instance | checks | distinct states |
|---|---|---|---|
| `inventory` | 2 ingredients (portions 2 and 1), lists `<<tomato, oil>>`, `<<tomato, tomato>>`, `<<>>`, one midnight, stock up to 5, 2 alerts | `TypeOK`, `NeverOverdrawn`, `ConsumeEnds` | 9 137 |
| `stock_audit` | same | `CallTakesAPrefix`, `CheckedCallsSucceed`, `ShortageWarned` | 623 902 |
| `low_or_bad` | same | `KnowsOfLowOrBad`, violated | |
| `cooking` | 4 methods, 10 skills, cheapest and dearest of 3 categories, 3 decorators in any order, 10 levels | `TypeOK`, `ScoreIsPercentage`, `QualifiedSucceeds`, `PracticePays`, `VariationPays` | 149 920 |
| `order_service` | 2 orders of 2 dishes, patience 2 s, clock to 3, one midnight, one restock size, one expense | `TypeOK`, `StatusAgrees`, `FirstComeFirstServed`, `LedgersAligned`, `SatisfactionFitsOutcome`, `ImplementsLifecycle`, `OrdersEnd` | 580 351 |
| `terminal_game` | 4 orders of 2 recipes with 1 variation, 3 levels, clock to 3, one midnight | `TypeOK`, `StockCovered`, `OnlyExpiryCrashes`, `NeverInDebt`, `MenuIsQuiet`, `ImplementsCareer` | 361 626 |
| `recipes_will_come` | same, 3 orders, a player who plays on | `RecipesWillCome`, violated | |
| `swing_game` | 2 recipes (skill 1 and 2), 2 toggles and up to 2 decorators, 3 results, patience 1, clock to 2, one midnight | `TypeOK`, `ButtonsFitOrder`, `CooksItsOwnOrder`, `OnlyExpiryThrows`, `ServedOnceIfFresh`, `LevelMatchesOrders`, `StatusBarCurrent`, `DebtIsBounded`, `CookEnds` | 693 233 |
| `expired_before_cooking` | same | `ExpiredBeforeCooking`, violated | |
| `satisfaction_shown` | same | `SatisfactionShown`, violated | |
| `publisher` | 3 observers, 4 registrations, any removals, 3 dishes | `HearsEachDishOnce`, `NotifiedInTurn` | 15 490 |
| `game_session` | 2 orders in the queue, 2 levels with the scores of `Cooking`, 2 seeded recipes, one more with a name that differs in capitals and a decorated one, patience 1, clock to 2, one midnight | `NothingRuined`, `NamesUnique`, `QueueDrains` | 591 340 |

**Bounds.** One midnight is enough to fall at each of the three readings, and an ingredient is fresh
or expired for good on either side of it. Portions of 2 and 1 with stock up to 5 include less than
one portion, exactly one, exactly two and more. A list that repeats an ingredient makes a call run
out half-way of what it began with. Two orders are the fewest that can overtake each other; patience
2 with a clock to 3 makes an order overdue when polled, overdue when served, and served with all,
half or none of its patience left, including the second reading that comes one second later. Scores
49, 50 and 100 straddle success. Tomato 3 and oil 2 let two orders of chips succeed and leave a
second salad with less than a portion of tomato, unless it is restocked, so that an order can end by
`MissingThrows`. Four orders in the terminal game pass the thresholds of levels 2 and 3, run each
ingredient down to its alert and leave an order after it; the decorated dish has patience 1 or 2, so
that a new order may be more or less patient than the first. In the Swing game three results let one
order be served, left pending by an exception, cooked again, decorated once more, and closed as
overdue (patience 1, clock to 2) with a result to spare; three are also the fewest that can empty a
shelf of two portions. Two decorators are both toggles at once, or one toggle applied a second time.
In `game_session` chicken is gone bad after midnight, so that the order at the head of the queue can
throw with another one behind it, and a grilled dish one level above the player is ruined; the
decorated recipe, added to the book, takes the place of the plain one that an order waits for, and
asks for a level more.
`MaxAlerts`, `MaxQuantity` and `MaxDebt` restrict only when the environment starts an operation,
never a step inside one; `MaxOrders` and `MaxNow` likewise; in `SwingGame`, `MaxOrders` bounds
orders, results and leftover alerts each when Cook is pressed. Deadlock is checked wherever the
system cannot stop; the counter of `Cooking` stops at its bounds, the terminal game when it is quit
or crashes, the Swing game when its window is closed, a `GameSession` when its bounds are used up.

**Fairness.** `WF(Processing)`, `WF(ConsumeStep)`, `WF(Handler)`: a method of the single thread that
waits for nothing runs on. `WF(AnswerAlert)`: the alert prompts cannot be left open, and the
property is that a dialogue whose questions are answered ends; in the Swing game the dialogue is
modal, so that nothing else can be done meanwhile. `WF(ProcessNextOrder)` in `GameSession`: the
caller goes on processing orders, as every test does; it is what makes `QueueDrains` a statement
about the queue and not about the caller. No fairness is assumed of the player otherwise, nor of the
clock, except in `EagerSpec`, used only for `recipes_will_come`: there the player accepts and cooks
whatever order there is, since a player who stops playing refutes nothing.

**The four violations** are disagreements between the code and what it says of itself.

- `KnowsOfLowOrBad`: the README says observers hear of anything low or going bad
  (`src/README.md:42`); `checkThresholds` runs only for what is being consumed or restocked, so
  stock that spoils on the shelf is announced when a recipe fails on it.
- `RecipesWillCome`: "No recipes available at your skill level yet." (`TerminalGame.java:112`);
  removal is permanent and only orders earn levels, so once the message appears it appears for ever.
- `ExpiredBeforeCooking`: "The order expired before cooking!" (`ui/SwingGame.java:243`) may be said
  of an order that was cooked. Restocking an ingredient that has expired appends to the list the
  alert loop iterates over; the exception leaves `handleCook` before `pendingOrder` is reset, so a
  served and counted order can be cooked once more, or be closed a second time as expired.
- `SatisfactionShown`: "Satisfaction: …%" (`ui/SwingGame.java:388`) is out of date after an order
  that was overdue when Cook was pressed: it counts with 0, but the handler returns without
  `updateStatusBar` (line 246).

Four smaller ones are plain from the code and have no run: `addRecipe` compares names and `save`
puts by id, so that a decorated recipe ("Premium ...", with the id of the plain one) is not rejected
but silently replaces the plain one (`RecipeService.java:21`, `InMemoryRecipeRepository.java:15`;
neither game stores a decorated recipe); `TerminalGame.java:345` prints "Orders completed" for all
orders with a result, FAILED and EXPIRED ones included (line 179); the patience announced at line
127 is that of an order which is replaced when the player chooses a variation (line 132); and
"Result: SUCCESS" (line 211) is about the dish, though the order may have EXPIRED while it was
cooked.

**What the passing runs show of the terminal game**, which no test exercises: it can crash, by an
exception of `consumeIngredients` or by `ConcurrentModificationException` in the alert loop, but
only after something in the pantry has expired (`OnlyExpiryCrashes`); want of stock never reaches
the cooking (`StockCovered`), because the alert dialogue either buys back to two portions or takes
every recipe with that ingredient off the menu. That argument needs the threshold to be exactly two
portions: one too low and `StockCovered` fails, one too high and the restock itself crashes the
loop. Seen from outside the game is `ChefCareer` (`ImplementsCareer`). Its steps are put together
from those of `OrderService`, so that what is proved of the kitchen holds in the game too
(`KitchenKeepsItsPromises`, section 4).

**And of the Swing game**: every failure of a handler has spoiled food behind it
(`OnlyExpiryThrows`), and until then each order is served and decorated at most once
(`ServedOnceIfFresh`). After it the window is still consistent: Cook and Skip are enabled exactly if
there is an order (`ButtonsFitOrder`), an order left behind by an exception is never cooked in place
of the one the player sees, and the satisfaction displayed, which is simply the last in the list, is
that of this order (`CooksItsOwnOrder`). Level, count and earnings in the status bar are those of
the game whenever a button can be pressed (`StatusBarCurrent`). The balance can become negative, as
"Buy More" does not look at it, but not by much: what is bought lasts for ten orders
(`DebtIsBounded`, of which the run reaches the first purchases only, and which is proved for any
number of them, section 5).

**And of the services by themselves**: orders waiting behind one that throws are processed all the
same (`QueueDrains`), and no order becomes harder than the player can cook, though the recipes are
filtered when it is submitted and the level is read when it is cooked (`NothingRuined`). Whoever
asks `hasAllIngredients` first gets an exception only when something spoils meanwhile
(`CheckedCallsSucceed`), provided that the recipe lists no ingredient twice, which no recipe of the
program does; neither game asks.

## 4. What is proved

All theorems hold for every value of the constants that satisfies the named assumptions. They cover
every safety property of the passing runs, and of each liveness property the part that needs no
fairness: a measure that every step of the program lowers. `InventoryProofs` also proves about
`StockAudit`, and `GameManagerProofs` holds what the modules that extend `GameManager` share, and
what is proved of `RecipeBook`.

**Inventory** (`InventoryProofs`). `TypeOK` is inductive and gives `TypeCorrect`.
`StockNeverOverdrawn` needs little more: only `Take` lowers a quantity, and it is guarded by the
check of `isAvailable` and of `Ingredient.consume` made on the same, unchanged quantity.
`CallsRunDown` is what `ConsumeEnds` rests on: `StepsLeft`, three for each entry of the list still
to take and one for the return, is a natural number, is 0 exactly between calls, and is lowered by
every step of a call but `Midnight`, which leaves it alone. Uses `RequiredAssumption` (a portion is
a positive number), `OpeningAssumption` and `AmountsAssumption`.

**StockAudit** (`InventoryProofs`). `CallsTakePrefixes`: `CallTakesAPrefix` speaks of a call that
has ended, so the invariant has to say what is true inside the loop. `LoopInv` says that `list` is
the part already worked off followed by `basket`, that `entry` is the place where `basket` begins,
and that every quantity is `before` less one portion for each occurrence in that first part; the
rest is the arithmetic of counting in a list that grows by one. Of a call that threw the property
asks for all but the entry it failed at, neither less (something put back) nor more (a part of that
portion), and that this entry could not be had; `entry` counts the rounds by itself, so that it is
not a matter of choosing a prefix that fits. `ShortagesWarned`: `ShortageWarned` speaks of the time
between calls, when every shortage must be in `alerts`. `WarningInv` extends it to the middle of a
round, where it exempts the one ingredient that has been taken and whose threshold has not been
looked at yet. `excused` makes it true across `save` and `clearAlerts`, which check no threshold.
`AssuredCallsSucceed`: as long as the list has no repetitions, what the loop has taken so far says
nothing about the entry it comes to, whose stock is still that of before the call (`FirstPortion`);
so the only way to fail is by the calendar (`AssuredInv`).

**Cooking** (`CookingProofs`). `TypeCorrect` is the closure of dishes under any stack of decorators
(`DecoratorsMakeDishes`); `ScoresArePercentages` and `QualifiedPlayersSucceed` follow from bounds of
the score of each method (`ScoreBounds`) and `LevellingUpPays` from its monotonicity in skill
(`ScoreMonotone`), all of it case analysis over the ten gaps and linear arithmetic. `VariationsPay`
weighs the two effects of the premium decorator: it costs the player a fifth of the score at most,
and raises the price by half (`PremiumMakesUp`). The rounding of `3 * price \div 2` would spoil this
for a price of 1, so the invariant keeps the price at or above that of the cheapest appetizer
(`DecentPrice`). Assumed of the base dishes is that they are dishes (`BaseDishesAssumption`) and
that none is cheaper than that (`PricesAssumption`), which the prices of the three categories imply.

**RecipeBook** (`GameManagerProofs`). `NamesStayUnique`: `NamesUnique` is inductive by itself, since
only `AddRecipe` puts a recipe into the book and `Duplicate` compares with all that are there, the
one it may replace included. Nothing is assumed of ids, names, ingredients or skills.

**OrderService** (`OrderServiceProofs`). The proofs about orders leave the pantry aside: `Kinds`
sorts the steps of `Operation` (which is `Next` without the bounds of the runs) by what they do to
orders (arrival, lapse, start, strand, serve, spending, quiet), so the results hold whatever the
stock, the expiry dates and the clock do. Neither `StatusAgrees` nor `FirstComeFirstServed` is
inductive: that closing the current order appends the largest number to `completedOrders` needs that
everything which came after it still waits (`LaterWait`), and that it is not in the list already
needs the agreement of status and list. `OrderInv`, the conjunction of these with the types of the
order variables (`OrderTypes`), is inductive (`OrderInvStep`). `LedgersAligned` is inductive
relative to it, as appending to the lists must not touch an order already in them.
`SatisfactionFits` needs, besides the arithmetic of the formula of `complete` (a quotient of two
variables, through which the solver must be led), that no order was created later than now, so that
the time a customer has waited is never negative (`FitInv`). The refinement
`KitchenImplementsLifecycle` shows that each kind of step changes the fate of at most one order, the
one the abstract action names: a lapse skips the fate "cooking" because an order overdue when polled
is closed without being taken up; a strand turns "cooking" into "lost" by changing `current` alone.
`TypeCorrect` and `StockNeverOverdrawn` take the pantry's part over from `InventoryProofs`, by an
instance with the same variables: the kitchen does to the pantry what `Inventory` allows, or ends a
call by an exception, which changes none of the stock. `OrdersRunDown` does the same with
`StepsLeft`: while an order is the current one only its own processing and the clock go on, the
pantry is at work (`AtWork`), and every step of `consumeIngredients` leaves fewer to come before the
order is closed or stranded. Uses `KitchenDishes` (prices are positive), `KitchenPatience`,
`KitchenExpenses` (an expense is positive, so that spending is not mistaken for earning).

**GameManager** (`GameManagerProofs`). A game runs its kitchen without the bounds under which the
kitchen is checked alone, which is why the lemmas of `OrderServiceProofs` speak of `Operation`. The
instance `KitchenFacts` and `KitchenConstants` (the assumptions about games imply those about
kitchens) carry the lemmas over, so that a game only has to show that its steps are operations of
the kitchen. The lemmas on stock are the heart of both games: `Settled` says of an ingredient that
there is one portion, and two portions unless the player is still going to be asked about it;
`Provided` says so of everything that a recipe of the book lists, and `Supplied` of what a running
`consumeIngredients` has still to take. `Consuming` shows that cooking keeps both and that only
spoiled food makes it throw; buying two portions or more and taking all recipes with the ingredient
off the menu, the two answers the dialogue accepts, settle the ingredient for good. `LevelAfter` is
what the order count entitles to since the thresholds increase (`GameLevels`). `LifecycleKept` is
the refinement of `OrderLifecycle`, ready for the games to cite. The measures of both games are put
together here: `CookingSteps` counts three for each step of `consumeIngredients`, since a round may
add an alert, and `AlertSteps` two for each alert, since a purchase is two steps, or one if the list
has grown, since then the loop fails.

**TerminalGame** (`TerminalGameProofs`). None of the properties is inductive: what holds at the menu
depends on what the dialogue still owes at each prompt. `GameInv` says which parts of the kitchen
are in use on which screen (`Flow`), that the order at hand can be ordered (`TicketInv`), that the
stock is `Supplied` and `Provided`, given the alerts already answered (`StockInv`), and that every
way to fail has spoiled food behind it (`SpoilInv`). It gives `MenuStaysCovered`, `MenuStaysQuiet`,
`CrashesOnlyWhenSpoiled`, `DebtFree` and `TypeCorrect`. Its steps being those of the kitchen (the
lemma `GameOperates`), `KitchenKeepsItsPromises` is what was proved of the kitchen, as is
`TerminalKeepsLifecycle`: the game's kitchen implements `OrderLifecycle`. `CareerIsKept` is the
safety part of `ImplementsCareer`, action by action; `OrdersRunDown` is what its `OrdersSettle`
rests on: once an order is accepted, every step of the program and every answer to an alert lowers
`StepsLeft`, which is 0 exactly where the player is free or the program has ended. Assumes
`TerminalWraps` (there is room for the one variation the game offers) besides the assumptions of
`GameManager`, of which `GameSeeds` (two portions of what the seeded recipes list, no ingredient
listed twice) is the one on which the stock argument stands.

**SwingGame** (`SwingGameProofs`). Here failure is survived, so the invariant has two parts. `Flow`,
`PendingInv`, `FiguresInv` and `BookInv` hold whatever happens, and give `ButtonsAlwaysFit`,
`OwnOrderCooked`, `LevelKept` and `TypeCorrect`: in particular the last entries of the kitchen's
lists are about the order of the handler as long as the dialogue is open (`OwnIsLast`). `FreshStock`
and `FreshOrders` hold as long as nothing has spoiled (`Spoiled \/ Fresh`), and give
`ThrowsOnlyWhenSpoiled`, `ServedOnce`, the earnings of `BarIsCurrent`, and `KitchenKeepsItsPromises`
with the same proviso: after an exception the game enqueues an order that was enqueued before, which
is no operation of `OrderService`, and the promises may fail; `SwingKeepsLifecycle` says so of
`OrderLifecycle`. `FreshOrders` must say that a pending order has no decorations and no number yet,
since it is the reset of `pendingOrder` at the end of every handler that makes an order served once.
`Settings`, the ways of setting the toggles, is used with `TogglesAssumption` (no toggle twice).
`HandlersRunDown` is what `CookEnds` rests on: from the moment Cook is pressed, spoiled food or not,
every step of the handler and every answer lowers `StepsLeft`, which is 0 exactly where a button can
be pressed again. It needs that what has been paid for is restocked from a list that has not grown
(`BuysFromWhole`), as else one restock could make the loop longer.

`DebtStaysBounded` needs an account of what was spent: an inductive invariant cannot speak of the
purchases, which leave no trace but the stock and the balance. `DebtInv` says that there is a
function `b`, how often each ingredient was paid for, such that the balance is not below minus what
these purchases cost (`Afforded`), none was paid for more than once for every ten orders begun
(`Rare`), and the shelf still holds the portions that the purchases have left (`Lasting`). An order
takes one portion of each ingredient at most, and one alert is enough to be asked once
(`AlertsInv`), so that an ingredient runs low for the next time only when its ten portions are used
up, and the purchases cost no more than the bound says (`RareEnough`). The sum of what one purchase
of everything costs is counted dollar by dollar (`Dollars`, `SumOfCosts`), since how the cardinality
of a set grows can be proved, and how a sum over a set does cannot. It assumes that the inventory is
finite (`IdsAssumption`).

**GameSession** (`GameSessionProofs`). `NothingIsRuined`: the recipes are filtered when an order is
submitted, and the level is read when it is cooked. `Feasible` bridges the two: every order is for a
recipe of the book as it was then, which the player has by now the skill for, and the level only
rises; that another recipe may have taken its place in the book does not concern the order. It
assumes `SessionScores`, which is what `QualifiedPlayersSucceed` proves of the program's strategies.
`SessionKeepsPromises` carries the kitchen's theorems over to several orders waiting while pantry
and book are tended, `SessionKeepsLifecycle` the refinement of `OrderLifecycle`, `BookStaysTidy`
what is proved of the recipe book. `QueueMovesUp` is what `QueueDrains` rests on: every step of
`processNextOrder` takes the first order out of the queue, so that the others move up by one place,
or brings the running call nearer to its end; nothing else that is done in a session moves an order
or makes that call longer.

**KitchenEventPublisher** (`KitchenEventPublisherProofs`). `PublisherInv` adds to the properties
that the list holds exactly the subscribed, in the strict order of their subscription (`Subscribed`,
`InOrder`); that nobody is in it twice, so that a notification reaches each once, follows from the
order being strict. Removal takes the first equal entry out, which is the only one (`Leaving`); a
removed observer that registers again goes to the end, and its old place is forgotten.

Not proved, only model-checked:

- liveness itself (`ConsumeEnds`, `OrdersEnd`, `CookEnds`, `QueueDrains`, and `OrdersSettle` in
  `ImplementsCareer`): that a step is possible as long as the measure is not 0, and therefore taken,
  needs `ENABLED` and fairness, both out of the prover's reach;
- what the four violation runs refute.

## 5. What is not modelled, and the plan

Left out for good:

- printing, labels (but for the status bar) and layout, feedback texts, star rating and cooking
  times, the viewing screens, `Main`, the randomness of choices (any choice is possible);
- the end of standard input at a prompt of the terminal game, which ends it by an exception as
  closing the terminal would;
- `InventoryRepository.removeObserver`, the setters of `Ingredient` and
  `CustomerOrderFactory.createImpatient`: nothing in the program calls them, and they would add a
  value or a no-op;
- `InMemoryRecipeRepository.update`, which compares no names: `RecipeService` does not call it and
  the game does not hand its repository out; only tests of the repository by itself call it;
- an observer that leaves the kitchen's list during its own callback, which none does: a
  notification of the whole list is one step of `KitchenEventPublisher`;
- the vendored JaCoCo distribution (`src/jacoco`), the generated coverage report
  (`src/coverage-report`, with its JavaScript) and build output, which are no part of the program.

Done: every part of the program in the table of section 1 but the factories, which only construct
values; and the proofs of section 4. What could still be done: the alert dialogue of both games
shares its argument already (`Provided`, `Supplied`, `AlertSteps`); the steps that cook and serve
are proved once per game, and can be brought together the same way.
