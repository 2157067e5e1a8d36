------------------------------- MODULE SwingGame -------------------------------
(***************************************************************************)
(* The Swing game: the handlers of its buttons, on the event dispatch thread.  *)
(*                                                                             *)
(* One handler runs at a time, and while handleCook waits in the modal dialogue *)
(* of a stock alert no other button can be pressed; the clock runs on.  Unlike   *)
(* the terminal game this one survives an exception: it ends the handler, and    *)
(* the event thread goes on with pendingOrder and the buttons as they were at    *)
(* that moment, so that the same CustomerOrder object may be decorated and       *)
(* enqueued again.                                                               *)
(***************************************************************************)
EXTENDS GameManager

CONSTANT Toggles  \* decoButtons: the variation of each toggle button, left to right

ASSUME TogglesAssumption == /\ Toggles \in Seq(Variations)
                            /\ \A j, k \in DOMAIN Toggles : Toggles[j] = Toggles[k] => j = k

\* The inventory is a map that seedIngredients fills.
ASSUME IdsAssumption == IsFiniteSet(Ids)

VARIABLES
    screen,          \* "window": the event thread is free; else where handleCook is
    pendingOrder,    \* SwingGame.pendingOrder
    number,          \* its place in orders, 0 if it was never enqueued
    cookingEnabled,  \* Cook, Skip and the four toggle buttons
    shown            \* the figures in the status bar

orderWidgets == <<pendingOrder, number, cookingEnabled>>
widgets == <<orderWidgets, shown>>
vars == <<kitchenVars, screen, widgets, progress, iterator>>

Null == [dish |-> <<>>, created |-> 0, patience |-> 0]

Init == /\ NewGame
        /\ screen = "window"
        /\ pendingOrder = Null
        /\ number = 0
        /\ cookingEnabled = FALSE
        /\ shown = [skill |-> 1, earned |-> 0, satisfaction |-> 0, orders |-> 0]

\* Of the figures when the handler has done what the step does.
UpdateStatusBar ==
    shown' = [skill |-> playerSkillLevel', earned |-> totalEarnings',
              satisfaction |-> AverageSatisfaction', orders |-> ordersCompleted']

--------------------------------------------------------------------------------
(* The buttons *)

\* New Order is never disabled: an order that is pending is dropped.
HandleNewOrder ==
    /\ screen = "window"
    /\ \E r \in Available : pendingOrder' \in NewOrders(Plain(r))
    /\ number' = 0
    /\ cookingEnabled' = TRUE
    /\ UNCHANGED <<kitchenVars, screen, shown, progress, iterator>>

\* Slip: the buttons are forgotten.
DismissOrderOnly == pendingOrder' = Null /\ number' = 0 /\ UNCHANGED cookingEnabled

\* setCookingButtonsEnabled(false) and pendingOrder = null
Dismiss == pendingOrder' = Null /\ number' = 0 /\ cookingEnabled' = FALSE

HandleSkip ==
    /\ screen = "window"
    /\ cookingEnabled
    /\ Dismiss
    /\ UNCHANGED <<kitchenVars, screen, shown, progress, iterator>>

\* The toggle buttons that may be set, as their places from left to right.
Settings == UNION {{f \in [1 .. n -> DOMAIN Toggles] :
                       \A j, k \in 1 .. n : j < k => f[j] < f[k]} : n \in 0 .. Len(Toggles)}

\* applyDecoration: one decorator for each toggle that is set, in the order of the
\* buttons.  The toggles may be set as the player likes whenever Cook is enabled; what
\* is decorated is the recipe the order has by now.
ApplyDecoration(dish) ==
    Dishes \cap {<<dish[1], dish[2] \o [j \in DOMAIN f |-> Toggles[f[j]]]>> : f \in Settings}

EnqueueNew(dish) ==
    /\ Kitchen!EnqueueOrder(dish, pendingOrder.created, pendingOrder.patience)
    /\ number' = Len(orders) + 1

\* setRequestedRecipe and enqueueOrder, of an order that was enqueued before.
EnqueueAgain(dish) ==
    /\ Kitchen!Idle
    /\ orders' = [orders EXCEPT ![number].dish = dish, ![number].status = "PENDING"]
    /\ Kitchen!AddLast(number)
    /\ UNCHANGED <<stored, quantity, expiry, alerts, today, basket, at, now, current,
                   completedOrders, totalEarnings, earnedPerOrder, totalOrders,
                   totalSatisfaction, satisfactionScores, number>>

\* handleCook, up to the call of processNextOrder.
HandleCook ==
    /\ screen = "window"
    /\ cookingEnabled
    /\ pendingOrder # Null
    /\ \E dish \in ApplyDecoration(pendingOrder.dish) :
           /\ pendingOrder' = [pendingOrder EXCEPT !.dish = dish]
           /\ IF number = 0 THEN EnqueueNew(dish) ELSE EnqueueAgain(dish)
    /\ screen' = "cooking"
    /\ UNCHANGED <<cookingEnabled, shown, progress, iterator>>

--------------------------------------------------------------------------------
(* processNextOrder, as handleCook sees it *)

\* A null result: the order was overdue.  The status bar is not updated.
TooLateToCook ==
    /\ screen = "cooking"
    /\ Kitchen!CloseOverdue
    /\ screen' = "window"
    /\ Dismiss
    /\ UNCHANGED <<shown, progress, iterator>>

StartCooking ==
    /\ screen = "cooking"
    /\ Kitchen!TakeUp
    /\ UNCHANGED <<screen, widgets, progress, iterator>>

Consume ==
    /\ screen = "cooking"
    /\ Kitchen!Consume
    /\ UNCHANGED <<screen, widgets, progress, iterator>>

\* The exception ends the handler: the order stays pending, the buttons enabled and
\* the alerts in the list.
CookingThrows ==
    /\ screen = "cooking"
    /\ Kitchen!StrandOrder
    /\ screen' = "window"
    /\ UNCHANGED <<widgets, progress, iterator>>

\* A result: it counts, the player may gain a level, the status bar is updated, and the
\* loop over the live list of alerts begins.
Serve ==
    /\ screen = "cooking"
    /\ \/ Kitchen!ServeTooLate(playerSkillLevel)
       \/ \E t \in {now, now + 1} : Kitchen!ServeInTime(playerSkillLevel, t)
    /\ ordersCompleted' = ordersCompleted + 1
    /\ playerSkillLevel' = LevelAfter(ordersCompleted + 1)
    /\ screen' = "alerts"
    /\ BeginAlerts
    /\ UpdateStatusBar
    /\ UNCHANGED <<orderWidgets, recipes>>

--------------------------------------------------------------------------------
(* handleStockAlerts *)

Prompting == screen = "alerts" /\ HasNext /\ ~ListGrew

Bought == 10

\* "Buy More": spendFunds, whatever the balance ...
PayForPortions ==
    /\ Prompting
    /\ Kitchen!SpendFunds(Bought * Cost[Alerted])
    /\ screen' = "buying"
    /\ UNCHANGED <<widgets, progress, iterator>>

\* Slip: one portion is restocked for the price of ten.
RestockOnePortion ==
    /\ screen = "buying"
    /\ Kitchen!Restock(Alerted, Required[Alerted])
    /\ screen' = "alerts"
    /\ NextAlert
    /\ UNCHANGED <<widgets, progress>>

\* ... then restockIngredient with ten portions.
RestockPortions ==
    /\ screen = "buying"
    /\ Kitchen!Restock(Alerted, Bought * Required[Alerted])
    /\ screen' = "alerts"
    /\ NextAlert
    /\ UNCHANGED <<widgets, progress>>

\* "Remove Recipes", or the dialogue is closed.
RemoveRecipes ==
    /\ Prompting
    /\ RemoveRecipeWithIngredient(Alerted)
    /\ NextAlert
    /\ UNCHANGED <<kitchenVars, screen, widgets, playerSkillLevel, ordersCompleted>>

\* Slip: the exception is caught inside the loop and the same iterator asked again.
IterationCaught ==
    /\ screen = "alerts"
    /\ HasNext
    /\ ListGrew
    /\ UNCHANGED vars

\* ConcurrentModificationException ends the handler: the order, which is served and
\* counted, stays pending, the buttons enabled and the alerts in the list.
IterationThrows ==
    /\ screen = "alerts"
    /\ HasNext
    /\ ListGrew
    /\ screen' = "window"
    /\ UNCHANGED <<kitchenVars, widgets, progress, iterator>>

\* Slip: the order stays pending although it was served.
FinishStaysPending ==
    /\ screen = "alerts"
    /\ ~HasNext
    /\ Kitchen!ClearAlerts
    /\ screen' = "window"
    /\ UNCHANGED <<widgets, progress, iterator>>

\* Slip: what the dialogue cost is not shown.
FinishWithoutUpdate ==
    /\ screen = "alerts"
    /\ ~HasNext
    /\ Kitchen!ClearAlerts
    /\ Dismiss
    /\ screen' = "window"
    /\ UNCHANGED <<shown, progress, iterator>>

\* The loop is over: clearAlerts, the status bar, and handleCook returns.
FinishOrder ==
    /\ screen = "alerts"
    /\ ~HasNext
    /\ Kitchen!ClearAlerts
    /\ Dismiss
    /\ screen' = "window"
    /\ UNCHANGED <<progress, iterator>>
    /\ UpdateStatusBar

--------------------------------------------------------------------------------
\* EXIT_ON_CLOSE.
Close ==
    /\ screen = "window"
    /\ screen' = "closed"
    /\ UNCHANGED <<kitchenVars, widgets, progress, iterator>>

Tick == /\ screen # "closed"
        /\ Kitchen!Tick
        /\ UNCHANGED <<screen, widgets, progress, iterator>>

\* What the event thread does by itself once Cook is pressed.
Handler == \/ TooLateToCook \/ StartCooking \/ Consume \/ CookingThrows \/ Serve
           \/ RestockPortions \/ IterationThrows \/ FinishOrder

AnswerAlert == PayForPortions \/ RemoveRecipes

\* The bounds: so many orders, results, and alerts that exceptions left behind.
WithinBounds == /\ number = 0 => Len(orders) < MaxOrders
                /\ Len(completedOrders) < MaxOrders
                /\ Len(alerts) < MaxOrders

Next == \/ HandleNewOrder
        \/ HandleSkip
        \/ WithinBounds /\ HandleCook
        \/ Handler
        \/ AnswerAlert
        \/ Close
        \/ Tick

\* The event thread runs on, and the player answers the modal dialogues.
Spec == Init /\ [][Next]_vars /\ WF_vars(Handler) /\ WF_vars(AnswerAlert)

--------------------------------------------------------------------------------
(* Properties *)

TypeOK ==
    /\ GameTypeOK
    /\ screen \in {"window", "cooking", "alerts", "buying", "closed"}
    /\ pendingOrder \in Tickets \cup {Null}
    /\ number \in 0 .. Len(orders)
    /\ cookingEnabled \in BOOLEAN
    /\ shown \in [skill : 1 .. MaxLevel, earned : Int, satisfaction : Int, orders : Nat]

\* What one purchase of every ingredient costs, dollar by dollar.
Dollars == UNION {{i} \X (1 .. Bought * Cost[i]) : i \in Ids}

SumOfCosts == Cardinality(Dollars)

SomethingExpired == \E i \in stored : Kitchen!Pantry!IsExpired(i)

\* Whichever way a handler was left, by a return or by an exception: whenever the
\* player can press a button, Cook and Skip are enabled exactly if there is an order.
ButtonsFitOrder == screen = "window" => (cookingEnabled <=> pendingOrder # Null)

\* handleCook always processes its own order, and the last entries of the statistics,
\* which showResult displays, are that order's: no order an exception left behind
\* is cooked in its place.
CooksItsOwnOrder ==
    /\ screen = "window" => queue = <<>> /\ current = 0 /\ at = "idle"
    /\ screen = "cooking" => IF current = 0 THEN queue = <<number>>
                                            ELSE queue = <<>> /\ current = number
    /\ screen \in {"alerts", "buying"} =>
           /\ completedOrders[Len(completedOrders)] = number
           /\ satisfactionScores[Len(satisfactionScores)] = orders[number].satisfaction

\* Only spoiled food makes a handler fail: the purchases and removals of every
\* dialogue leave enough of everything that is still on the menu.
OnlyExpiryThrows ==
    at = "threw" \/ (screen = "alerts" /\ HasNext /\ ListGrew) => SomethingExpired

\* As long as nothing has expired, an order is served once and decorated once: no two
\* decorators around it are of the same toggle.
ServedOnceIfFresh ==
    SomethingExpired \/
    /\ \A j, k \in DOMAIN completedOrders : completedOrders[j] = completedOrders[k] => j = k
    /\ \A o \in Kitchen!OrderNumbers : \A j, k \in DOMAIN orders[o].dish[2] :
           orders[o].dish[2][j] = orders[o].dish[2][k] => j = k

\* The level keeps up with the number of results shown, also when the dialogue that
\* follows fails.
LevelMatchesOrders == playerSkillLevel = LevelFor(ordersCompleted)

\* Whenever the player can press a button, the status bar shows the level and the count
\* of orders there are, also after an exception; and what the purchases of the dialogue
\* have left of the earnings, unless something has expired.
StatusBarCurrent ==
    screen = "window" => /\ shown.skill = playerSkillLevel
                         /\ shown.orders = ordersCompleted
                         /\ shown.earned = totalEarnings \/ SomethingExpired

\* "Satisfaction: ...%" (line 388): the average that the status bar shows is the average.
SatisfactionShown == screen = "window" => shown.satisfaction = AverageSatisfaction

\* Ten portions last for ten orders: how often an ingredient needs to be bought.
Purchases == (Len(completedOrders) + Bought - 1) \div Bought

\* Buying is never refused, but as long as nothing has expired it cannot ruin the
\* player: what is bought lasts, so that nobody owes more than what one purchase of every
\* ingredient costs, once for every ten orders begun.
DebtIsBounded == SomethingExpired \/ totalEarnings >= -(Purchases * SumOfCosts)

\* Pressing Cook leads back to the window.
CookEnds == screen = "cooking" ~> screen = "window"

\* "The order expired before cooking!" (line 243), "Order expired before cooking."
\* (OrderService.java, line 41): an order that ends so was not cooked before.
ExpiredBeforeCooking ==
    [][TooLateToCook => ~Kitchen!Listed(number, completedOrders)]_vars

================================================================================
