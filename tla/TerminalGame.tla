------------------------------ MODULE TerminalGame -----------------------------
(***************************************************************************)
(* The terminal game: TerminalGame.run and handleTakeOrder.                    *)
(*                                                                           *)
(* handleTakeOrder is one method with a blocking prompt at every choice of the *)
(* player.  The clock runs on during each prompt: between the arrival of a      *)
(* customer and the cooking, and between two stock alerts.  Nothing catches an  *)
(* exception, so one that leaves a handler ends the program.                    *)
(***************************************************************************)
EXTENDS GameManager

\* The player may ask for one decoration.
ASSUME TerminalWraps == MaxWraps >= 1

VARIABLES
    screen,  \* where the game waits or works
    ticket   \* the local variable `order` of handleTakeOrder

vars == <<kitchenVars, screen, ticket, progress, iterator>>

NoTicket == [dish |-> <<>>, created |-> 0, patience |-> 0]

Init == /\ NewGame
        /\ screen = "menu"
        /\ ticket = NoTicket

--------------------------------------------------------------------------------
(* handleTakeOrder, up to the cooking *)

TakeOrder ==
    /\ screen = "menu"
    /\ \E r \in Available : ticket' \in NewOrders(Plain(r))
    /\ screen' = "variation"
    /\ UNCHANGED <<kitchenVars, progress, iterator>>

\* A variation makes the game create a new order for the decorated recipe.
ChooseVariation ==
    /\ screen = "variation"
    /\ \/ \E v \in Variations : ticket' \in NewOrders(<<ticket.dish[1], <<v>>>>)
       \/ UNCHANGED ticket
    /\ screen' = "confirm"
    /\ UNCHANGED <<kitchenVars, progress, iterator>>

Skip ==
    /\ screen = "confirm"
    /\ screen' = "menu"
    /\ ticket' = NoTicket
    /\ UNCHANGED <<kitchenVars, progress, iterator>>

Cook ==
    /\ screen = "confirm"
    /\ Kitchen!EnqueueOrder(ticket.dish, ticket.created, ticket.patience)
    /\ screen' = "cooking"
    /\ ticket' = NoTicket
    /\ UNCHANGED <<progress, iterator>>

--------------------------------------------------------------------------------
(* processNextOrder, as handleTakeOrder sees it *)

\* A null result: the order was overdue.
TooLateToCook ==
    /\ screen = "cooking"
    /\ Kitchen!CloseOverdue
    /\ screen' = "menu"
    /\ UNCHANGED <<ticket, progress, iterator>>

StartCooking ==
    /\ screen = "cooking"
    /\ Kitchen!TakeUp
    /\ UNCHANGED <<screen, ticket, progress, iterator>>

Consume ==
    /\ screen = "cooking"
    /\ Kitchen!Consume
    /\ UNCHANGED <<screen, ticket, progress, iterator>>

CookingThrows ==
    /\ screen = "cooking"
    /\ Kitchen!StrandOrder
    /\ screen' = "crashed"
    /\ UNCHANGED <<ticket, progress, iterator>>

\* A result: the loop over the live list of alerts begins.
Serve ==
    /\ screen = "cooking"
    /\ \/ Kitchen!ServeTooLate(playerSkillLevel)
       \/ \E t \in {now, now + 1} : Kitchen!ServeInTime(playerSkillLevel, t)
    /\ screen' = "alerts"
    /\ BeginAlerts
    /\ UNCHANGED <<ticket, progress>>

--------------------------------------------------------------------------------
(* The stock alerts.  The loop iterates over StockAlertObserver.alerts itself, to   *)
(* which a restock of something still low or expired appends.                       *)

Prompting == screen = "alerts" /\ HasNext /\ ~ListGrew

\* Slip: the purchase is made on credit.
AffordableOnCredit == TRUE

Affordable == Cost[Alerted] <= totalEarnings

\* "Buy more", affordable: spendFunds ...
PayForPortion ==
    /\ Prompting
    /\ Affordable
    /\ Kitchen!SpendFunds(Cost[Alerted])
    /\ screen' = "buying"
    /\ UNCHANGED <<ticket, progress, iterator>>

\* ... then restockIngredient with one portion.
RestockPortion ==
    /\ screen = "buying"
    /\ Kitchen!Restock(Alerted, Required[Alerted])
    /\ screen' = "alerts"
    /\ NextAlert
    /\ UNCHANGED <<ticket, progress>>

\* "Remove affected recipes", or "Buy more" with insufficient funds: the same call.
RemoveAffectedRecipes ==
    /\ Prompting
    /\ RemoveRecipeWithIngredient(Alerted)
    /\ NextAlert
    /\ UNCHANGED <<kitchenVars, screen, ticket, playerSkillLevel, ordersCompleted>>

\* The iterator finds that the list has grown: ConcurrentModificationException.
IterationThrows ==
    /\ screen = "alerts"
    /\ HasNext
    /\ ListGrew
    /\ screen' = "crashed"
    /\ UNCHANGED <<kitchenVars, ticket, progress, iterator>>

\* Slip: checkLevelUp before the order is counted.
FinishCountsLate ==
    /\ screen = "alerts"
    /\ ~HasNext
    /\ Kitchen!ClearAlerts
    /\ ordersCompleted' = ordersCompleted + 1
    /\ playerSkillLevel' = LevelAfter(ordersCompleted)
    /\ screen' = "menu"
    /\ UNCHANGED <<ticket, recipes, iterator>>

\* The loop is over: clearAlerts, one more order completed, checkLevelUp.
FinishOrder ==
    /\ screen = "alerts"
    /\ ~HasNext
    /\ Kitchen!ClearAlerts
    /\ ordersCompleted' = ordersCompleted + 1
    /\ playerSkillLevel' = LevelAfter(ordersCompleted + 1)
    /\ screen' = "menu"
    /\ UNCHANGED <<ticket, recipes, iterator>>

--------------------------------------------------------------------------------
Quit ==
    /\ screen = "menu"
    /\ screen' = "over"
    /\ UNCHANGED <<kitchenVars, ticket, progress, iterator>>

Running == screen \notin {"over", "crashed"}

Tick == Running /\ Kitchen!Tick /\ UNCHANGED <<screen, ticket, progress, iterator>>

\* What the program does by itself once it is told to cook.
Handler == \/ TooLateToCook \/ StartCooking \/ Consume \/ CookingThrows \/ Serve
           \/ RestockPortion \/ IterationThrows \/ FinishOrder

\* What it does when the player answers a stock alert.
AnswerAlert == PayForPortion \/ RemoveAffectedRecipes

Next == \/ TakeOrder
        \/ ChooseVariation
        \/ Skip
        \/ Len(orders) < MaxOrders /\ Cook
        \/ Handler
        \/ AnswerAlert
        \/ Quit
        \/ Tick

\* The program runs on between prompts, and the player answers the stock alerts,
\* which the game does not let him leave open.
Spec == Init /\ [][Next]_vars /\ WF_vars(Handler) /\ WF_vars(AnswerAlert)

\* A player who takes and cooks whatever order there is.
EagerSpec == /\ Spec
             /\ WF_vars(TakeOrder)
             /\ WF_vars(ChooseVariation)
             /\ WF_vars(Len(orders) < MaxOrders /\ Cook)

--------------------------------------------------------------------------------
(* Properties *)

TypeOK ==
    /\ GameTypeOK
    /\ screen \in {"menu", "variation", "confirm", "cooking", "alerts", "buying",
                   "over", "crashed"}
    /\ ticket \in Tickets \cup {NoTicket}

\* Whenever the game is at its menu, there are two portions of every ingredient of
\* every recipe it still offers: the alert loop restocks or removes whatever an
\* order brought below that, so no order is refused for want of stock.
StockCovered ==
    screen = "menu" => \A r \in recipes : \A k \in DOMAIN Ingredients[r] :
                           quantity[Ingredients[r][k]] >= 2 * Required[Ingredients[r][k]]

\* The program only ever crashes when something in the pantry has gone bad: too
\* little stock, a missing ingredient or a purchase never make it throw.
OnlyExpiryCrashes ==
    screen = "crashed" => \E i \in stored : Kitchen!Pantry!IsExpired(i)

\* The player never owes money.
NeverInDebt == totalEarnings >= 0

\* At the menu nothing of the last order is left over: no queued order, none being
\* processed, and no alert, so that the next order's dialogue is about itself.
MenuIsQuiet ==
    screen = "menu" => queue = <<>> /\ current = 0 /\ alerts = <<>> /\ at = "idle"

Phase == CASE screen = "menu"                     -> "open"
           [] screen \in {"variation", "confirm"} -> "guest"
           [] screen = "cooking"                  -> "cooking"
           [] screen \in {"alerts", "buying"}     -> "bills"
           [] OTHER                               -> "closed"

Career == INSTANCE ChefCareer WITH
              phase <- Phase, purse <- totalEarnings,
              served <- ordersCompleted, level <- playerSkillLevel,
              Earnings <- {0} \cup {Kitchen!Earned(cooked[1], CookScore[cooked]) :
                                        cooked \in Dishes \X (1 .. MaxLevel)},
              Expenses <- {Cost[i] : i \in Ids}

\* Seen from outside the game keeps what module ChefCareer promises: an accepted order
\* ends, a served one counts once and decides on the level, no money is spent that is
\* not there.
ImplementsCareer == Career!Spec

\* What the message "No recipes available at your skill level yet." (line 112 of
\* TerminalGame.java) lets a player expect who plays on.
RecipesWillCome ==
    (screen = "menu" /\ Available = {}) ~> (Available # {} \/ screen = "over")

================================================================================
