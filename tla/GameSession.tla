------------------------------ MODULE GameSession -------------------------------
(***************************************************************************)
(* GameManager as its public methods are called by the test suite, and by anyone  *)
(* who drives the game without one of the two user interfaces: several orders may  *)
(* wait in the queue while the player gains levels, buys ingredients, throws away   *)
(* what is spoiled, and adds and removes recipes.  One thread makes the calls;      *)
(* processNextOrder is the only one that takes several steps.                       *)
(***************************************************************************)
EXTENDS GameManager

CONSTANTS StartingLevels,       \* startingSkillLevel of the constructor
          MaxQuantity, MaxAlerts  \* bounds of the purchases

ASSUME SessionLevels == StartingLevels \subseteq 1 .. MaxLevel
ASSUME SessionBounds == MaxQuantity \in Nat /\ MaxAlerts \in Nat
\* What module Cooking shows of the four strategies (QualifiedSucceeds): who has the skill
\* that a recipe asks for does not ruin it.
ASSUME SessionScores == \A r \in Recipes : \A level \in Skill[r] .. MaxLevel :
                            Kitchen!Succeeds(CookScore[<<Plain(r), level>>])

vars == <<kitchenVars, progress, iterator>>

Init == \E level \in StartingLevels : StartAt(level)

\* submitRandomOrder; without a recipe for the player's level it throws.
SubmitRandomOrder ==
    /\ \E r \in Available : \E t \in NewOrders(Plain(r)) :
           Kitchen!EnqueueOrder(t.dish, t.created, t.patience)
    /\ UNCHANGED <<progress, iterator>>

\* A bound that no session reaches: an order leaves an alert per ingredient at most.
RoomForAlerts == Len(alerts) < MaxAlerts + MaxOrders * Cardinality(Ids)

\* One step of processNextOrder(playerSkillLevel).
ProcessNextOrder ==
    /\ \/ Kitchen!CloseOverdue
       \/ RoomForAlerts /\ Kitchen!TakeUp
       \/ Kitchen!Consume
       \/ Kitchen!StrandOrder
       \/ Kitchen!ServeTooLate(playerSkillLevel)
       \/ \E t \in {now, now + 1} : Kitchen!ServeInTime(playerSkillLevel, t)
    /\ UNCHANGED <<progress, iterator>>

\* levelUp
LevelUp ==
    /\ Kitchen!Idle
    /\ playerSkillLevel < MaxLevel
    /\ playerSkillLevel' = playerSkillLevel + 1
    /\ UNCHANGED <<kitchenVars, recipes, ordersCompleted, iterator>>

\* getInventoryService and getStockObserver
TendPantry ==
    /\ \/ \E i \in Ids : /\ quantity[i] + Required[i] <= MaxQuantity
                         /\ Len(alerts) < MaxAlerts
                         /\ Kitchen!Restock(i, Required[i])
       \/ Kitchen!Purge
       \/ Kitchen!ClearAlerts
    /\ UNCHANGED <<progress, iterator>>

\* getRecipeService
TendBook ==
    /\ Kitchen!Idle
    /\ EditBook
    /\ UNCHANGED <<kitchenVars, playerSkillLevel, ordersCompleted, iterator>>

Tick == Kitchen!Tick /\ UNCHANGED <<progress, iterator>>

Next == \/ Len(orders) < MaxOrders /\ SubmitRandomOrder
        \/ ProcessNextOrder
        \/ LevelUp
        \/ TendPantry
        \/ TendBook
        \/ Tick

\* Whatever else is done, processNextOrder is called again and again.
Spec == Init /\ [][Next]_vars /\ WF_vars(ProcessNextOrder)

--------------------------------------------------------------------------------
(* Properties *)

\* No order ever asks for more than the player can do, however the book changes and the
\* level grows between its submission and its cooking: what is cooked in time succeeds.
NothingRuined == \A o \in Kitchen!OrderNumbers : orders[o].status # "FAILED"

\* No order waits for ever: an order that the pantry cannot serve ends with an exception
\* and does not keep those behind it from being processed.
QueueDrains ==
    \A o \in 1 .. MaxOrders :
        o \in DOMAIN orders /\ orders[o].status = "PENDING"
            ~> o \in DOMAIN orders /\ orders[o].status # "PENDING"

================================================================================
