----------------------------- MODULE OrderService ------------------------------
(***************************************************************************)
(* The kitchen: OrderService with its queue and its list of completed orders, *)
(* CustomerOrder, and KitchenEventPublisher with the two observers GameManager *)
(* registers, OrderFulfillmentObserver (closes the order, pays) and then       *)
(* SatisfactionObserver (keeps the statistics), over the pantry of module      *)
(* Inventory.                                                                  *)
(*                                                                             *)
(* One thread calls the service, so no operation starts while an order is being *)
(* processed; but the clock runs on, and processNextOrder reads it up to three  *)
(* times (when it polls the order, and twice in CustomerOrder.complete), with   *)
(* the consumption of the ingredients in between.                               *)
(***************************************************************************)
EXTENDS Integers, Sequences, FiniteSets

CONSTANTS
    Ids, Required, Never,  \* as in Inventory
    OpeningStock,          \* the quantities the pantry is seeded with
    ShelfLife,             \* the expiry dates it is seeded with
    Amounts,               \* amounts restockIngredient is called with
    Dishes,                \* the recipes, decorated or not, that can be ordered
    Contents,              \* Recipe.getIngredients of each dish, as ids
    Price,                 \* Recipe.getBasePrice of each dish
    Levels,                \* player skill levels
    CookScore,             \* Recipe.cook: the score of a dish at a level
    Patiences,             \* patienceSeconds an order may be created with
    Expenses,              \* amounts spendFunds is called with
    MaxNow, MaxDay, MaxOrders, MaxQuantity, MaxAlerts, MaxDebt  \* bounds

ASSUME KitchenRequired == Required \in [Ids -> Nat \ {0}]
ASSUME KitchenStock == /\ OpeningStock \in [Ids -> Nat]
                       /\ ShelfLife \in [Ids -> Nat \cup {Never}]
                       /\ Never \notin Nat
ASSUME KitchenAmounts == Amounts \subseteq Int
ASSUME KitchenDishes == /\ Contents \in [Dishes -> Seq(Ids)]
                        /\ Price \in [Dishes -> Nat \ {0}]
                        /\ CookScore \in [Dishes \X Levels -> 0 .. 100]
ASSUME KitchenPatience == Patiences \subseteq Nat \ {0}
ASSUME KitchenExpenses == Expenses \subseteq Nat \ {0}
ASSUME KitchenBounds == /\ MaxNow \in Nat /\ MaxDay \in Nat /\ MaxOrders \in Nat
                        /\ MaxQuantity \in Nat /\ MaxAlerts \in Nat /\ MaxDebt \in Nat

VARIABLES
    stored, quantity, expiry, alerts, today, basket, at,  \* Inventory
    now,                \* Instant.now(), in seconds
    orders,             \* every CustomerOrder enqueued so far, in that order
    queue,              \* OrderService.orderQueue, as indices into orders
    current,            \* the order processNextOrder is working on, 0 if none
    completedOrders,    \* OrderService.completedOrders
    totalEarnings,      \* OrderFulfillmentObserver, in hundredths of a price unit
    earnedPerOrder,
    totalOrders,        \* SatisfactionObserver
    totalSatisfaction,
    satisfactionScores

Pantry == INSTANCE Inventory WITH
              Baskets <- {Contents[d] : d \in Dishes}, Opening <- {}, BestBefore <- {}

pantryVars == <<stored, quantity, expiry, alerts, today, basket, at>>
orderVars == <<orders, queue, current>>
books == <<completedOrders, totalEarnings, earnedPerOrder,
           totalOrders, totalSatisfaction, satisfactionScores>>
vars == <<pantryVars, now, orderVars, books>>

OrderNumbers == 1 .. Len(orders)

Init == /\ stored = Ids
        /\ quantity = OpeningStock
        /\ expiry = ShelfLife
        /\ alerts = <<>> /\ today = 0 /\ basket = <<>> /\ at = "idle"
        /\ now = 0
        /\ orders = <<>> /\ queue = <<>> /\ current = 0
        /\ completedOrders = <<>>
        /\ totalEarnings = 0 /\ earnedPerOrder = <<>>
        /\ totalOrders = 0 /\ totalSatisfaction = 0 /\ satisfactionScores = <<>>

--------------------------------------------------------------------------------
(* CustomerOrder *)

Larger(a, b) == IF a >= b THEN a ELSE b

\* isExpired, when the clock shows t.
IsOverdueAt(o, t) == t - orders[o].created > orders[o].patience

\* Slip: the share of the patience left is not cut off at zero.
SatisfactionUnclamped(score, elapsed, patience) ==
    (7 * score * patience + 300 * (patience - elapsed)) \div (10 * patience)

\* (int) (score * 0.7 + max(0, 1 - elapsed / patience) * 30)
Satisfaction(score, elapsed, patience) ==
    (7 * score * patience + 300 * Larger(0, patience - elapsed)) \div (10 * patience)

\* CookingResult.success
Succeeds(score) == score >= 50

--------------------------------------------------------------------------------
(* KitchenEventPublisher.notifyDishCompleted, with the observers in the order in   *)
(* which GameManager registers them.                                               *)

\* max(0.2, score / 100) of the price.
Earned(dish, score) == Price[dish] * Larger(20, score)

\* Slip: every cooked dish is paid for.
EarningAlways(o, status, score) == Earned(orders[o].dish, score)

Earning(o, status, score) ==
    IF status = "COMPLETED" THEN Earned(orders[o].dish, score) ELSE 0

\* OrderFulfillmentObserver: complete the order, then book what it earned.
Fulfil(o, status, score, satisfaction) ==
    /\ orders' = [orders EXCEPT ![o].status = status, ![o].satisfaction = satisfaction]
    /\ totalEarnings' = totalEarnings + Earning(o, status, score)
    /\ earnedPerOrder' = Append(earnedPerOrder, Earning(o, status, score))

\* Slip: SatisfactionObserver is registered first and reads the score too early.
CountTooEarly(o, satisfaction) ==
    /\ totalOrders' = totalOrders + 1
    /\ totalSatisfaction' = totalSatisfaction + orders[o].satisfaction
    /\ satisfactionScores' = Append(satisfactionScores, orders[o].satisfaction)

\* SatisfactionObserver: the score is the one complete has just set.
Count(o, satisfaction) ==
    /\ totalOrders' = totalOrders + 1
    /\ totalSatisfaction' = totalSatisfaction + satisfaction
    /\ satisfactionScores' = Append(satisfactionScores, satisfaction)

\* The observers are notified and the order is added to completedOrders (in one
\* branch of processNextOrder before, in the other after: nothing reads it between).
CloseOrder(o, status, score, satisfaction) ==
    /\ Fulfil(o, status, score, satisfaction)
    /\ Count(o, satisfaction)
    /\ completedOrders' = Append(completedOrders, o)

--------------------------------------------------------------------------------
(* OrderService *)

Idle == current = 0 /\ Pantry!Idle

\* Slip: the queue is used as a stack.
AddFirst(o) == queue' = <<o>> \o queue

AddLast(o) == queue' = Append(queue, o)

\* Slip: the order is looked at and left in the queue.
PeekFirst == UNCHANGED queue

PollFirst == queue' = Tail(queue)

\* enqueueOrder: the order was created at time c, with patience p.
EnqueueOrder(dish, c, p) ==
    /\ Idle
    /\ orders' = Append(orders, [dish |-> dish, created |-> c, patience |-> p,
                                 status |-> "PENDING", satisfaction |-> 0])
    /\ AddLast(Len(orders) + 1)
    /\ UNCHANGED <<pantryVars, now, current, books>>

\* processNextOrder on an order that is overdue: EXPIRED, with a failed result.
CloseOverdue ==
    /\ Idle
    /\ queue # <<>>
    /\ IsOverdueAt(Head(queue), now)
    /\ PollFirst
    /\ CloseOrder(Head(queue), "EXPIRED", 0, 0)
    /\ UNCHANGED <<pantryVars, now, current>>

\* processNextOrder on any other order, up to the call of consumeIngredients.
TakeUp ==
    /\ Idle
    /\ queue # <<>>
    /\ ~IsOverdueAt(Head(queue), now)
    /\ PollFirst
    /\ current' = Head(queue)
    /\ orders' = [orders EXCEPT ![Head(queue)].status = "IN_PROGRESS"]
    /\ Pantry!BeginConsume(Contents[orders[Head(queue)].dish])
    /\ UNCHANGED <<now, books>>

Consume == Pantry!ConsumeStep /\ UNCHANGED <<now, orderVars, books>>

\* Slip: the exception puts the order back to the head of the queue.
StrandRequeues ==
    /\ current # 0
    /\ at = "threw"
    /\ Pantry!ReturnToCaller
    /\ current' = 0
    /\ queue' = <<current>> \o queue
    /\ orders' = [orders EXCEPT ![current].status = "PENDING"]
    /\ UNCHANGED <<now, books>>

\* The exception of consumeIngredients leaves processNextOrder: the order is no
\* longer queued, stays IN_PROGRESS, and neither list nor observer hears of it.
StrandOrder ==
    /\ current # 0
    /\ at = "threw"
    /\ Pantry!ReturnToCaller
    /\ current' = 0
    /\ UNCHANGED <<now, orders, queue, books>>

\* The dish is cooked, but the customer has left meanwhile.
ServeTooLate(level) ==
    /\ current # 0
    /\ at = "returned"
    /\ IsOverdueAt(current, now)
    /\ CloseOrder(current, "EXPIRED", CookScore[orders[current].dish, level], 0)
    /\ Pantry!ReturnToCaller
    /\ current' = 0
    /\ UNCHANGED <<now, queue>>

\* The dish is cooked in time.  complete reads the clock a second time, at t, for
\* the share of the patience that is left: a second may have passed.
ServeInTime(level, t) ==
    /\ current # 0
    /\ at = "returned"
    /\ ~IsOverdueAt(current, now)
    /\ LET order == orders[current]
           score == CookScore[order.dish, level]
       IN  CloseOrder(current, IF Succeeds(score) THEN "COMPLETED" ELSE "FAILED", score,
                      Satisfaction(score, t - order.created, order.patience))
    /\ Pantry!ReturnToCaller
    /\ current' = 0
    /\ UNCHANGED <<now, queue>>

\* GameManager.spendFunds checks no balance: whether it may go below zero is up to
\* the caller.
SpendFunds(amount) ==
    /\ Idle
    /\ totalEarnings' = totalEarnings - amount
    /\ UNCHANGED <<pantryVars, now, orderVars, completedOrders, earnedPerOrder,
                   totalOrders, totalSatisfaction, satisfactionScores>>

Restock(i, amount) ==
    current = 0 /\ Pantry!RestockIngredient(i, amount) /\ UNCHANGED <<now, orderVars, books>>

Purge == current = 0 /\ Pantry!PurgeExpiredIngredients /\ UNCHANGED <<now, orderVars, books>>

ClearAlerts == current = 0 /\ Pantry!ClearAlerts /\ UNCHANGED <<now, orderVars, books>>

\* A second passes; it may be the one that ends the day.
Tick == /\ now < MaxNow
        /\ now' = now + 1
        /\ Pantry!Midnight \/ UNCHANGED pantryVars
        /\ UNCHANGED <<orderVars, books>>

Processing == \/ Consume
              \/ StrandOrder
              \/ \E level \in Levels : ServeTooLate(level)
              \/ \E level \in Levels, t \in {now, now + 1} : ServeInTime(level, t)

\* All that callers may do with the kitchen.
Operation ==
    \/ \E dish \in Dishes, c \in 0 .. now, p \in Patiences : EnqueueOrder(dish, c, p)
    \/ CloseOverdue
    \/ TakeUp
    \/ Processing
    \/ \E amount \in Expenses : SpendFunds(amount)
    \/ \E i \in Ids, amount \in Amounts : Restock(i, amount)
    \/ Purge
    \/ ClearAlerts
    \/ Tick

\* The operations within the bounds.
Next ==
    \/ /\ Len(orders) < MaxOrders
       /\ \E dish \in Dishes, c \in 0 .. now, p \in Patiences : EnqueueOrder(dish, c, p)
    \/ CloseOverdue
    \/ Len(alerts) < MaxAlerts /\ TakeUp
    \/ Processing
    \/ \E amount \in Expenses : totalEarnings + MaxDebt >= amount /\ SpendFunds(amount)
    \/ \E i \in Ids, amount \in Amounts : /\ quantity[i] + amount <= MaxQuantity
                                          /\ Len(alerts) < MaxAlerts
                                          /\ Restock(i, amount)
    \/ Purge
    \/ ClearAlerts
    \/ Tick

\* processNextOrder does not wait for anything: its thread runs on.
Spec == Init /\ [][Next]_vars /\ WF_vars(Processing)

--------------------------------------------------------------------------------
(* Properties *)

Closed == {"COMPLETED", "FAILED", "EXPIRED"}

Orders == [dish : Dishes, created : Nat, patience : Nat \ {0},
           status : {"PENDING", "IN_PROGRESS"} \cup Closed, satisfaction : Int]

TypeOK ==
    /\ Pantry!TypeOK
    /\ now \in Nat
    /\ orders \in Seq(Orders)
    /\ queue \in Seq(OrderNumbers)
    /\ current \in 0 .. Len(orders)
    /\ completedOrders \in Seq(OrderNumbers)
    /\ totalEarnings \in Int
    /\ earnedPerOrder \in Seq(Nat)
    /\ totalOrders \in Nat
    /\ totalSatisfaction \in Int
    /\ satisfactionScores \in Seq(Int)

Listed(o, list) == \E k \in DOMAIN list : list[k] = o

Increasing(list) == \A j, k \in DOMAIN list : j < k => list[j] < list[k]

\* Where an order is and what its status says always agree: PENDING exactly while
\* queued, closed exactly when in completedOrders, and the one being processed is
\* IN_PROGRESS.  (IN_PROGRESS otherwise means stranded by an exception.)
StatusAgrees ==
    /\ \A o \in OrderNumbers :
           /\ orders[o].status = "PENDING" <=> Listed(o, queue)
           /\ orders[o].status \in Closed <=> Listed(o, completedOrders)
    /\ current # 0 => orders[current].status = "IN_PROGRESS"

\* First come, first served, through every branch of processNextOrder: orders are
\* taken up and closed in the order they were enqueued.
FirstComeFirstServed ==
    /\ Increasing(queue)
    /\ Increasing(completedOrders)
    /\ \A k \in DOMAIN queue : \A o \in OrderNumbers :
           o >= queue[k] => orders[o].status = "PENDING"

\* The k-th entries of the three lists the game reads back ("last earned", "last
\* satisfaction", completed orders) are about the same order: it earned something
\* exactly if it was COMPLETED, and SatisfactionObserver saw the score that
\* OrderFulfillmentObserver's call of complete had set.
LedgersAligned ==
    /\ Len(earnedPerOrder) = Len(completedOrders)
    /\ Len(satisfactionScores) = Len(completedOrders)
    /\ totalOrders = Len(completedOrders)
    /\ \A k \in DOMAIN completedOrders :
           LET order == orders[completedOrders[k]]
           IN  /\ earnedPerOrder[k] > 0 <=> order.status = "COMPLETED"
               /\ satisfactionScores[k] = order.satisfaction

\* What a customer thinks matches what became of the order: at least 35 for one
\* that was COMPLETED (also if the second reading of the clock is past the
\* patience), at most 64 for a ruined dish, 0 for one that came too late.
SatisfactionFitsOutcome ==
    \A o \in OrderNumbers :
        LET s == orders[o].satisfaction
        IN  /\ orders[o].status = "COMPLETED" => s \in 35 .. 100
            /\ orders[o].status = "FAILED" => s \in 0 .. 64
            /\ orders[o].status \notin {"COMPLETED", "FAILED"} => s = 0

\* The abstract kitchen: an order IN_PROGRESS that is not the current one is lost.
Fate(o) == LET status == orders[o].status
           IN  CASE status = "PENDING"     -> "waiting"
                 [] status = "IN_PROGRESS" -> IF o = current THEN "cooking" ELSE "lost"
                 [] OTHER                  -> status

Lifecycle == INSTANCE OrderLifecycle WITH
                 fate <- [o \in OrderNumbers |-> Fate(o)], till <- totalEarnings

\* Every step of the kitchen is a step of the abstract one: orders are taken up in
\* turn and one at a time, none is closed twice or paid for without being completed.
ImplementsLifecycle == Lifecycle!Safety

\* An order that is taken up ends: closed, or stranded by an exception.
OrdersEnd == \A o \in 1 .. MaxOrders : current = o ~> current # o

================================================================================
