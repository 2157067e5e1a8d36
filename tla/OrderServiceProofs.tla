-------------------------- MODULE OrderServiceProofs ---------------------------
(* What the kitchen guarantees about orders, for all recipes, scores, patiences    *)
(* and whatever happens in the pantry and on the clock.                            *)
EXTENDS OrderService, TLAPS, SequenceTheorems

Statuses == {"PENDING", "IN_PROGRESS"} \cup Closed

\* OrderService.TypeOK without the pantry: the part that concerns orders.
OrderTypes ==
    /\ now \in Nat
    /\ orders \in Seq(Orders)
    /\ queue \in Seq(OrderNumbers)
    /\ current \in 0 .. Len(orders)
    /\ completedOrders \in Seq(OrderNumbers)
    /\ totalEarnings \in Int
    /\ earnedPerOrder \in Seq(Nat)
    /\ totalOrders \in Nat
    /\ totalSatisfaction \in Int
    /\ satisfactionScores \in Seq(Int)

--------------------------------------------------------------------------------
(* Lists of orders *)

LEMMA Replaced ==
    ASSUME NEW S, NEW seq \in Seq(S), NEW i \in 1 .. Len(seq), NEW e \in S,
           NEW new, new = [seq EXCEPT ![i] = e]
    PROVE  /\ new \in Seq(S) /\ Len(new) = Len(seq)
           /\ \A j \in 1 .. Len(seq) : new[j] = IF j = i THEN e ELSE seq[j]
BY ExceptSeq

\* What changing the status of one order does to the list of orders.
LEMMA Marked ==
    ASSUME NEW os \in Seq(Orders), NEW o \in 1 .. Len(os), NEW s \in Statuses,
           NEW new, new = [os EXCEPT ![o].status = s]
    PROVE  /\ new \in Seq(Orders) /\ Len(new) = Len(os)
           /\ new[o].status = s /\ new[o].satisfaction = os[o].satisfaction
           /\ new[o].dish = os[o].dish /\ new[o].created = os[o].created
           /\ \A p \in 1 .. Len(os) : p # o => new[p] = os[p]
<1> DEFINE r == [os[o] EXCEPT !.status = s]
<1>1. os[o] \in Orders /\ os \in [1 .. Len(os) -> Orders]
    BY LenProperties, ElementOfSeq
<1>2. new = [os EXCEPT ![o] = r]
    BY <1>1
<1>3. r \in Orders
    BY <1>1 DEF Orders, Statuses
<1>4. /\ r.status = s /\ r.satisfaction = os[o].satisfaction
      /\ r.dish = os[o].dish /\ r.created = os[o].created
    BY <1>1 DEF Orders
<1> HIDE DEF r
<1>5. /\ new \in Seq(Orders) /\ Len(new) = Len(os)
      /\ \A p \in 1 .. Len(os) : new[p] = IF p = o THEN r ELSE os[p]
    BY ONLY os \in Seq(Orders), o \in 1 .. Len(os), <1>2, <1>3, Replaced
<1> QED
    BY <1>4, <1>5

--------------------------------------------------------------------------------
(* What the actions do to orders, pantry aside *)

Arrival == /\ Idle
           /\ \E dish \in Dishes, c \in Nat, p \in Nat \ {0} :
                  orders' = Append(orders, [dish |-> dish, created |-> c, patience |-> p,
                                            status |-> "PENDING", satisfaction |-> 0])
           /\ queue' = Append(queue, Len(orders) + 1)
           /\ UNCHANGED <<current, books>>

Lapse == /\ current = 0
         /\ queue # <<>>
         /\ queue' = Tail(queue)
         /\ CloseOrder(Head(queue), "EXPIRED", 0, 0)
         /\ UNCHANGED current

Start == /\ current = 0
         /\ queue # <<>>
         /\ queue' = Tail(queue)
         /\ current' = Head(queue)
         /\ orders' = [orders EXCEPT ![Head(queue)].status = "IN_PROGRESS"]
         /\ UNCHANGED books

Strand == /\ current # 0
          /\ current' = 0
          /\ UNCHANGED <<orders, queue, books>>

Serve(status, score, satisfaction) ==
    /\ current # 0
    /\ current' = 0
    /\ CloseOrder(current, status, score, satisfaction)
    /\ UNCHANGED queue

Spending == /\ totalEarnings' \in Int
            /\ totalEarnings' < totalEarnings
            /\ UNCHANGED <<orderVars, completedOrders, earnedPerOrder,
                           totalOrders, totalSatisfaction, satisfactionScores>>

Quiet == UNCHANGED <<orderVars, books>>

LEMMA SatisfactionIsInt ==
    ASSUME NEW score \in 0 .. 100, NEW e \in Int, NEW p \in Nat \ {0}
    PROVE  Satisfaction(score, e, p) \in Int
BY DEF Satisfaction, Larger

\* The order being processed, or the one at the head of the queue, is an order.
LEMMA Heads ==
    ASSUME OrderTypes
    PROVE  /\ queue # <<>> => /\ Head(queue) \in OrderNumbers
                              /\ Head(queue) = queue[1]
                              /\ Tail(queue) \in Seq(OrderNumbers)
                              /\ Len(Tail(queue)) = Len(queue) - 1
                              /\ \A k \in 1 .. Len(queue) - 1 : Tail(queue)[k] = queue[k + 1]
           /\ current # 0 => current \in OrderNumbers
           /\ \A o \in OrderNumbers : orders[o] \in Orders
<1>1. queue # <<>> => Head(queue) = queue[1]
    BY DEF OrderTypes
<1>2. \A o \in OrderNumbers : orders[o] \in Orders
    BY ElementOfSeq DEF OrderTypes, OrderNumbers
<1>3. current # 0 => current \in OrderNumbers
    BY LenProperties DEF OrderTypes, OrderNumbers
<1> QED
    BY <1>1, <1>2, <1>3, HeadTailProperties DEF OrderTypes

LEMMA NextIsOperation == [Next]_vars => [Operation]_vars
BY DEF Next, Operation

\* Every operation of the kitchen is of one of these kinds.
LEMMA Kinds ==
    ASSUME OrderTypes, [Operation]_vars
    PROVE  /\ now' \in Nat
           /\ \/ Arrival
              \/ Lapse
              \/ Start
              \/ Strand
              \/ \E status \in Closed, score \in 0 .. 100, s \in Int :
                     /\ Serve(status, score, s)
                     /\ status = "EXPIRED" => s = 0
              \/ Spending
              \/ Quiet
<1> USE DEF OrderTypes
<1>1. ASSUME NEW dish \in Dishes, NEW c \in 0 .. now, NEW p \in Patiences,
             EnqueueOrder(dish, c, p)
      PROVE  Arrival /\ now' \in Nat
    <2>1. c \in Nat /\ p \in Nat \ {0}
        BY KitchenPatience
    <2> QED
        BY <1>1, <2>1 DEF EnqueueOrder, Arrival, AddLast
<1>2. CASE CloseOverdue
    BY <1>2 DEF CloseOverdue, Lapse, PollFirst, Idle
<1>3. CASE TakeUp
    BY <1>3 DEF TakeUp, Start, PollFirst, Idle
<1>4. CASE Consume
    BY <1>4 DEF Consume, Quiet
<1>5. CASE StrandOrder
    BY <1>5 DEF StrandOrder, Strand
<1>6. ASSUME NEW level \in Levels, ServeTooLate(level)
      PROVE  /\ now' \in Nat
             /\ \E score \in 0 .. 100 : Serve("EXPIRED", score, 0)
    <2>1. current \in OrderNumbers /\ orders[current] \in Orders
        BY <1>6, Heads DEF ServeTooLate
    <2>2. CookScore[orders[current].dish, level] \in 0 .. 100
        BY <2>1, KitchenDishes DEF Orders
    <2> QED
        BY <1>6, <2>2 DEF ServeTooLate, Serve
<1>7. ASSUME NEW level \in Levels, NEW t \in {now, now + 1}, ServeInTime(level, t)
      PROVE  /\ now' \in Nat
             /\ \E status \in {"COMPLETED", "FAILED"}, score \in 0 .. 100, s \in Int :
                    Serve(status, score, s)
    <2>1. current \in OrderNumbers /\ orders[current] \in Orders
        BY <1>7, Heads DEF ServeInTime
    <2> DEFINE order == orders[current]
               score == CookScore[order.dish, level]
               s == Satisfaction(score, t - order.created, order.patience)
    <2>2. score \in 0 .. 100
        BY <2>1, KitchenDishes DEF Orders
    <2>3. t - order.created \in Int /\ order.patience \in Nat \ {0}
        <3>1. order.created \in Nat /\ order.patience \in Nat \ {0}
            BY <2>1 DEF Orders
        <3> HIDE DEF order
        <3> QED
            BY ONLY now \in Nat, t \in {now, now + 1}, <3>1
    <2>4. s \in Int
        BY <2>2, <2>3, SatisfactionIsInt
    <2>5. Serve(IF Succeeds(score) THEN "COMPLETED" ELSE "FAILED", score, s)
        BY <1>7 DEF ServeInTime, Serve
    <2> QED
        BY <1>7, <2>2, <2>4, <2>5 DEF ServeInTime
<1>8. ASSUME NEW amount \in Expenses, SpendFunds(amount)
      PROVE  Spending /\ now' \in Nat
    BY <1>8, KitchenExpenses DEF SpendFunds, Spending, orderVars
<1>9. ASSUME NEW i \in Ids, NEW amount \in Amounts, Restock(i, amount)
      PROVE  Quiet /\ now' \in Nat
    BY <1>9 DEF Restock, Quiet
<1>10. CASE Purge \/ ClearAlerts
    BY <1>10 DEF Purge, ClearAlerts, Quiet
<1>11. CASE Tick
    BY <1>11 DEF Tick, Quiet
<1>12. CASE UNCHANGED vars
    BY <1>12 DEF vars, Quiet, orderVars, books
<1>13. CASE Processing
    <2>1. CASE \E level \in Levels : ServeTooLate(level)
        BY <1>6, <2>1 DEF Closed
    <2>2. CASE \E level \in Levels, t \in {now, now + 1} : ServeInTime(level, t)
        <3>1. PICK level \in Levels, t \in {now, now + 1} : ServeInTime(level, t)
            BY <2>2
        <3>2. PICK status \in {"COMPLETED", "FAILED"}, score \in 0 .. 100, s \in Int :
                  Serve(status, score, s)
            BY <1>7, <3>1
        <3>3. status \in Closed /\ status # "EXPIRED"
            BY DEF Closed
        <3> QED
            BY <1>7, <3>1, <3>2, <3>3
    <2> QED
        BY <1>4, <1>5, <1>13, <2>1, <2>2 DEF Processing
<1>14. CASE \E dish \in Dishes, c \in 0 .. now, p \in Patiences : EnqueueOrder(dish, c, p)
    BY <1>1, <1>14
<1>15. CASE \/ \E amount \in Expenses : SpendFunds(amount)
            \/ \E i \in Ids, amount \in Amounts : Restock(i, amount)
    BY <1>8, <1>9, <1>15
<1> QED
    BY <1>2, <1>3, <1>10, <1>11, <1>12, <1>13, <1>14, <1>15 DEF Operation

LEMMA ProductIsPositive ==
    ASSUME NEW a \in Nat \ {0}, NEW b \in Nat \ {0}
    PROVE  a * b \in Nat \ {0}
OBVIOUS

\* An order earns a natural number, and something exactly if it was COMPLETED.
LEMMA EarningSign ==
    ASSUME OrderTypes, NEW o \in OrderNumbers, NEW status \in Closed, NEW score \in 0 .. 100
    PROVE  /\ Earning(o, status, score) \in Nat
           /\ Earning(o, status, score) > 0 <=> status = "COMPLETED"
<1>1. orders[o].dish \in Dishes
    BY Heads DEF Orders
<1>2. Price[orders[o].dish] \in Nat \ {0}
    BY <1>1, KitchenDishes
<1>3. Larger(20, score) \in Nat \ {0}
    BY DEF Larger
<1>4. Earned(orders[o].dish, score) \in Nat \ {0}
    BY <1>2, <1>3, ProductIsPositive DEF Earned
<1> QED
    BY <1>4 DEF Earning

\* What closing an order does to orders and books.
LEMMA Closing ==
    ASSUME OrderTypes, NEW o \in OrderNumbers, NEW status \in Closed,
           NEW score \in 0 .. 100, NEW s \in Int,
           CloseOrder(o, status, score, s)
    PROVE  /\ orders' \in Seq(Orders) /\ Len(orders') = Len(orders)
           /\ orders'[o].status = status /\ orders'[o].satisfaction = s
           /\ orders'[o].created = orders[o].created
           /\ \A p \in OrderNumbers : p # o => orders'[p] = orders[p]
           /\ completedOrders' \in Seq(OrderNumbers)
           /\ Len(completedOrders') = Len(completedOrders) + 1
           /\ completedOrders'[Len(completedOrders) + 1] = o
           /\ \A k \in 1 .. Len(completedOrders) : completedOrders'[k] = completedOrders[k]
           /\ earnedPerOrder' \in Seq(Nat)
           /\ Len(earnedPerOrder') = Len(earnedPerOrder) + 1
           /\ earnedPerOrder'[Len(earnedPerOrder) + 1] > 0 <=> status = "COMPLETED"
           /\ \A k \in 1 .. Len(earnedPerOrder) : earnedPerOrder'[k] = earnedPerOrder[k]
           /\ satisfactionScores' \in Seq(Int)
           /\ Len(satisfactionScores') = Len(satisfactionScores) + 1
           /\ satisfactionScores'[Len(satisfactionScores) + 1] = s
           /\ \A k \in 1 .. Len(satisfactionScores) :
                  satisfactionScores'[k] = satisfactionScores[k]
           /\ totalEarnings' = totalEarnings + Earning(o, status, score)
           /\ totalEarnings' \in Int
           /\ totalOrders' = totalOrders + 1
           /\ totalSatisfaction' \in Int
<1>1. orders' = [orders EXCEPT ![o].status = status, ![o].satisfaction = s]
    BY DEF CloseOrder, Fulfil
<1>2. orders \in Seq(Orders) /\ o \in 1 .. Len(orders) /\ orders[o] \in Orders
    BY Heads DEF OrderTypes, OrderNumbers
<1> DEFINE r == [orders[o] EXCEPT !.status = status, !.satisfaction = s]
<1>a. orders' = [orders EXCEPT ![o] = r]
    BY <1>1, <1>2
<1>b. r \in Orders
    BY <1>2 DEF Orders
<1>c. r.status = status /\ r.satisfaction = s /\ r.created = orders[o].created
    BY <1>2 DEF Orders
<1> HIDE DEF r
<1>d. /\ orders' \in Seq(Orders) /\ Len(orders') = Len(orders)
      /\ \A p \in 1 .. Len(orders) : orders'[p] = IF p = o THEN r ELSE orders[p]
    BY ONLY <1>2, <1>a, <1>b, Replaced
<1>3. /\ orders' \in Seq(Orders) /\ Len(orders') = Len(orders)
      /\ orders'[o].status = status /\ orders'[o].satisfaction = s
      /\ orders'[o].created = orders[o].created
      /\ \A p \in OrderNumbers : p # o => orders'[p] = orders[p]
    BY <1>2, <1>c, <1>d DEF OrderNumbers
<1>4. /\ completedOrders' \in Seq(OrderNumbers)
      /\ Len(completedOrders') = Len(completedOrders) + 1
      /\ completedOrders'[Len(completedOrders) + 1] = o
      /\ \A k \in 1 .. Len(completedOrders) : completedOrders'[k] = completedOrders[k]
    BY AppendProperties DEF CloseOrder, OrderTypes
<1>5. /\ Earning(o, status, score) \in Nat
      /\ Earning(o, status, score) > 0 <=> status = "COMPLETED"
    BY EarningSign
<1>6. earnedPerOrder' = Append(earnedPerOrder, Earning(o, status, score))
    BY DEF CloseOrder, Fulfil
<1>7. /\ earnedPerOrder' \in Seq(Nat)
      /\ Len(earnedPerOrder') = Len(earnedPerOrder) + 1
      /\ earnedPerOrder'[Len(earnedPerOrder) + 1] = Earning(o, status, score)
      /\ \A k \in 1 .. Len(earnedPerOrder) : earnedPerOrder'[k] = earnedPerOrder[k]
    BY <1>5, <1>6, AppendProperties DEF OrderTypes
<1>8. /\ satisfactionScores' \in Seq(Int)
      /\ Len(satisfactionScores') = Len(satisfactionScores) + 1
      /\ satisfactionScores'[Len(satisfactionScores) + 1] = s
      /\ \A k \in 1 .. Len(satisfactionScores) :
             satisfactionScores'[k] = satisfactionScores[k]
    BY AppendProperties DEF CloseOrder, Count, OrderTypes
<1>9. totalEarnings' = totalEarnings + Earning(o, status, score)
    BY DEF CloseOrder, Fulfil
<1>10. totalEarnings' \in Int
    BY <1>5, <1>9 DEF OrderTypes
<1>11. totalOrders' = totalOrders + 1 /\ totalSatisfaction' \in Int
    BY DEF CloseOrder, Count, OrderTypes
<1>12. earnedPerOrder'[Len(earnedPerOrder) + 1] > 0 <=> status = "COMPLETED"
    BY <1>5, <1>7
<1> QED
    BY <1>3, <1>4, <1>7, <1>8, <1>9, <1>10, <1>11, <1>12

\* What the arrival of an order does.
LEMMA Arriving ==
    ASSUME OrderTypes, Arrival
    PROVE  /\ orders' \in Seq(Orders) /\ Len(orders') = Len(orders) + 1
           /\ orders'[Len(orders) + 1].status = "PENDING"
           /\ orders'[Len(orders) + 1].satisfaction = 0
           /\ \A p \in OrderNumbers : orders'[p] = orders[p]
           /\ queue' \in Seq(OrderNumbers') /\ Len(queue') = Len(queue) + 1
           /\ queue'[Len(queue) + 1] = Len(orders) + 1
           /\ \A k \in 1 .. Len(queue) : queue'[k] = queue[k]
           /\ completedOrders' \in Seq(OrderNumbers')
<1>1. PICK r \in Orders : /\ orders' = Append(orders, r)
                          /\ r.status = "PENDING" /\ r.satisfaction = 0
    BY DEF Arrival, Orders
<1>2. /\ orders' \in Seq(Orders) /\ Len(orders') = Len(orders) + 1
      /\ orders'[Len(orders) + 1] = r
      /\ \A p \in OrderNumbers : orders'[p] = orders[p]
    BY <1>1, AppendProperties DEF OrderTypes, OrderNumbers
<1>3. Len(orders) \in Nat
    BY LenProperties DEF OrderTypes
<1>4. OrderNumbers \subseteq OrderNumbers' /\ Len(orders) + 1 \in OrderNumbers'
    BY <1>2, <1>3 DEF OrderNumbers
<1>5. queue \in Seq(OrderNumbers') /\ completedOrders \in Seq(OrderNumbers')
    BY <1>4, SeqMonotonic DEF OrderTypes
<1>6. /\ queue' \in Seq(OrderNumbers') /\ Len(queue') = Len(queue) + 1
      /\ queue'[Len(queue) + 1] = Len(orders) + 1
      /\ \A k \in 1 .. Len(queue) : queue'[k] = queue[k]
    BY <1>4, <1>5, AppendProperties DEF Arrival
<1> QED
    BY <1>1, <1>2, <1>5, <1>6 DEF Arrival, books

\* What taking up an order does.
LEMMA Starting ==
    ASSUME OrderTypes, Start
    PROVE  /\ orders' \in Seq(Orders) /\ Len(orders') = Len(orders)
           /\ Head(queue) \in OrderNumbers
           /\ orders'[Head(queue)].status = "IN_PROGRESS"
           /\ orders'[Head(queue)].satisfaction = orders[Head(queue)].satisfaction
           /\ orders'[Head(queue)].created = orders[Head(queue)].created
           /\ \A p \in OrderNumbers : p # Head(queue) => orders'[p] = orders[p]
<1>1. Head(queue) \in OrderNumbers
    BY Heads DEF Start
<1>2. /\ orders \in Seq(Orders) /\ Head(queue) \in 1 .. Len(orders)
      /\ "IN_PROGRESS" \in Statuses
    BY <1>1 DEF OrderTypes, OrderNumbers, Statuses
<1>3. orders' = [orders EXCEPT ![Head(queue)].status = "IN_PROGRESS"]
    BY DEF Start
<1> QED
    BY <1>1, <1>2, <1>3, Marked DEF OrderNumbers

--------------------------------------------------------------------------------
(* The inductive invariant *)

\* Everything that arrived after the order being processed is still waiting.
LaterWait == current # 0 => \A o \in OrderNumbers : o > current => orders[o].status = "PENDING"

OrderInv == OrderTypes /\ StatusAgrees /\ FirstComeFirstServed /\ LaterWait

\* Of the closing of an order, this is what a reader of the order book sees.
LEMMA OneCloses ==
    ASSUME OrderInv, NEW o \in OrderNumbers, NEW status \in Closed,
           NEW score \in 0 .. 100, NEW s \in Int,
           CloseOrder(o, status, score, s)
    PROVE  /\ Len(orders') = Len(orders) /\ orders'[o].status = status
           /\ \A p \in OrderNumbers : p # o => orders'[p] = orders[p]
           /\ totalEarnings' = totalEarnings + Earning(o, status, score)
<1>1. OrderTypes
    BY DEF OrderInv
<1> QED
    BY ONLY o \in OrderNumbers, status \in Closed, score \in 0 .. 100, s \in Int,
            CloseOrder(o, status, score, s), <1>1, Closing, ZenonT(60)

LEMMA OrderTypesStep == ASSUME OrderTypes, [Operation]_vars PROVE OrderTypes'
<1>1. now' \in Nat
    BY Kinds
<1>2. CASE Arrival
    <2>1. /\ totalEarnings' = totalEarnings /\ earnedPerOrder' = earnedPerOrder
          /\ totalOrders' = totalOrders /\ totalSatisfaction' = totalSatisfaction
          /\ satisfactionScores' = satisfactionScores
        BY <1>2 DEF Arrival, books
    <2>2. current' = current /\ Len(orders) \in Nat /\ Len(orders') = Len(orders) + 1
        BY <1>2, LenProperties, Arriving DEF Arrival, OrderTypes
    <2>3. current' \in 0 .. Len(orders')
        BY <2>2 DEF OrderTypes
    <2> QED
        BY <1>1, <1>2, <2>1, <2>3, Arriving DEF OrderTypes
<1>3. ASSUME NEW o \in OrderNumbers, NEW status \in Closed, NEW score \in 0 .. 100,
             NEW s \in Int, CloseOrder(o, status, score, s), current' = 0,
             queue' \in Seq(OrderNumbers)
      PROVE  OrderTypes'
    <2>1. OrderNumbers' = OrderNumbers /\ Len(orders') \in Nat
        BY <1>3, Closing, LenProperties DEF OrderNumbers
    <2>2. totalOrders' \in Nat
        BY <1>3 DEF CloseOrder, Count, OrderTypes
    <2>3. /\ orders' \in Seq(Orders) /\ completedOrders' \in Seq(OrderNumbers)
          /\ totalEarnings' \in Int /\ earnedPerOrder' \in Seq(Nat)
          /\ totalSatisfaction' \in Int /\ satisfactionScores' \in Seq(Int)
        BY <1>3, Closing
    <2>4. current' \in 0 .. Len(orders')
        BY <1>3, <2>1
    <2> QED
        BY <1>1, <1>3, <2>1, <2>2, <2>3, <2>4 DEF OrderTypes
<1>4. CASE Lapse
    <2>1. /\ Head(queue) \in OrderNumbers /\ queue' \in Seq(OrderNumbers) /\ current' = 0
          /\ CloseOrder(Head(queue), "EXPIRED", 0, 0) /\ "EXPIRED" \in Closed
        BY <1>4, Heads DEF Lapse, Closed
    <2> QED
        BY <1>3, <2>1
<1>5. CASE Start
    <2>1. OrderNumbers' = OrderNumbers
        BY <1>5, Starting DEF OrderNumbers
    <2>2. current' \in 0 .. Len(orders') /\ queue' \in Seq(OrderNumbers)
        BY <1>5, <2>1, Starting, Heads DEF Start, OrderNumbers
    <2> QED
        BY <1>1, <1>5, <2>1, <2>2, Starting DEF OrderTypes, Start, books
<1>6. CASE Strand
    <2>1. OrderNumbers' = OrderNumbers /\ Len(orders) \in Nat
        BY <1>6, LenProperties DEF Strand, OrderNumbers, OrderTypes
    <2> QED
        BY <1>1, <1>6, <2>1 DEF Strand, OrderTypes, books
<1>7. ASSUME NEW status \in Closed, NEW score \in 0 .. 100, NEW s \in Int,
             Serve(status, score, s)
      PROVE  OrderTypes'
    BY <1>3, <1>7, Heads DEF Serve, OrderTypes
<1>8. CASE Spending
    <2>1. OrderNumbers' = OrderNumbers
        BY <1>8 DEF Spending, orderVars, OrderNumbers
    <2> QED
        BY <1>1, <1>8, <2>1 DEF Spending, orderVars, OrderTypes
<1>9. CASE Quiet
    <2>1. OrderNumbers' = OrderNumbers
        BY <1>9 DEF Quiet, orderVars, OrderNumbers
    <2> QED
        BY <1>1, <1>9, <2>1 DEF Quiet, orderVars, books, OrderTypes
<1> QED
    BY <1>2, <1>4, <1>5, <1>6, <1>7, <1>8, <1>9, Kinds

\* The queue after pollFirst.
LEMMA Polling ==
    ASSUME OrderInv, queue # <<>>, queue' = Tail(queue)
    PROVE  /\ Increasing(queue')
           /\ \A o \in OrderNumbers : Listed(o, queue') <=> Listed(o, queue) /\ o # Head(queue)
           /\ \A k \in DOMAIN queue' : /\ queue'[k] > Head(queue)
                                       /\ \E j \in DOMAIN queue : queue'[k] = queue[j]
<1>1. /\ Head(queue) = queue[1] /\ queue' \in Seq(OrderNumbers)
      /\ Len(queue') = Len(queue) - 1
      /\ \A k \in 1 .. Len(queue) - 1 : queue'[k] = queue[k + 1]
    BY Heads DEF OrderInv
<1>2. /\ DOMAIN queue = 1 .. Len(queue) /\ DOMAIN queue' = 1 .. Len(queue) - 1
      /\ Len(queue) \in Nat /\ Len(queue) > 0
    BY <1>1, LenProperties, EmptySeq DEF OrderInv, OrderTypes
<1>3. \A j, k \in 1 .. Len(queue) : j < k => queue[j] < queue[k]
    BY <1>2 DEF OrderInv, FirstComeFirstServed, Increasing
<1>4. Increasing(queue')
    BY <1>1, <1>2, <1>3 DEF Increasing
<1>5. \A k \in DOMAIN queue' : queue'[k] = queue[k + 1] /\ queue[1] < queue[k + 1]
    BY <1>1, <1>2, <1>3
<1>6. ASSUME NEW o \in OrderNumbers
      PROVE  Listed(o, queue') <=> Listed(o, queue) /\ o # Head(queue)
    <2>1. ASSUME NEW k \in DOMAIN queue', queue'[k] = o
          PROVE  Listed(o, queue) /\ o # Head(queue)
        <3>1. k + 1 \in DOMAIN queue /\ queue[k + 1] = o /\ queue[1] < o
            BY <1>2, <1>5, <2>1
        <3> QED
            BY <1>1, <3>1 DEF Listed, OrderNumbers
    <2>2. ASSUME NEW k \in DOMAIN queue, queue[k] = o, o # Head(queue)
          PROVE  Listed(o, queue')
        <3>1. k # 1
            BY <1>1, <2>2
        <3>2. k - 1 \in DOMAIN queue' /\ queue'[k - 1] = o
            BY <1>1, <1>2, <2>2, <3>1
        <3> QED
            BY <3>2 DEF Listed
    <2> QED
        BY <2>1, <2>2 DEF Listed
<1>7. ASSUME NEW k \in DOMAIN queue'
      PROVE  queue'[k] > Head(queue) /\ \E j \in DOMAIN queue : queue'[k] = queue[j]
    <2>1. k + 1 \in DOMAIN queue /\ queue'[k] \in OrderNumbers /\ queue[1] \in OrderNumbers
        BY <1>1, <1>2, ElementOfSeq DEF OrderInv, OrderTypes
    <2> QED
        BY <1>1, <1>5, <2>1 DEF OrderNumbers
<1> QED
    BY <1>4, <1>6, <1>7

\* The completed orders after one more was added.
LEMMA Booking ==
    ASSUME OrderInv, NEW o \in OrderNumbers, NEW status \in Closed,
           NEW score \in 0 .. 100, NEW s \in Int,
           CloseOrder(o, status, score, s),
           \A p \in OrderNumbers : p > o => orders[p].status \notin Closed,
           orders[o].status \notin Closed
    PROVE  /\ Increasing(completedOrders')
           /\ \A p \in OrderNumbers :
                  Listed(p, completedOrders') <=> Listed(p, completedOrders) \/ p = o
<1> DEFINE n == Len(completedOrders)
<1>1. /\ n \in Nat /\ DOMAIN completedOrders = 1 .. n
      /\ \A k \in 1 .. n : completedOrders[k] \in OrderNumbers
    BY LenProperties, ElementOfSeq DEF OrderInv, OrderTypes
<1>2. /\ completedOrders' \in Seq(OrderNumbers) /\ Len(completedOrders') = n + 1
      /\ completedOrders'[n + 1] = o
      /\ \A k \in 1 .. n : completedOrders'[k] = completedOrders[k]
    BY Closing DEF OrderInv
<1>3. DOMAIN completedOrders' = 1 .. n + 1
    BY <1>2, LenProperties
<1>4. ASSUME NEW k \in 1 .. n PROVE completedOrders[k] < o
    <2>1. orders[completedOrders[k]].status \in Closed
        BY <1>1 DEF OrderInv, StatusAgrees, Listed
    <2>2. completedOrders[k] \in Int /\ o \in Int
        BY <1>1 DEF OrderNumbers
    <2> QED
        BY <1>1, <2>1, <2>2
<1>5. \A j, k \in 1 .. n : j < k => completedOrders[j] < completedOrders[k]
    BY <1>1 DEF OrderInv, FirstComeFirstServed, Increasing
<1> HIDE DEF n
<1>6. Increasing(completedOrders')
    BY <1>1, <1>2, <1>3, <1>4, <1>5 DEF Increasing
<1>7. ASSUME NEW p \in OrderNumbers
      PROVE  Listed(p, completedOrders') <=> Listed(p, completedOrders) \/ p = o
    <2>1. Listed(p, completedOrders) => Listed(p, completedOrders')
        BY <1>1, <1>2, <1>3 DEF Listed
    <2>2. p = o => Listed(p, completedOrders')
        BY <1>1, <1>2, <1>3 DEF Listed
    <2>3. ASSUME NEW k \in 1 .. n + 1, completedOrders'[k] = p
          PROVE  Listed(p, completedOrders) \/ p = o
        BY <1>1, <1>2, <2>3 DEF Listed
    <2> QED
        BY <1>3, <2>1, <2>2, <2>3 DEF Listed
<1> QED
    BY <1>6, <1>7

\* Closing the order that is taken from the queue or being processed: what remains to
\* be said is that the queue holds the orders waiting, all of them after o.
LEMMA ClosingStep ==
    ASSUME OrderInv, NEW o \in OrderNumbers, NEW status \in Closed,
           NEW score \in 0 .. 100, NEW s \in Int,
           CloseOrder(o, status, score, s), current' = 0, queue' \in Seq(OrderNumbers),
           \A p \in OrderNumbers : p > o => orders[p].status = "PENDING",
           orders[o].status \notin Closed,
           Increasing(queue'),
           \A p \in OrderNumbers : Listed(p, queue') <=> Listed(p, queue) /\ p # o,
           \A k \in DOMAIN queue' : \E j \in DOMAIN queue : queue'[k] = queue[j],
           \A k \in DOMAIN queue' : queue'[k] > o
    PROVE  (StatusAgrees /\ FirstComeFirstServed /\ LaterWait)'
<1>1. /\ Increasing(completedOrders')
      /\ \A p \in OrderNumbers :
             Listed(p, completedOrders') <=> Listed(p, completedOrders) \/ p = o
    BY Booking DEF Closed
<1>2. /\ Len(orders') = Len(orders) /\ orders'[o].status = status
      /\ \A p \in OrderNumbers : p # o => orders'[p] = orders[p]
    BY OneCloses
<1>3. OrderNumbers' = OrderNumbers
    BY <1>2 DEF OrderNumbers
<1>4. ASSUME NEW p \in OrderNumbers
      PROVE  /\ orders'[p].status = "PENDING" <=> Listed(p, queue')
             /\ orders'[p].status \in Closed <=> Listed(p, completedOrders')
    <2>1. CASE p = o
        BY <1>1, <1>2, <2>1 DEF Closed
    <2>2. CASE p # o
        BY <1>1, <1>2, <2>2 DEF OrderInv, StatusAgrees
    <2> QED
        BY <2>1, <2>2
<1>5. ASSUME NEW k \in DOMAIN queue', NEW p \in OrderNumbers, p >= queue'[k]
      PROVE  orders'[p].status = "PENDING"
    <2>1. PICK j \in DOMAIN queue : queue'[k] = queue[j]
        OBVIOUS
    <2>2. orders[p].status = "PENDING"
        BY <1>5, <2>1 DEF OrderInv, FirstComeFirstServed
    <2>3. queue'[k] \in Int /\ o \in Int /\ p \in Int
        BY LenProperties, ElementOfSeq DEF OrderNumbers
    <2>4. p # o
        BY <1>5, <2>3
    <2> QED
        BY <1>2, <2>2, <2>4
<1> QED
    BY <1>1, <1>3, <1>4, <1>5 DEF StatusAgrees, FirstComeFirstServed, LaterWait

LEMMA LapseStep == ASSUME OrderInv, Lapse PROVE (StatusAgrees /\ FirstComeFirstServed /\ LaterWait)'
<1> DEFINE h == Head(queue)
<1>1. /\ h \in OrderNumbers /\ h = queue[1] /\ queue' \in Seq(OrderNumbers)
      /\ 1 \in DOMAIN queue
    BY Heads, LenProperties, EmptySeq DEF Lapse, OrderInv, OrderTypes
<1>2. \A p \in OrderNumbers : p >= h => orders[p].status = "PENDING"
    BY <1>1 DEF OrderInv, FirstComeFirstServed
<1>3. orders[h].status \notin Closed /\ \A p \in OrderNumbers : p > h => p >= h
    BY <1>1, <1>2 DEF Closed, OrderNumbers
<1>4. "EXPIRED" \in Closed
    BY DEF Closed
<1>5. /\ Increasing(queue')
      /\ \A p \in OrderNumbers : Listed(p, queue') <=> Listed(p, queue) /\ p # h
      /\ \A k \in DOMAIN queue' : /\ queue'[k] > h
                                  /\ \E j \in DOMAIN queue : queue'[k] = queue[j]
    BY Polling DEF Lapse
<1>6. \A p \in OrderNumbers : p > h => orders[p].status = "PENDING"
    BY <1>2, <1>3
<1>7. CloseOrder(h, "EXPIRED", 0, 0) /\ current' = 0 /\ 0 \in 0 .. 100 /\ 0 \in Int
    BY DEF Lapse
<1> HIDE DEF h
<1> QED
    BY <1>1, <1>3, <1>4, <1>5, <1>6, <1>7, ClosingStep

LEMMA ServeStep ==
    ASSUME OrderInv, NEW status \in Closed, NEW score \in 0 .. 100, NEW s \in Int,
           Serve(status, score, s)
    PROVE  (StatusAgrees /\ FirstComeFirstServed /\ LaterWait)'
<1>1. current \in OrderNumbers /\ orders[current].status = "IN_PROGRESS"
    BY Heads DEF Serve, OrderInv, StatusAgrees
<1>2. orders[current].status \notin Closed /\ ~Listed(current, queue)
    BY <1>1 DEF Closed, OrderInv, StatusAgrees
<1>3. \A p \in OrderNumbers : p > current => orders[p].status = "PENDING"
    BY <1>1 DEF Serve, OrderInv, LaterWait
<1>4. ASSUME NEW k \in DOMAIN queue PROVE queue[k] > current
    <2>1. queue[k] \in OrderNumbers
        BY LenProperties, ElementOfSeq DEF OrderInv, OrderTypes
    <2>2. queue[k] \in Int /\ current \in Int
        BY <1>1, <2>1 DEF OrderNumbers
    <2>3. current >= queue[k] => orders[current].status = "PENDING"
        BY <1>1 DEF OrderInv, FirstComeFirstServed
    <2> QED
        BY <1>1, <2>2, <2>3
<1>5. queue' = queue /\ queue \in Seq(OrderNumbers) /\ Increasing(queue)
    BY DEF Serve, OrderInv, OrderTypes, FirstComeFirstServed
<1>6. \A p \in OrderNumbers : Listed(p, queue') <=> Listed(p, queue) /\ p # current
    BY <1>2, <1>5
<1> QED
    BY <1>1, <1>2, <1>3, <1>4, <1>5, <1>6, ClosingStep DEF Serve

LEMMA StartStep == ASSUME OrderInv, Start PROVE (StatusAgrees /\ FirstComeFirstServed /\ LaterWait)'
<1> DEFINE h == Head(queue)
<1>1. /\ h \in OrderNumbers /\ h = queue[1] /\ 1 \in DOMAIN queue
      /\ queue' \in Seq(OrderNumbers)
    BY Heads, LenProperties, EmptySeq DEF Start, OrderInv, OrderTypes
<1>2. \A p \in OrderNumbers : p >= h => orders[p].status = "PENDING"
    BY <1>1 DEF OrderInv, FirstComeFirstServed
<1>3. /\ Len(orders') = Len(orders) /\ orders'[h].status = "IN_PROGRESS"
      /\ \A p \in OrderNumbers : p # h => orders'[p] = orders[p]
    BY Starting DEF OrderInv
<1>4. OrderNumbers' = OrderNumbers /\ completedOrders' = completedOrders /\ current' = h
    BY <1>3 DEF OrderNumbers, Start, books
<1>5. /\ Increasing(queue')
      /\ \A p \in OrderNumbers : Listed(p, queue') <=> Listed(p, queue) /\ p # h
      /\ \A k \in DOMAIN queue' : /\ queue'[k] > h
                                  /\ \E j \in DOMAIN queue : queue'[k] = queue[j]
    BY Polling DEF Start
<1>6. ~Listed(h, completedOrders)
    BY <1>1, <1>2 DEF OrderInv, StatusAgrees, Closed, OrderNumbers
<1>7. ASSUME NEW p \in OrderNumbers
      PROVE  /\ orders'[p].status = "PENDING" <=> Listed(p, queue')
             /\ orders'[p].status \in Closed <=> Listed(p, completedOrders')
    <2>1. CASE p = h
        BY <1>3, <1>4, <1>5, <1>6, <2>1 DEF Closed
    <2>2. CASE p # h
        BY <1>3, <1>4, <1>5, <2>2 DEF OrderInv, StatusAgrees
    <2> QED
        BY <2>1, <2>2
<1>8. ASSUME NEW k \in DOMAIN queue', NEW p \in OrderNumbers, p >= queue'[k]
      PROVE  orders'[p].status = "PENDING"
    <2>1. PICK j \in DOMAIN queue : queue'[k] = queue[j]
        BY <1>5
    <2>2. orders[p].status = "PENDING"
        BY <1>8, <2>1 DEF OrderInv, FirstComeFirstServed
    <2>3. queue'[k] \in Int /\ h \in Int /\ p \in Int
        BY <1>1, LenProperties, ElementOfSeq DEF OrderNumbers
    <2>4. p # h
        BY <1>5, <1>8, <2>3
    <2> QED
        BY <1>3, <2>2, <2>4
<1>9. ASSUME NEW p \in OrderNumbers, p > h PROVE orders'[p].status = "PENDING"
    <2>1. p # h /\ p >= h
        BY <1>1, <1>9 DEF OrderNumbers
    <2> QED
        BY <1>2, <1>3, <2>1
<1>10. StatusAgrees'
    BY <1>3, <1>4, <1>7 DEF StatusAgrees
<1>11. Increasing(completedOrders')
    BY <1>4 DEF OrderInv, FirstComeFirstServed
<1>12. FirstComeFirstServed'
    BY <1>4, <1>5, <1>8, <1>11 DEF FirstComeFirstServed
<1>13. LaterWait'
    BY <1>4, <1>9 DEF LaterWait
<1> QED
    BY <1>10, <1>12, <1>13

LEMMA ArrivalStep ==
    ASSUME OrderInv, Arrival PROVE (StatusAgrees /\ FirstComeFirstServed /\ LaterWait)'
<1> DEFINE n == Len(orders)
           m == Len(queue)
<1>1. /\ Len(orders') = n + 1
      /\ orders'[n + 1].status = "PENDING"
      /\ \A p \in OrderNumbers : orders'[p] = orders[p]
      /\ queue' \in Seq(OrderNumbers') /\ Len(queue') = m + 1
      /\ queue'[m + 1] = n + 1
      /\ \A k \in 1 .. m : queue'[k] = queue[k]
    BY Arriving DEF OrderInv
<1>2. /\ n \in Nat /\ m \in Nat
      /\ OrderNumbers = 1 .. n /\ OrderNumbers' = 1 .. n + 1
      /\ DOMAIN queue = 1 .. m /\ DOMAIN queue' = 1 .. m + 1
    BY <1>1, LenProperties DEF OrderInv, OrderTypes, OrderNumbers
<1>3. /\ \A k \in 1 .. m : queue[k] \in 1 .. n
      /\ \A k \in DOMAIN completedOrders : completedOrders[k] \in 1 .. n
    BY <1>2, LenProperties, ElementOfSeq DEF OrderInv, OrderTypes
<1>4. completedOrders' = completedOrders /\ current' = current /\ current = 0
    BY DEF Arrival, books, Idle
<1>5. \A j, k \in 1 .. m : j < k => queue[j] < queue[k]
    BY <1>2 DEF OrderInv, FirstComeFirstServed, Increasing
<1>6. Increasing(completedOrders')
    BY <1>4 DEF OrderInv, FirstComeFirstServed
<1>7. \A p \in 1 .. n : Listed(p, queue) => Listed(p, queue')
    BY <1>1, <1>2 DEF Listed
<1>8. ASSUME NEW p \in 1 .. n, Listed(p, queue') PROVE Listed(p, queue)
    <2>1. PICK k \in 1 .. m + 1 : queue'[k] = p
        BY <1>2, <1>8 DEF Listed
    <2>2. k \in 1 .. m
        BY <1>1, <1>2, <2>1
    <2> QED
        BY <1>1, <1>2, <2>1, <2>2 DEF Listed
<1>9. Listed(n + 1, queue') /\ ~Listed(n + 1, completedOrders')
    BY <1>1, <1>2, <1>3, <1>4 DEF Listed
<1>10. ASSUME NEW p \in 1 .. n + 1
       PROVE  /\ orders'[p].status = "PENDING" <=> Listed(p, queue')
              /\ orders'[p].status \in Closed <=> Listed(p, completedOrders')
    <2>1. CASE p = n + 1
        BY <1>1, <1>9, <2>1 DEF Closed
    <2>2. CASE p \in 1 .. n
        BY <1>1, <1>2, <1>4, <1>7, <1>8, <2>2 DEF OrderInv, StatusAgrees
    <2> QED
        BY <1>2, <2>1, <2>2
<1>11. StatusAgrees'
    BY <1>2, <1>4, <1>10 DEF StatusAgrees
<1>12. ASSUME NEW j \in 1 .. m + 1, NEW k \in 1 .. m + 1, j < k
       PROVE  queue'[j] < queue'[k]
    <2>1. j \in 1 .. m
        BY <1>2, <1>12
    <2>2. CASE k = m + 1
        BY <1>1, <1>2, <1>3, <2>1, <2>2
    <2>3. CASE k \in 1 .. m
        BY <1>1, <1>5, <1>12, <2>1, <2>3
    <2> QED
        BY <1>2, <2>2, <2>3
<1>13. Increasing(queue')
    BY <1>2, <1>12 DEF Increasing
<1>14. ASSUME NEW k \in 1 .. m + 1, NEW p \in 1 .. n + 1, p >= queue'[k]
       PROVE  orders'[p].status = "PENDING"
    <2>1. CASE p = n + 1
        BY <1>1, <2>1
    <2>2. CASE p \in 1 .. n
        <3>1. k \in 1 .. m
            BY <1>1, <1>2, <1>14, <2>2
        <3>2. queue'[k] = queue[k]
            BY <1>1, <3>1
        <3>3. orders[p].status = "PENDING"
            BY <1>2, <1>14, <2>2, <3>1, <3>2 DEF OrderInv, FirstComeFirstServed
        <3> QED
            BY <1>1, <1>2, <2>2, <3>3
    <2> QED
        BY <1>2, <2>1, <2>2
<1>15. FirstComeFirstServed'
    BY <1>2, <1>6, <1>13, <1>14 DEF FirstComeFirstServed
<1>16. LaterWait'
    BY <1>4 DEF LaterWait
<1> QED
    BY <1>11, <1>15, <1>16

LEMMA OrderInvStep == OrderInv /\ [Operation]_vars => OrderInv'
<1> SUFFICES ASSUME OrderInv, [Operation]_vars PROVE OrderInv'
    OBVIOUS
<1>1. OrderTypes'
    BY OrderTypesStep DEF OrderInv
<1>2. CASE Strand
    <2>1. /\ orders' = orders /\ queue' = queue /\ completedOrders' = completedOrders
          /\ current' = 0 /\ OrderNumbers' = OrderNumbers
        BY <1>2 DEF Strand, books, OrderNumbers
    <2>2. StatusAgrees' /\ FirstComeFirstServed' /\ LaterWait'
        BY <2>1 DEF OrderInv, StatusAgrees, FirstComeFirstServed, LaterWait
    <2> QED
        BY <1>1, <2>2 DEF OrderInv
<1>3. CASE Spending \/ Quiet
    <2>1. /\ orders' = orders /\ queue' = queue /\ completedOrders' = completedOrders
          /\ current' = current /\ OrderNumbers' = OrderNumbers
        BY <1>3 DEF Spending, Quiet, orderVars, books, OrderNumbers
    <2>2. StatusAgrees' /\ FirstComeFirstServed' /\ LaterWait'
        BY <2>1 DEF OrderInv, StatusAgrees, FirstComeFirstServed, LaterWait
    <2> QED
        BY <1>1, <2>2 DEF OrderInv
<1>4. CASE Arrival
    BY <1>1, <1>4, ArrivalStep DEF OrderInv
<1>5. CASE Lapse
    BY <1>1, <1>5, LapseStep DEF OrderInv
<1>6. CASE Start
    BY <1>1, <1>6, StartStep DEF OrderInv
<1>7. ASSUME NEW status \in Closed, NEW score \in 0 .. 100, NEW s \in Int,
             Serve(status, score, s)
      PROVE  OrderInv'
    BY <1>1, <1>7, ServeStep DEF OrderInv
<1> QED
    BY <1>2, <1>3, <1>4, <1>5, <1>6, <1>7, Kinds DEF OrderInv

LEMMA OrderInvInit == Init => OrderInv
<1> SUFFICES ASSUME Init PROVE OrderInv
    OBVIOUS
<1>1. /\ orders = <<>> /\ queue = <<>> /\ completedOrders = <<>> /\ current = 0
      /\ earnedPerOrder = <<>> /\ satisfactionScores = <<>>
      /\ totalEarnings = 0 /\ totalOrders = 0 /\ totalSatisfaction = 0 /\ now = 0
    BY DEF Init
<1>2. Len(orders) = 0 /\ OrderNumbers = {}
    BY <1>1 DEF OrderNumbers
<1>3. OrderTypes
    BY <1>1, <1>2, EmptySeq DEF OrderTypes
<1> QED
    BY <1>1, <1>2, <1>3 DEF OrderInv, StatusAgrees, FirstComeFirstServed, LaterWait, Increasing

\* Status and lists agree: an order is PENDING exactly while it is queued and closed
\* exactly when it is among the completed ones, through every branch and exception.
THEOREM StatusesAgree == Spec => []StatusAgrees
<1>1. OrderInv => StatusAgrees
    BY DEF OrderInv
<1> QED
    BY <1>1, OrderInvInit, OrderInvStep, NextIsOperation, PTL DEF Spec

\* Orders are taken up and closed in the order in which they came.
THEOREM FirstComersServedFirst == Spec => []FirstComeFirstServed
<1>1. OrderInv => FirstComeFirstServed
    BY DEF OrderInv
<1> QED
    BY <1>1, OrderInvInit, OrderInvStep, NextIsOperation, PTL DEF Spec

--------------------------------------------------------------------------------
(* The books *)

LEMMA LedgersKept ==
    ASSUME OrderInv, LedgersAligned,
           completedOrders' = completedOrders, earnedPerOrder' = earnedPerOrder,
           satisfactionScores' = satisfactionScores, totalOrders' = totalOrders,
           \A k \in DOMAIN completedOrders :
               orders'[completedOrders[k]] = orders[completedOrders[k]]
    PROVE  LedgersAligned'
BY DEF LedgersAligned

LEMMA LedgersClosing ==
    ASSUME OrderInv, LedgersAligned, NEW o \in OrderNumbers, NEW status \in Closed,
           NEW score \in 0 .. 100, NEW s \in Int,
           CloseOrder(o, status, score, s),
           orders[o].status \notin Closed
    PROVE  LedgersAligned'
<1> DEFINE n == Len(completedOrders)
<1>1. /\ n \in Nat /\ DOMAIN completedOrders = 1 .. n
      /\ \A k \in 1 .. n : completedOrders[k] \in OrderNumbers
    BY LenProperties, ElementOfSeq DEF OrderInv, OrderTypes
<1>2. Len(earnedPerOrder) = n /\ Len(satisfactionScores) = n /\ totalOrders = n
    BY DEF LedgersAligned
<1>3. /\ completedOrders' \in Seq(OrderNumbers) /\ Len(completedOrders') = n + 1
      /\ completedOrders'[n + 1] = o
      /\ \A k \in 1 .. n : completedOrders'[k] = completedOrders[k]
    BY Closing DEF OrderInv
<1>4. /\ Len(earnedPerOrder') = n + 1
      /\ earnedPerOrder'[n + 1] > 0 <=> status = "COMPLETED"
      /\ \A k \in 1 .. n : earnedPerOrder'[k] = earnedPerOrder[k]
    BY <1>2, Closing DEF OrderInv
<1>5. /\ Len(satisfactionScores') = n + 1
      /\ satisfactionScores'[n + 1] = s
      /\ \A k \in 1 .. n : satisfactionScores'[k] = satisfactionScores[k]
    BY <1>2, Closing DEF OrderInv
<1>6. /\ orders'[o].status = status /\ orders'[o].satisfaction = s
      /\ \A p \in OrderNumbers : p # o => orders'[p] = orders[p]
    BY Closing DEF OrderInv
<1>7. totalOrders' = n + 1
    BY <1>2 DEF CloseOrder, Count
<1>8. DOMAIN completedOrders' = 1 .. n + 1
    BY <1>3, LenProperties
<1>9. ASSUME NEW k \in 1 .. n PROVE orders'[completedOrders[k]] = orders[completedOrders[k]]
    <2>1. orders[completedOrders[k]].status \in Closed
        BY <1>1 DEF OrderInv, StatusAgrees, Listed
    <2> QED
        BY <1>1, <1>6, <2>1
<1>10. ASSUME NEW k \in 1 .. n + 1
       PROVE  /\ earnedPerOrder'[k] > 0 <=> orders'[completedOrders'[k]].status = "COMPLETED"
              /\ satisfactionScores'[k] = orders'[completedOrders'[k]].satisfaction
    <2>1. CASE k = n + 1
        BY <1>3, <1>4, <1>5, <1>6, <2>1
    <2>2. CASE k \in 1 .. n
        <3>1. /\ earnedPerOrder[k] > 0 <=> orders[completedOrders[k]].status = "COMPLETED"
              /\ satisfactionScores[k] = orders[completedOrders[k]].satisfaction
            BY <1>1, <2>2 DEF LedgersAligned
        <3> QED
            BY <1>3, <1>4, <1>5, <1>9, <2>2, <3>1
    <2> QED
        BY <1>1, <2>1, <2>2
<1> HIDE DEF n
<1> QED
    BY <1>3, <1>4, <1>5, <1>7, <1>8, <1>10 DEF LedgersAligned

LEMMA LedgersStep == OrderInv /\ LedgersAligned /\ [Operation]_vars => LedgersAligned'
<1> SUFFICES ASSUME OrderInv, LedgersAligned, [Operation]_vars PROVE LedgersAligned'
    OBVIOUS
<1>1. \A k \in DOMAIN completedOrders :
          /\ completedOrders[k] \in OrderNumbers
          /\ orders[completedOrders[k]].status \in Closed
    <2>1. \A k \in DOMAIN completedOrders : completedOrders[k] \in OrderNumbers
        BY LenProperties, ElementOfSeq DEF OrderInv, OrderTypes
    <2> QED
        BY <2>1 DEF OrderInv, StatusAgrees, Listed
<1>2. CASE Arrival
    <2>1. \A p \in OrderNumbers : orders'[p] = orders[p]
        BY <1>2, Arriving DEF OrderInv
    <2> QED
        BY <1>1, <1>2, <2>1, LedgersKept DEF Arrival, books
<1>3. CASE Lapse
    <2>1. Head(queue) \in OrderNumbers /\ Head(queue) = queue[1] /\ 1 \in DOMAIN queue
        BY <1>3, Heads, LenProperties, EmptySeq DEF Lapse, OrderInv, OrderTypes
    <2>2. orders[Head(queue)].status = "PENDING"
        BY <2>1 DEF OrderInv, StatusAgrees, Listed
    <2>3. CloseOrder(Head(queue), "EXPIRED", 0, 0) /\ "EXPIRED" \in Closed /\ "PENDING" \notin Closed
        BY <1>3 DEF Lapse, Closed
    <2> QED
        BY <2>1, <2>2, <2>3, LedgersClosing
<1>4. CASE Start
    <2>1. Head(queue) \in OrderNumbers /\ Head(queue) = queue[1] /\ 1 \in DOMAIN queue
        BY <1>4, Heads, LenProperties, EmptySeq DEF Start, OrderInv, OrderTypes
    <2>2. orders[Head(queue)].status = "PENDING"
        BY <2>1 DEF OrderInv, StatusAgrees, Listed
    <2>3. \A k \in DOMAIN completedOrders : completedOrders[k] # Head(queue)
        BY <1>1, <2>2 DEF Closed
    <2>4. \A k \in DOMAIN completedOrders :
              orders'[completedOrders[k]] = orders[completedOrders[k]]
        BY <1>1, <1>4, <2>3, Starting DEF OrderInv
    <2> QED
        BY <1>4, <2>4, LedgersKept DEF Start, books
<1>5. CASE Strand \/ Spending \/ Quiet
    BY <1>5, LedgersKept DEF Strand, Spending, Quiet, orderVars, books
<1>6. ASSUME NEW status \in Closed, NEW score \in 0 .. 100, NEW s \in Int,
             Serve(status, score, s)
      PROVE  LedgersAligned'
    <2>1. current \in OrderNumbers /\ orders[current].status = "IN_PROGRESS"
        BY <1>6, Heads DEF Serve, OrderInv, StatusAgrees
    <2>2. orders[current].status \notin Closed
        BY <2>1 DEF Closed
    <2> QED
        BY <1>6, <2>1, <2>2, LedgersClosing DEF Serve
<1> QED
    BY <1>2, <1>3, <1>4, <1>5, <1>6, Kinds DEF OrderInv

\* The entries of the earnings, of the satisfaction scores and of the completed orders
\* at one position are about the same order, and that order earned something exactly
\* if it was COMPLETED.
THEOREM LedgersStayAligned == Spec => []LedgersAligned
<1>1. Init => LedgersAligned
    <2> SUFFICES ASSUME Init PROVE LedgersAligned
        OBVIOUS
    <2>1. Len(earnedPerOrder) = 0 /\ Len(satisfactionScores) = 0 /\ Len(completedOrders) = 0
        BY DEF Init
    <2>2. completedOrders = <<>> /\ totalOrders = 0
        BY DEF Init
    <2> QED
        BY <2>1, <2>2 DEF LedgersAligned
<1> QED
    BY <1>1, OrderInvInit, OrderInvStep, LedgersStep, NextIsOperation, PTL DEF Spec

--------------------------------------------------------------------------------
(* The kitchen implements the life cycle of orders *)

\* The state function that stands for OrderLifecycle.fate.
Fates == [o \in OrderNumbers |-> Fate(o)]

\* A fate by cases, now and after a step.
LEMMA FateCases ==
    ASSUME NEW o \in OrderNumbers
    PROVE  /\ orders[o].status = "PENDING" => Fate(o) = "waiting"
           /\ orders[o].status = "IN_PROGRESS" /\ o = current => Fate(o) = "cooking"
           /\ orders[o].status = "IN_PROGRESS" /\ o # current => Fate(o) = "lost"
           /\ orders[o].status \in Closed => Fate(o) = orders[o].status
BY DEF Fate, Closed

LEMMA FateCasesNext ==
    ASSUME NEW o \in OrderNumbers'
    PROVE  /\ orders'[o].status = "PENDING" => Fate(o)' = "waiting"
           /\ orders'[o].status = "IN_PROGRESS" /\ o = current' => Fate(o)' = "cooking"
           /\ orders'[o].status = "IN_PROGRESS" /\ o # current' => Fate(o)' = "lost"
           /\ orders'[o].status \in Closed => Fate(o)' = orders'[o].status
BY DEF Fate, Closed

\* An order keeps its fate in a step that neither changes it nor takes it up or closes it.
LEMMA FateKept ==
    ASSUME NEW o \in OrderNumbers, orders'[o] = orders[o],
           o = current <=> o = current'
    PROVE  Fate(o)' = Fate(o)
BY DEF Fate

\* The head of the queue is next in line.
LEMMA HeadIsNext ==
    ASSUME OrderInv, current = 0, queue # <<>>
    PROVE  Head(queue) \in OrderNumbers /\ Lifecycle!NextInLine(Head(queue))
<1> DEFINE h == Head(queue)
<1>1. h \in OrderNumbers /\ h = queue[1] /\ 1 \in DOMAIN queue
    BY Heads, LenProperties, EmptySeq DEF OrderInv, OrderTypes
<1>2. Fate(h) = "waiting"
    BY <1>1, FateCases DEF OrderInv, StatusAgrees, Listed
<1>3. ASSUME NEW p \in OrderNumbers
      PROVE  Fate(p) # "cooking" /\ (Fate(p) = "waiting" => h <= p)
    <2>1. p # current
        BY DEF OrderNumbers
    <2>2. orders[p].status \in Statuses
        BY Heads DEF OrderInv, Orders, Statuses
    <2>3. Fate(p) # "cooking"
        BY <2>1, <2>2, FateCases DEF Statuses, Closed
    <2>4. ASSUME Fate(p) = "waiting" PROVE h <= p
        <3>1. orders[p].status = "PENDING"
            BY <2>1, <2>2, <2>4, FateCases DEF Statuses, Closed
        <3>2. PICK k \in DOMAIN queue : queue[k] = p
            BY <3>1 DEF OrderInv, StatusAgrees, Listed
        <3>3. k = 1 \/ 1 < k
            BY <3>2, LenProperties DEF OrderInv, OrderTypes
        <3>4. k = 1 \/ queue[1] < queue[k]
            BY <1>1, <3>2, <3>3 DEF OrderInv, FirstComeFirstServed, Increasing
        <3>5. h \in Int /\ p \in Int
            BY <1>1 DEF OrderNumbers
        <3> QED
            BY <1>1, <3>2, <3>4, <3>5
    <2> QED
        BY <2>3, <2>4
<1> QED
    BY <1>1, <1>2, <1>3 DEF Lifecycle!NextInLine

\* The fates after the fate of one order changed.
LEMMA FateChanged ==
    ASSUME NEW o \in OrderNumbers, NEW f, OrderNumbers' = OrderNumbers,
           \A p \in OrderNumbers : p # o => orders'[p] = orders[p],
           \A p \in OrderNumbers : p # o => p # current /\ p # current',
           Fate(o)' = f
    PROVE  Fates' = [Fates EXCEPT ![o] = f]
<1>1. \A p \in OrderNumbers : p # o => Fate(p)' = Fate(p)
    BY FateKept
<1> QED
    BY <1>1 DEF Fates

LEMMA ArrivalArrives == ASSUME OrderInv, Arrival PROVE Lifecycle!Arrive
<1>0. PICK n \in Nat : n = Len(orders)
    BY LenProperties DEF OrderInv, OrderTypes
<1> DEFINE F == {Fate(o) : o \in OrderNumbers} \cup {"waiting"}
<1>1. /\ n \in Nat /\ OrderNumbers = 1 .. n /\ OrderNumbers' = 1 .. n + 1
      /\ orders'[n + 1].status = "PENDING"
      /\ \A p \in OrderNumbers : orders'[p] = orders[p]
      /\ current' = current /\ totalEarnings' = totalEarnings
    BY <1>0, Arriving DEF OrderInv, OrderNumbers, Arrival, books
<1>2. Fate(n + 1)' = "waiting"
    <2>1. n + 1 \in OrderNumbers'
        BY <1>1
    <2> QED
        BY <1>1, <2>1, FateCasesNext
<1>3. \A p \in OrderNumbers : Fate(p)' = Fate(p)
    BY <1>1, FateKept
<1>4. Fates \in [1 .. n -> F]
    BY <1>1 DEF Fates
<1>5. Fates \in Seq(F)
    BY <1>1, <1>4, SeqDef
<1>6. Len(Fates) = n
    <2>1. DOMAIN Fates = 1 .. n /\ DOMAIN Fates = 1 .. Len(Fates) /\ Len(Fates) \in Nat
        BY <1>4, <1>5, LenProperties
    <2> QED
        BY <1>1, <2>1
<1>7. "waiting" \in F
    OBVIOUS
<1> HIDE DEF F
<1>8. /\ Append(Fates, "waiting") \in Seq(F)
      /\ Len(Append(Fates, "waiting")) = n + 1
      /\ \A p \in 1 .. n : Append(Fates, "waiting")[p] = Fates[p]
      /\ Append(Fates, "waiting")[n + 1] = "waiting"
    BY <1>5, <1>6, <1>7, AppendProperties
<1>9. Append(Fates, "waiting") \in [1 .. n + 1 -> F]
    BY <1>8, LenProperties
<1>10. \A p \in 1 .. n + 1 : p = n + 1 \/ p \in 1 .. n
    BY <1>1
<1>11. \A p \in 1 .. n + 1 : Append(Fates, "waiting")[p] = Fate(p)'
    BY <1>1, <1>2, <1>3, <1>8, <1>10 DEF Fates
<1>12. Fates' = Append(Fates, "waiting")
    BY <1>1, <1>9, <1>11 DEF Fates
<1> QED
    BY <1>1, <1>12 DEF Lifecycle!Arrive, Fates

LEMMA LapseLapses == ASSUME OrderInv, Lapse PROVE Lifecycle!Lapse
<1>1. PICK h \in OrderNumbers : h = Head(queue) /\ Lifecycle!NextInLine(h)
    BY HeadIsNext DEF Lapse
<1>2. CloseOrder(h, "EXPIRED", 0, 0) /\ "EXPIRED" \in Closed /\ 0 \in 0 .. 100 /\ 0 \in Int
    BY <1>1 DEF Lapse, Closed
<1>3. /\ Len(orders') = Len(orders) /\ orders'[h].status = "EXPIRED"
      /\ \A p \in OrderNumbers : p # h => orders'[p] = orders[p]
      /\ totalEarnings' = totalEarnings + Earning(h, "EXPIRED", 0)
    BY <1>1, <1>2, OneCloses
<1>4. OrderNumbers' = OrderNumbers /\ Fate(h)' = "EXPIRED"
    BY <1>1, <1>2, <1>3, FateCasesNext DEF OrderNumbers
<1>5. \A p \in OrderNumbers : p # current /\ p # current'
    BY DEF Lapse, OrderNumbers
<1>6. Fates' = [Fates EXCEPT ![h] = "EXPIRED"]
    BY <1>1, <1>3, <1>4, <1>5, FateChanged
<1>7. totalEarnings' = totalEarnings
    BY <1>3 DEF Earning, OrderInv, OrderTypes
<1> QED
    BY <1>1, <1>6, <1>7 DEF Lifecycle!Lapse, Fates

LEMMA StartTakesUp == ASSUME OrderInv, Start PROVE Lifecycle!TakeUp
<1>1. PICK h \in OrderNumbers : h = Head(queue) /\ Lifecycle!NextInLine(h)
    BY HeadIsNext DEF Start
<1>2. /\ Len(orders') = Len(orders) /\ orders'[h].status = "IN_PROGRESS"
      /\ \A p \in OrderNumbers : p # h => orders'[p] = orders[p]
      /\ current = 0 /\ current' = h
    BY <1>1, Starting DEF OrderInv, Start
<1>3. OrderNumbers' = OrderNumbers /\ Fate(h)' = "cooking"
    BY <1>1, <1>2, FateCasesNext DEF OrderNumbers
<1>4. \A p \in OrderNumbers : p # h => p # current /\ p # current'
    BY <1>2 DEF OrderNumbers
<1>5. Fates' = [Fates EXCEPT ![h] = "cooking"]
    BY <1>1, <1>2, <1>3, <1>4, FateChanged
<1>6. totalEarnings' = totalEarnings
    BY DEF Start, books
<1> QED
    BY <1>1, <1>5, <1>6 DEF Lifecycle!TakeUp, Fates

\* The order being processed has the fate "cooking".
LEMMA CurrentIsCooking ==
    ASSUME OrderInv, current # 0
    PROVE  current \in OrderNumbers /\ Fate(current) = "cooking"
BY Heads, FateCases DEF OrderInv, StatusAgrees

LEMMA StrandFinishes == ASSUME OrderInv, Strand PROVE Lifecycle!Finish
<1>1. PICK o \in OrderNumbers : o = current /\ Fate(o) = "cooking"
    BY CurrentIsCooking DEF Strand
<1>2. /\ orders' = orders /\ OrderNumbers' = OrderNumbers
      /\ totalEarnings' = totalEarnings /\ current' = 0
    BY DEF Strand, books, OrderNumbers
<1>3. orders[o].status = "IN_PROGRESS" /\ o # current'
    BY <1>1, <1>2 DEF OrderInv, StatusAgrees, Strand
<1>4. Fate(o)' = "lost"
    BY <1>2, <1>3, FateCasesNext
<1>5. \A p \in OrderNumbers : p # o => p # current /\ p # current'
    BY <1>1, <1>2 DEF OrderNumbers
<1>6. Fates' = [Fates EXCEPT ![o] = "lost"]
    BY <1>2, <1>4, <1>5, FateChanged
<1> QED
    BY <1>1, <1>2, <1>6 DEF Lifecycle!Finish, Lifecycle!Final, Fates

LEMMA ServeFinishes ==
    ASSUME OrderInv, NEW status \in Closed, NEW score \in 0 .. 100, NEW s \in Int,
           Serve(status, score, s)
    PROVE  Lifecycle!Finish
<1>1. PICK o \in OrderNumbers : o = current /\ Fate(o) = "cooking"
    BY CurrentIsCooking DEF Serve
<1>2. CloseOrder(o, status, score, s) /\ current' = 0
    BY <1>1 DEF Serve
<1>3. /\ Len(orders') = Len(orders) /\ orders'[o].status = status
      /\ \A p \in OrderNumbers : p # o => orders'[p] = orders[p]
      /\ totalEarnings' = totalEarnings + Earning(o, status, score)
    BY <1>1, <1>2, OneCloses
<1>4. OrderNumbers' = OrderNumbers /\ Fate(o)' = status
    BY <1>3, FateCasesNext DEF OrderNumbers
<1>5. \A p \in OrderNumbers : p # o => p # current /\ p # current'
    BY <1>1, <1>2 DEF OrderNumbers
<1>6. Fates' = [Fates EXCEPT ![o] = status]
    BY <1>3, <1>4, <1>5, FateChanged
<1>7. IF status = "COMPLETED" THEN totalEarnings' > totalEarnings
                              ELSE totalEarnings' = totalEarnings
    <2>0. OrderTypes
        BY DEF OrderInv
    <2>1. /\ Earning(o, status, score) \in Nat /\ totalEarnings \in Int
          /\ Earning(o, status, score) > 0 <=> status = "COMPLETED"
        BY <1>1, <2>0, EarningSign DEF OrderTypes
    <2>2. CASE status = "COMPLETED"
        BY ONLY <1>3, <2>1, <2>2
    <2>3. CASE status # "COMPLETED"
        <3>1. Earning(o, status, score) = 0
            BY <2>3 DEF Earning
        <3> QED
            BY ONLY <1>3, <2>1, <2>3, <3>1
    <2> QED
        BY <2>2, <2>3
<1>8. status \in Lifecycle!Final
    BY DEF Closed, Lifecycle!Final
<1> QED
    BY <1>1, <1>6, <1>7, <1>8 DEF Lifecycle!Finish, Fates

LEMMA LifecycleStep ==
    OrderInv /\ [Operation]_vars => [Lifecycle!Next]_(Lifecycle!lifecycleVars)
<1> SUFFICES ASSUME OrderInv, [Operation]_vars PROVE [Lifecycle!Next]_(Lifecycle!lifecycleVars)
    OBVIOUS
<1>1. CASE Arrival
    BY <1>1, ArrivalArrives DEF Lifecycle!Next
<1>2. CASE Lapse
    BY <1>2, LapseLapses DEF Lifecycle!Next
<1>3. CASE Start
    BY <1>3, StartTakesUp DEF Lifecycle!Next
<1>4. CASE Strand
    BY <1>4, StrandFinishes DEF Lifecycle!Next
<1>5. ASSUME NEW status \in Closed, NEW score \in 0 .. 100, NEW s \in Int,
             Serve(status, score, s)
      PROVE  Lifecycle!Next
    BY <1>5, ServeFinishes DEF Lifecycle!Next
<1>6. ASSUME orders' = orders, current' = current
      PROVE  OrderNumbers' = OrderNumbers /\ Fates' = Fates
    <2>1. OrderNumbers' = OrderNumbers
        BY <1>6 DEF OrderNumbers
    <2>2. \A p \in OrderNumbers : Fate(p)' = Fate(p)
        BY <1>6, FateKept
    <2> QED
        BY <2>1, <2>2 DEF Fates
<1>7. CASE Spending
    BY <1>6, <1>7 DEF Spending, orderVars, Lifecycle!Next, Lifecycle!Spend, Fates
<1>8. CASE Quiet
    BY <1>6, <1>8 DEF Quiet, orderVars, books, Lifecycle!lifecycleVars, Fates
<1> QED
    BY <1>1, <1>2, <1>3, <1>4, <1>5, <1>7, <1>8, Kinds DEF OrderInv

LEMMA LifecycleInit == Init => Lifecycle!Init
<1> SUFFICES ASSUME Init PROVE Lifecycle!Init
    OBVIOUS
<1>1. OrderNumbers = 1 .. 0 /\ totalEarnings = 0
    BY DEF Init, OrderNumbers
<1>2. Fates = <<>>
    BY <1>1 DEF Fates
<1> QED
    BY <1>1, <1>2 DEF Lifecycle!Init, Fates

\* Every behaviour of the kitchen is one of the abstract life cycle: orders are taken
\* up in turn and one at a time, each meets one fate and keeps it, and money comes in
\* when an order is completed and at no other time.
THEOREM KitchenImplementsLifecycle == Spec => ImplementsLifecycle
BY OrderInvInit, OrderInvStep, LifecycleInit, LifecycleStep, NextIsOperation, PTL
DEF Spec, ImplementsLifecycle, Lifecycle!Safety

--------------------------------------------------------------------------------
(* The pantry under the kitchen.  What is proved of module Inventory is taken over for *)
(* the kitchen's instance of it; the history variables of StockAudit have no part in it. *)

PantryFacts == INSTANCE InventoryProofs WITH
                   Baskets <- {Contents[d] : d \in Dishes}, Opening <- {}, BestBefore <- {},
                   list <- <<>>, before <- quantity, entry <- 1, assured <- FALSE, excused <- {}

\* What module Inventory assumes holds of the constants the kitchen gives it.
LEMMA PantryConstants ==
    /\ Required \in [Ids -> Nat \ {0}]
    /\ {Contents[d] : d \in Dishes} \subseteq Seq(Ids)
    /\ {} \subseteq Nat
    /\ {} \subseteq Nat \cup {Never} /\ Never \notin Nat
    /\ Amounts \subseteq Int
    /\ MaxDay \in Nat /\ MaxQuantity \in Nat /\ MaxAlerts \in Nat
BY KitchenRequired, KitchenStock, KitchenAmounts, KitchenDishes, KitchenBounds

\* One pantry under two names.
LEMMA SamePantry ==
    /\ Pantry!TypeOK <=> PantryFacts!TypeOK
    /\ Pantry!ConsumeStep <=> PantryFacts!ConsumeStep
    /\ Pantry!ReturnToCaller <=> PantryFacts!ReturnToCaller
    /\ Pantry!PurgeExpiredIngredients <=> PantryFacts!PurgeExpiredIngredients
    /\ Pantry!ClearAlerts <=> PantryFacts!ClearAlerts
    /\ Pantry!Midnight <=> PantryFacts!Midnight
    /\ \A list : Pantry!BeginConsume(list) <=> PantryFacts!BeginConsume(list)
    /\ \A i, amount :
           Pantry!RestockIngredient(i, amount) <=> PantryFacts!RestockIngredient(i, amount)
<1>1. \A i : /\ Pantry!IsExpired(i) <=> PantryFacts!IsExpired(i)
             /\ Pantry!IsAvailable(i) <=> PantryFacts!IsAvailable(i)
    BY DEF Pantry!IsExpired, PantryFacts!IsExpired, Pantry!IsAvailable, PantryFacts!IsAvailable
<1>2. \A i, q : Pantry!CheckThresholds(i, q) <=> PantryFacts!CheckThresholds(i, q)
    BY <1>1 DEF Pantry!CheckThresholds, PantryFacts!CheckThresholds,
       Pantry!IsLow, PantryFacts!IsLow
<1>3. /\ Pantry!MissingThrows <=> PantryFacts!MissingThrows
      /\ Pantry!ExpiredThrows <=> PantryFacts!ExpiredThrows
      /\ Pantry!UnavailableThrows <=> PantryFacts!UnavailableThrows
    BY <1>1 DEF Pantry!MissingThrows, PantryFacts!MissingThrows,
       Pantry!ExpiredThrows, PantryFacts!ExpiredThrows,
       Pantry!UnavailableThrows, PantryFacts!UnavailableThrows,
       Pantry!Throw, PantryFacts!Throw
<1>4. Pantry!FoundFresh <=> PantryFacts!FoundFresh
    BY <1>1 DEF Pantry!FoundFresh, PantryFacts!FoundFresh
<1>5. Pantry!Take <=> PantryFacts!Take
    BY <1>1 DEF Pantry!Take, PantryFacts!Take
<1>6. Pantry!Warn <=> PantryFacts!Warn
    BY <1>2 DEF Pantry!Warn, PantryFacts!Warn
<1>7. Pantry!ConsumeStep <=> PantryFacts!ConsumeStep
    BY <1>3, <1>4, <1>5, <1>6 DEF Pantry!ConsumeStep, PantryFacts!ConsumeStep
<1>8. \A i, amount :
          Pantry!RestockIngredient(i, amount) <=> PantryFacts!RestockIngredient(i, amount)
    BY <1>2 DEF Pantry!RestockIngredient, PantryFacts!RestockIngredient,
       Pantry!Idle, PantryFacts!Idle
<1>9. Pantry!PurgeExpiredIngredients <=> PantryFacts!PurgeExpiredIngredients
    BY <1>1 DEF Pantry!PurgeExpiredIngredients, PantryFacts!PurgeExpiredIngredients,
       Pantry!Idle, PantryFacts!Idle
<1>10. /\ Pantry!ReturnToCaller <=> PantryFacts!ReturnToCaller
       /\ Pantry!ClearAlerts <=> PantryFacts!ClearAlerts
       /\ Pantry!Midnight <=> PantryFacts!Midnight
       /\ \A list : Pantry!BeginConsume(list) <=> PantryFacts!BeginConsume(list)
    BY DEF Pantry!ReturnToCaller, PantryFacts!ReturnToCaller,
       Pantry!ClearAlerts, PantryFacts!ClearAlerts, Pantry!Midnight, PantryFacts!Midnight,
       Pantry!BeginConsume, PantryFacts!BeginConsume, Pantry!Idle, PantryFacts!Idle
<1>11. Pantry!TypeOK <=> PantryFacts!TypeOK
    BY DEF Pantry!TypeOK, PantryFacts!TypeOK
<1> QED
    BY <1>7, <1>8, <1>9, <1>10, <1>11

\* Whatever the kitchen does to the pantry is one of the pantry's operations.
LEMMA PantrySteps ==
    ASSUME OrderTypes, [Operation]_vars
    PROVE  [PantryFacts!Operation]_pantryVars
<1> USE DEF PantryFacts!Operation
<1>1. CASE Consume \/ StrandOrder
    BY <1>1, SamePantry DEF Consume, StrandOrder
<1>2. ASSUME NEW level, ServeTooLate(level) \/ \E t : ServeInTime(level, t)
      PROVE  PantryFacts!Operation
    BY <1>2, SamePantry DEF ServeTooLate, ServeInTime
<1>3. CASE Processing
    BY <1>1, <1>2, <1>3 DEF Processing
<1>4. CASE TakeUp
    <2>1. Head(queue) \in OrderNumbers /\ orders[Head(queue)] \in Orders
        BY <1>4, Heads DEF TakeUp
    <2>2. Contents[orders[Head(queue)].dish] \in Seq(Ids)
        BY <2>1, KitchenDishes DEF Orders
    <2> QED
        BY <1>4, <2>2, SamePantry DEF TakeUp
<1>5. ASSUME NEW i \in Ids, NEW amount \in Amounts, Restock(i, amount)
      PROVE  PantryFacts!Operation
    BY <1>5, SamePantry, KitchenAmounts DEF Restock
<1>6. CASE Purge \/ ClearAlerts
    BY <1>6, SamePantry DEF Purge, ClearAlerts
<1>7. CASE Tick
    BY <1>7, SamePantry DEF Tick
<1>8. CASE UNCHANGED vars
    BY <1>8 DEF vars
<1>9. ASSUME NEW dish, NEW c, NEW p, EnqueueOrder(dish, c, p) PROVE UNCHANGED pantryVars
    BY <1>9 DEF EnqueueOrder
<1>10. ASSUME NEW amount, CloseOverdue \/ SpendFunds(amount) PROVE UNCHANGED pantryVars
    BY <1>10 DEF CloseOverdue, SpendFunds
<1> QED
    BY <1>3, <1>4, <1>5, <1>6, <1>7, <1>8, <1>9, <1>10 DEF Operation

LEMMA PantryTypeStep == ASSUME OrderTypes, Pantry!TypeOK, [Operation]_vars PROVE Pantry!TypeOK'
<1>1. [PantryFacts!Operation]_(PantryFacts!vars)
    BY PantrySteps DEF PantryFacts!vars, pantryVars
<1>2. PantryFacts!TypeOK /\ [PantryFacts!Operation]_(PantryFacts!vars) => PantryFacts!TypeOK'
    BY PantryConstants, PantryFacts!TypeStep
<1>3. PantryFacts!TypeOK' => Pantry!TypeOK'
    BY DEF Pantry!TypeOK, PantryFacts!TypeOK
<1> QED
    BY <1>1, <1>2, <1>3, SamePantry

LEMMA PantryTypeInit == Init => Pantry!TypeOK
BY KitchenStock, EmptySeq DEF Init, Pantry!TypeOK

LEMMA TypeStep == TypeOK /\ [Operation]_vars => TypeOK'
<1> SUFFICES ASSUME TypeOK, [Operation]_vars PROVE TypeOK'
    OBVIOUS
<1>1. OrderTypes /\ Pantry!TypeOK
    BY DEF OrderTypes, TypeOK
<1>2. OrderTypes' /\ Pantry!TypeOK'
    BY <1>1, OrderTypesStep, PantryTypeStep
<1> QED
    BY <1>2 DEF OrderTypes, TypeOK

LEMMA TypeInit == Init => TypeOK
<1> SUFFICES ASSUME Init PROVE TypeOK
    OBVIOUS
<1>1. OrderTypes /\ Pantry!TypeOK
    BY OrderInvInit, PantryTypeInit DEF OrderInv
<1> QED
    BY <1>1 DEF OrderTypes, TypeOK

\* Every state the kitchen reaches is well formed: orders, the two lists and the queue only
\* ever refer to orders there are, whatever becomes of them, and the pantry is well formed
\* under a kitchen that may leave consumeIngredients by an exception.
THEOREM TypeCorrect == Spec => []TypeOK
BY TypeInit, TypeStep, NextIsOperation, PTL DEF Spec

LEMMA OverdrawnStep ==
    ASSUME OrderTypes, Pantry!TypeOK, Pantry!NeverOverdrawn, [Operation]_vars
    PROVE  Pantry!NeverOverdrawn'
<1>1. [PantryFacts!Operation]_(PantryFacts!vars)
    BY PantrySteps DEF PantryFacts!vars, pantryVars
<1>2. PantryFacts!TypeOK /\ PantryFacts!NeverOverdrawn
      /\ [PantryFacts!Operation]_(PantryFacts!vars) => PantryFacts!NeverOverdrawn'
    BY PantryConstants, PantryFacts!OverdrawnStep
<1>3. Pantry!NeverOverdrawn <=> PantryFacts!NeverOverdrawn
    BY DEF Pantry!NeverOverdrawn, PantryFacts!NeverOverdrawn
<1>4. PantryFacts!NeverOverdrawn' => Pantry!NeverOverdrawn'
    BY DEF Pantry!NeverOverdrawn, PantryFacts!NeverOverdrawn
<1> QED
    BY <1>1, <1>2, <1>3, <1>4, SamePantry

\* Nothing in the pantry is ever owed, whichever orders are cooked, fail or are left
\* half-way by an exception, and whatever is restocked in between.
THEOREM StockNeverOverdrawn == Spec => []Pantry!NeverOverdrawn
<1>1. Init => Pantry!NeverOverdrawn
    BY KitchenStock DEF Init, Pantry!NeverOverdrawn
<1>2. TypeOK /\ Pantry!NeverOverdrawn /\ [Operation]_vars => Pantry!NeverOverdrawn'
    BY OverdrawnStep DEF TypeOK, OrderTypes
<1> QED
    BY <1>1, <1>2, TypeInit, TypeStep, NextIsOperation, PTL DEF Spec

--------------------------------------------------------------------------------
(* What a customer thinks *)

LEMMA Quotient ==
    ASSUME NEW n \in Int, NEW d \in Nat \ {0}, NEW low \in Int, NEW high \in Int,
           low * d <= n, n < (high + 1) * d
    PROVE  n \div d \in low .. high
<1> DEFINE q == n \div d
           r == n % d
<1>1. q \in Int /\ r \in 0 .. d - 1 /\ n = d * q + r
    OBVIOUS
<1> HIDE DEF q, r
<1>2. low * d < (q + 1) * d /\ q * d < (high + 1) * d
    BY <1>1
<1>3. \A a, b \in Int : a * d < b * d => a < b
    OBVIOUS
<1>4. low < q + 1 /\ q < high + 1
    BY <1>1, <1>2, <1>3
<1>5. q \in low .. high
    BY <1>1, <1>4
<1> QED
    BY <1>5 DEF q

\* Seven tenths of the score and at most 30 for the patience left, rounded down: the two
\* ranges do not depend on how much patience an order came with, nor on a clock that is
\* past it.
LEMMA SatisfactionRange ==
    ASSUME NEW score \in 0 .. 100, NEW e \in Nat, NEW p \in Nat \ {0}
    PROVE  IF score >= 50 THEN Satisfaction(score, e, p) \in 35 .. 100
                          ELSE Satisfaction(score, e, p) \in 0 .. 64
<1> DEFINE m == Larger(0, p - e)
           n == 7 * score * p + 300 * m
<1>1. m \in 0 .. p
    BY DEF Larger
<1> HIDE DEF m
<1>2. n \in Int /\ 10 * p \in Nat \ {0} /\ 7 * score * p \in Int
    BY <1>1
<1>3. \A a, b \in Int : a <= b => a * p <= b * p
    OBVIOUS
<1>4. 7 * score * p <= 700 * p
    BY <1>3
<1>5. n <= 1000 * p /\ 1000 * p < 101 * (10 * p)
    BY <1>1, <1>2, <1>4
<1>6. ASSUME score >= 50 PROVE 35 * (10 * p) <= n
    <2>1. 350 * p <= 7 * score * p
        BY <1>3, <1>6
    <2> QED
        BY <1>1, <1>2, <2>1
<1>7. ASSUME ~(score >= 50) PROVE 0 * (10 * p) <= n /\ n < 65 * (10 * p)
    <2>1. 0 * p <= 7 * score * p /\ 7 * score * p <= 343 * p
        BY <1>3, <1>7
    <2> QED
        BY <1>1, <1>2, <2>1
<1>8. Satisfaction(score, e, p) = n \div (10 * p)
    BY DEF Satisfaction, m
<1> HIDE DEF n
<1>9. ASSUME score >= 50 PROVE n \div (10 * p) \in 35 .. 100
    BY ONLY <1>2, <1>5, <1>6, <1>9, Quotient, p \in Nat
<1>10. ASSUME ~(score >= 50) PROVE n \div (10 * p) \in 0 .. 64
    BY ONLY <1>2, <1>5, <1>7, <1>10, Quotient, p \in Nat
<1> QED
    BY <1>8, <1>9, <1>10

\* SatisfactionFitsOutcome of one order.
Fits(order) ==
    /\ order.status = "COMPLETED" => order.satisfaction \in 35 .. 100
    /\ order.status = "FAILED" => order.satisfaction \in 0 .. 64
    /\ order.status \notin {"COMPLETED", "FAILED"} => order.satisfaction = 0

\* The inductive strengthening: no order was created in the future, so that complete
\* never computes with a negative time of waiting.
FitInv == \A o \in OrderNumbers : orders[o].created <= now /\ Fits(orders[o])

\* One order is replaced by one that was created when it was and that fits.
LEMMA FitsReplaced ==
    ASSUME OrderInv, FitInv, NEW o \in OrderNumbers, now' = now,
           Len(orders') = Len(orders), orders'[o].created = orders[o].created,
           \A p \in OrderNumbers : p # o => orders'[p] = orders[p],
           Fits(orders'[o])
    PROVE  FitInv'
<1>1. OrderNumbers' = OrderNumbers
    BY DEF OrderNumbers
<1>2. ASSUME NEW p \in OrderNumbers, p # o
      PROVE  orders'[p].created <= now' /\ Fits(orders'[p])
    <2>1. orders'[p] = orders[p] /\ orders[p].created <= now /\ Fits(orders[p])
        BY <1>2 DEF FitInv
    <2> QED
        BY <2>1
<1>3. orders'[o].created <= now'
    BY DEF FitInv
<1>4. \A p \in OrderNumbers : orders'[p].created <= now' /\ Fits(orders'[p])
    BY <1>2, <1>3
<1> QED
    BY <1>1, <1>4 DEF FitInv, Fits

LEMMA FitsServed ==
    ASSUME OrderInv, FitInv, NEW level \in Levels, NEW t \in {now, now + 1},
           ServeInTime(level, t)
    PROVE  FitInv'
<1>1. current \in OrderNumbers /\ orders[current] \in Orders
    BY Heads DEF ServeInTime, OrderInv
<1> DEFINE order == orders[current]
           score == CookScore[order.dish, level]
           status == IF Succeeds(score) THEN "COMPLETED" ELSE "FAILED"
           s == Satisfaction(score, t - order.created, order.patience)
<1>2. score \in 0 .. 100
    BY <1>1, KitchenDishes DEF Orders
<1>3. t - order.created \in Nat /\ order.patience \in Nat \ {0}
    <2>1. order.created \in Nat /\ order.patience \in Nat \ {0}
        BY <1>1 DEF Orders
    <2>2. order.created <= now
        BY <1>1 DEF FitInv
    <2>3. now \in Nat
        BY DEF OrderInv, OrderTypes
    <2> HIDE DEF order
    <2> QED
        BY ONLY t \in {now, now + 1}, <2>1, <2>2, <2>3
<1>4. IF score >= 50 THEN s \in 35 .. 100 ELSE s \in 0 .. 64
    BY <1>2, <1>3, SatisfactionRange
<1>5. s \in Int /\ status \in Closed
    <2>1. t - order.created \in Int
        BY <1>3
    <2>2. s \in Int
        BY <1>2, <1>3, <2>1, SatisfactionIsInt
    <2> QED
        BY <2>2 DEF Closed
<1>6. CloseOrder(current, status, score, s) /\ now' = now
    BY DEF ServeInTime
<1>7. /\ Len(orders') = Len(orders)
      /\ orders'[current].status = status /\ orders'[current].satisfaction = s
      /\ orders'[current].created = orders[current].created
      /\ \A p \in OrderNumbers : p # current => orders'[p] = orders[p]
    <2> HIDE DEF score, status, s
    <2>1. OrderTypes
        BY DEF OrderInv
    <2> QED
        BY <1>1, <1>2, <1>5, <1>6, <2>1, Closing
<1>8. Fits(orders'[current])
    BY <1>4, <1>7 DEF Fits, Succeeds
<1> QED
    BY <1>1, <1>6, <1>7, <1>8, FitsReplaced

LEMMA FitsExpired ==
    ASSUME OrderInv, FitInv, NEW o \in OrderNumbers, NEW score \in 0 .. 100,
           CloseOrder(o, "EXPIRED", score, 0), now' = now
    PROVE  FitInv'
<1>1. /\ Len(orders') = Len(orders)
      /\ orders'[o].status = "EXPIRED" /\ orders'[o].satisfaction = 0
      /\ orders'[o].created = orders[o].created
      /\ \A p \in OrderNumbers : p # o => orders'[p] = orders[p]
    <2>1. OrderTypes /\ "EXPIRED" \in Closed /\ 0 \in Int
        BY DEF OrderInv, Closed
    <2> QED
        BY <2>1, Closing
<1> QED
    BY <1>1, FitsReplaced DEF Fits

LEMMA FitsStep == OrderInv /\ FitInv /\ [Operation]_vars => FitInv'
<1> SUFFICES ASSUME OrderInv, FitInv, [Operation]_vars PROVE FitInv'
    OBVIOUS
<1>1. ASSUME orders' = orders, now' \in {now, now + 1} PROVE FitInv'
    <2>1. \A o \in OrderNumbers : orders[o].created \in Nat
        BY Heads DEF OrderInv, Orders
    <2> QED
        BY <1>1, <2>1 DEF FitInv, OrderNumbers, OrderInv, OrderTypes
<1>2. ASSUME NEW dish \in Dishes, NEW c \in 0 .. now, NEW p \in Patiences,
             EnqueueOrder(dish, c, p)
      PROVE  FitInv'
    <2> DEFINE r == [dish |-> dish, created |-> c, patience |-> p,
                     status |-> "PENDING", satisfaction |-> 0]
    <2>1. orders' = Append(orders, r) /\ now' = now /\ r \in Orders
        BY <1>2, KitchenPatience DEF EnqueueOrder, Orders, OrderInv, OrderTypes
    <2>2. /\ Len(orders') = Len(orders) + 1 /\ orders'[Len(orders) + 1] = r
          /\ \A o \in OrderNumbers : orders'[o] = orders[o]
          /\ Len(orders) \in Nat
        BY <2>1, AppendProperties, LenProperties DEF OrderNumbers, OrderInv, OrderTypes
    <2>3. r.created <= now /\ Fits(r)
        BY DEF Fits, OrderInv, OrderTypes
    <2>4. \A o \in OrderNumbers' : o \in OrderNumbers \/ o = Len(orders) + 1
        BY <2>2 DEF OrderNumbers
    <2> QED
        BY <2>1, <2>2, <2>3, <2>4 DEF FitInv
<1>3. CASE CloseOverdue
    BY <1>3, Heads, FitsExpired DEF CloseOverdue, OrderInv
<1>4. CASE TakeUp
    <2>1. Start /\ now' = now /\ Head(queue) \in OrderNumbers
        BY <1>4, Heads DEF TakeUp, Start, PollFirst, Idle, OrderInv
    <2>2. /\ Len(orders') = Len(orders)
          /\ orders'[Head(queue)].status = "IN_PROGRESS"
          /\ orders'[Head(queue)].satisfaction = orders[Head(queue)].satisfaction
          /\ orders'[Head(queue)].created = orders[Head(queue)].created
          /\ \A p \in OrderNumbers : p # Head(queue) => orders'[p] = orders[p]
        BY <2>1, Starting DEF OrderInv
    <2>3. 1 \in DOMAIN queue /\ Head(queue) = queue[1]
        BY <1>4, Heads, LenProperties, EmptySeq DEF TakeUp, OrderInv, OrderTypes
    <2>4. orders[Head(queue)].status = "PENDING"
        BY <2>1, <2>3 DEF OrderInv, StatusAgrees, Listed
    <2>5. Fits(orders'[Head(queue)])
        BY <2>1, <2>2, <2>4 DEF FitInv, Fits
    <2> QED
        BY <2>1, <2>2, <2>5, FitsReplaced
<1>5. ASSUME NEW level \in Levels, ServeTooLate(level) PROVE FitInv'
    <2>1. current \in OrderNumbers /\ orders[current] \in Orders
        BY <1>5, Heads DEF ServeTooLate, OrderInv
    <2>2. CookScore[orders[current].dish, level] \in 0 .. 100
        BY <2>1, KitchenDishes DEF Orders
    <2> QED
        BY <1>5, <2>1, <2>2, FitsExpired DEF ServeTooLate
<1>6. CASE Processing
    BY <1>1, <1>5, <1>6, FitsServed DEF Processing, Consume, StrandOrder, orderVars
<1>7. ASSUME NEW amount, SpendFunds(amount) PROVE FitInv'
    BY <1>1, <1>7 DEF SpendFunds, orderVars
<1>8. ASSUME NEW i, NEW amount, Restock(i, amount) PROVE FitInv'
    BY <1>1, <1>8 DEF Restock, orderVars
<1>9. CASE Purge \/ ClearAlerts \/ Tick \/ UNCHANGED vars
    BY <1>1, <1>9 DEF Purge, ClearAlerts, Tick, vars, orderVars
<1> QED
    BY <1>2, <1>3, <1>4, <1>6, <1>7, <1>8, <1>9 DEF Operation

LEMMA FitsInit == Init => FitInv
BY DEF Init, FitInv, OrderNumbers

\* However late the second reading of the clock and whatever the patience and the score:
\* the satisfaction CustomerOrder.complete computes in one go with the status always
\* fits the status.
THEOREM SatisfactionFits == Spec => []SatisfactionFitsOutcome
<1>1. FitInv => SatisfactionFitsOutcome
    BY DEF FitInv, Fits, SatisfactionFitsOutcome
<1> QED
    BY <1>1, FitsInit, FitsStep, OrderInvInit, OrderInvStep, NextIsOperation, PTL DEF Spec

--------------------------------------------------------------------------------
(* How long an order may be cooked *)

\* The pantry is at work exactly while an order is processed.
AtWork == current # 0 <=> ~Pantry!Idle

StepsLeft == PantryFacts!StepsLeft

LEMMA StepsLeftIsNatural == Pantry!TypeOK => StepsLeft \in Nat /\ (StepsLeft = 0 <=> Pantry!Idle)
<1>1. PantryFacts!TypeOK => /\ PantryFacts!StepsLeft \in Nat
                            /\ PantryFacts!StepsLeft = 0 <=> PantryFacts!Idle
    BY PantryConstants, PantryFacts!StepsLeftIsNatural
<1> QED
    BY <1>1, SamePantry DEF StepsLeft, Pantry!Idle, PantryFacts!Idle

LEMMA CookingShortens ==
    ASSUME Pantry!TypeOK, Pantry!ConsumeStep \/ Pantry!ReturnToCaller
    PROVE  StepsLeft' < StepsLeft
<1>1. PantryFacts!TypeOK /\ (PantryFacts!ConsumeStep \/ PantryFacts!ReturnToCaller)
      => PantryFacts!StepsLeft' < PantryFacts!StepsLeft
    BY PantryConstants, PantryFacts!CallShortens
<1> QED
    BY <1>1, SamePantry DEF StepsLeft

LEMMA SameStepsLeft == UNCHANGED <<basket, at>> => StepsLeft' = StepsLeft
BY DEF StepsLeft, PantryFacts!StepsLeft, PantryFacts!Idle

LEMMA AtWorkStep == ASSUME OrderTypes, AtWork, [Operation]_vars PROVE AtWork'
<1> USE DEF AtWork, Pantry!Idle
<1>1. CASE Consume
    <2>1. at # "idle" /\ at' # "idle" /\ current' = current
        BY <1>1 DEF Consume, orderVars, Pantry!ConsumeStep, Pantry!MissingThrows,
           Pantry!ExpiredThrows, Pantry!FoundFresh, Pantry!Take, Pantry!UnavailableThrows,
           Pantry!Warn, Pantry!Throw
    <2> QED
        BY <2>1
<1>2. CASE StrandOrder
    BY <1>2 DEF StrandOrder, Pantry!ReturnToCaller
<1>3. ASSUME NEW level, ServeTooLate(level) \/ \E t : ServeInTime(level, t)
      PROVE  AtWork'
    BY <1>3 DEF ServeTooLate, ServeInTime, Pantry!ReturnToCaller
<1>4. CASE Processing
    BY <1>1, <1>2, <1>3, <1>4 DEF Processing
<1>5. CASE TakeUp
    <2>1. Head(queue) # 0
        BY <1>5, Heads DEF TakeUp, OrderNumbers
    <2> QED
        BY <1>5, <2>1 DEF TakeUp, Pantry!BeginConsume
<1>6. ASSUME NEW i \in Ids, NEW amount \in Amounts, Restock(i, amount) PROVE AtWork'
    BY <1>6 DEF Restock, Pantry!RestockIngredient, orderVars
<1>7. CASE Purge \/ ClearAlerts
    BY <1>7 DEF Purge, ClearAlerts, Pantry!PurgeExpiredIngredients, Pantry!ClearAlerts, orderVars
<1>8. CASE Tick
    BY <1>8 DEF Tick, Pantry!Midnight, pantryVars, orderVars
<1>9. CASE UNCHANGED vars
    BY <1>9 DEF vars, pantryVars, orderVars
<1>10. ASSUME NEW dish, NEW c, NEW p, EnqueueOrder(dish, c, p) PROVE AtWork'
    BY <1>10 DEF EnqueueOrder, pantryVars
<1>11. ASSUME NEW amount, CloseOverdue \/ SpendFunds(amount) PROVE AtWork'
    BY <1>11 DEF CloseOverdue, SpendFunds, pantryVars, orderVars
<1> QED
    BY <1>4, <1>5, <1>6, <1>7, <1>8, <1>9, <1>10, <1>11 DEF Operation

LEMMA OrderShortens ==
    ASSUME Pantry!TypeOK, [Operation]_vars, current # 0
    PROVE  \/ current' = 0
           \/ current' = current /\ (Consume /\ StepsLeft' < StepsLeft)
           \/ current' = current /\ (Tick \/ UNCHANGED vars) /\ StepsLeft' = StepsLeft
<1>1. CASE Consume
    <2>1. current' = current /\ StepsLeft' < StepsLeft
        BY <1>1, CookingShortens DEF Consume, orderVars
    <2> QED
        BY <1>1, <2>1
<1>2. CASE Processing
    BY <1>1, <1>2 DEF Processing, StrandOrder, ServeTooLate, ServeInTime
<1>3. CASE Tick
    <2>1. UNCHANGED <<basket, at, current>>
        BY <1>3 DEF Tick, Pantry!Midnight, pantryVars, orderVars
    <2> QED
        BY <1>3, <2>1, SameStepsLeft
<1>4. CASE UNCHANGED vars
    <2>1. UNCHANGED <<basket, at, current>>
        BY <1>4 DEF vars, pantryVars, orderVars
    <2> QED
        BY <1>4, <2>1, SameStepsLeft
<1> QED
    BY <1>2, <1>3, <1>4
    DEF Operation, Idle, EnqueueOrder, CloseOverdue, TakeUp, SpendFunds, Restock, Purge, ClearAlerts

\* An order that is taken up keeps the kitchen for so many steps and no longer: while it is
\* the current one only its own processing and the clock go on, every step of
\* consumeIngredients leaves fewer to come, and then it is closed or stranded.
THEOREM OrdersRunDown ==
    Spec => /\ [](current # 0 => StepsLeft \in Nat \ {0})
            /\ [][current # 0 => \/ current' = 0
                                 \/ current' = current /\ StepsLeft' < StepsLeft
                                 \/ /\ current' = current
                                    /\ Tick
                                    /\ StepsLeft' = StepsLeft]_vars
<1>1. TypeOK => OrderTypes /\ Pantry!TypeOK
    BY DEF OrderTypes, TypeOK
<1>2. Init => AtWork
    BY DEF Init, AtWork, Pantry!Init, Pantry!Idle
<1>3. TypeOK /\ AtWork /\ [Next]_vars => AtWork'
    BY <1>1, AtWorkStep, NextIsOperation
<1>4. TypeOK /\ AtWork => (current # 0 => StepsLeft \in Nat \ {0})
    BY <1>1, StepsLeftIsNatural DEF AtWork
<1>5. TypeOK /\ [Next]_vars
      => [current # 0 => \/ current' = 0
                         \/ current' = current /\ StepsLeft' < StepsLeft
                         \/ /\ current' = current
                            /\ Tick
                            /\ StepsLeft' = StepsLeft]_vars
    BY <1>1, NextIsOperation, OrderShortens
<1> QED
    BY <1>2, <1>3, <1>4, <1>5, TypeCorrect, PTL DEF Spec

================================================================================
