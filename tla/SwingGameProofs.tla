----------------------------- MODULE SwingGameProofs ---------------------------
(* The Swing game, for every set of recipes, ingredients, prices, thresholds and    *)
(* toggles: what holds whatever happens, also after an exception, and what holds as  *)
(* long as nothing in the pantry has gone bad.                                       *)
EXTENDS SwingGame, GameManagerProofs

--------------------------------------------------------------------------------
(* The inductive invariant *)

AtRest == current = 0 /\ at = "idle" /\ queue = <<>>

\* The alerts the loop has given.
Given == IF screen \in {"alerts", "buying"} THEN cursor ELSE 0

\* The last entries of the lists are about the order of the handler.
OwnIsLast == /\ completedOrders[Len(completedOrders)] = number
             /\ satisfactionScores[Len(satisfactionScores)] = orders[number].satisfaction

\* Which parts of the kitchen are in use where.
Flow ==
    /\ screen # "cooking" => AtRest
    /\ screen = "cooking" =>
           /\ number # 0 /\ pendingOrder # Null
           /\ current = 0 => /\ at = "idle" /\ queue = <<number>>
                             /\ orders[number].dish = pendingOrder.dish
           /\ current # 0 => at # "idle" /\ queue = <<>> /\ current = number
    /\ screen \in {"alerts", "buying"} => OwnIsLast
    /\ screen = "alerts" => cursor <= Len(alerts)
    /\ screen = "buying" => cursor < Len(alerts)

PendingInv ==
    /\ cookingEnabled <=> pendingOrder # Null
    /\ pendingOrder # Null =>
           /\ pendingOrder \in Tickets
           /\ pendingOrder.created <= now
           /\ pendingOrder.patience \in UNION {PatienceOf[d] : d \in Dishes}

FiguresInv == /\ shown.skill = playerSkillLevel
              /\ shown.orders = ordersCompleted
              /\ Entitles(ordersCompleted, playerSkillLevel)

BookInv == recipes \subseteq Seeded /\ stored = Ids

Once(seq) == \A j, k \in DOMAIN seq : seq[j] = seq[k] => j = k

\* Without spoiled food nothing throws, so that every handler runs to its end ...
FreshStock ==
    /\ Supplied /\ Provided(Given)
    /\ at # "threw"
    /\ screen \in {"alerts", "buying"} => ~ListGrew
    /\ screen = "window" =>
           alerts = <<>> /\ (pendingOrder # Null => pendingOrder.dish[1] \in recipes)
    /\ screen = "cooking" =>
           pendingOrder.dish[1] \in recipes /\ (current = 0 => alerts = <<>>)

\* ... and every order is cooked once.
FreshOrders ==
    /\ screen = "window" =>
           number = 0 /\ (pendingOrder # Null => pendingOrder.dish[2] = <<>>)
    /\ screen \in {"window", "cooking"} => shown.earned = totalEarnings
    /\ \A o \in 1 .. Len(orders) : Once(orders[o].dish[2])
    /\ KitchenInv

Fresh == FreshStock /\ FreshOrders

GameInv == /\ TypeOK /\ Flow /\ PendingInv /\ FiguresInv /\ BookInv
           /\ Spoiled \/ Fresh

\* The part of the type invariant that is not about the kitchen.
OwnTypes == /\ recipes \subseteq Recipes
            /\ playerSkillLevel \in 1 .. MaxLevel
            /\ ordersCompleted \in Nat
            /\ cursor \in Nat
            /\ expected \in Nat
            /\ screen \in {"window", "cooking", "alerts", "buying", "closed"}
            /\ pendingOrder \in Tickets \cup {Null}
            /\ number \in 0 .. Len(orders)
            /\ cookingEnabled \in BOOLEAN
            /\ shown \in [skill : 1 .. MaxLevel, earned : Int, satisfaction : Int, orders : Nat]

LEMMA TypeParts ==
    /\ TypeOK <=> Kitchen!TypeOK /\ OwnTypes
    /\ TypeOK' <=> Kitchen!TypeOK' /\ OwnTypes'
BY DEF TypeOK, GameTypeOK, OwnTypes

LEMMA Known ==
    ASSUME GameInv
    PROVE  /\ Kitchen!TypeOK /\ OwnTypes /\ Kitchen!Pantry!TypeOK
           /\ alerts \in Seq(Ids) /\ Len(alerts) \in Nat /\ DOMAIN alerts = 1 .. Len(alerts)
           /\ orders \in Seq(Kitchen!Orders) /\ Len(orders) \in Nat
           /\ Given \in Nat
           /\ now \in Nat /\ current \in Nat /\ totalEarnings \in Int
<1>1. Kitchen!TypeOK /\ OwnTypes
    BY TypeParts DEF GameInv
<1>2. /\ Kitchen!Pantry!TypeOK /\ now \in Nat /\ current \in Nat /\ totalEarnings \in Int
      /\ orders \in Seq(Kitchen!Orders)
    BY <1>1 DEF Kitchen!TypeOK
<1>3. alerts \in Seq(Ids) /\ Len(alerts) \in Nat /\ DOMAIN alerts = 1 .. Len(alerts)
    BY <1>2, LenProperties DEF Kitchen!Pantry!TypeOK
<1>4. Len(orders) \in Nat
    BY <1>2, LenProperties
<1>5. Given \in Nat
    BY <1>1 DEF OwnTypes, Given
<1> QED
    BY <1>1, <1>2, <1>3, <1>4, <1>5

\* No order of a customer is the empty one.
LEMMA TicketIsSomething == \A t \in Tickets : t # Null
BY DEF Tickets, Null

LEMMA AlertedIsKnown ==
    ASSUME GameInv, screen \in {"alerts", "buying"}, HasNext
    PROVE  /\ cursor < Len(alerts) /\ cursor \in Nat
           /\ Alerted \in Ids
           /\ Bought * Cost[Alerted] \in {n * Cost[i] : n \in Portions, i \in Ids}
           /\ Bought * Required[Alerted] \in {n * Required[i] : n \in Portions, i \in Ids}
<1>1. /\ alerts \in Seq(Ids) /\ Len(alerts) \in Nat /\ DOMAIN alerts = 1 .. Len(alerts)
      /\ cursor \in Nat
    BY Known DEF OwnTypes
<1>2. cursor <= Len(alerts)
    BY <1>1 DEF GameInv, Flow
<1>3. cursor < Len(alerts)
    <2>1. cursor \in Nat /\ Len(alerts) \in Nat /\ cursor <= Len(alerts)
        BY <1>1, <1>2
    <2> QED
        BY <2>1 DEF HasNext
<1>4. cursor + 1 \in 1 .. Len(alerts)
    BY <1>1, <1>3
<1>5. Alerted \in Ids
    BY <1>1, <1>4, ElementOfSeq DEF Alerted
<1>6. Bought \in Portions
    BY DEF Bought, Portions
<1> QED
    BY <1>1, <1>3, <1>5, <1>6

--------------------------------------------------------------------------------
(* Lists of orders *)

\* An order that is enqueued again is another dish from then on.
LEMMA Redecorating ==
    ASSUME GameInv, number \in 1 .. Len(orders), NEW d \in Dishes, EnqueueAgain(d)
    PROVE  /\ orders' \in Seq(Kitchen!Orders) /\ Len(orders') = Len(orders)
           /\ orders'[number].dish = d
<1> DEFINE r == [orders[number] EXCEPT !.dish = d, !.status = "PENDING"]
<1>1. orders \in Seq(Kitchen!Orders)
    BY Known
<1>2. orders[number] \in Kitchen!Orders /\ orders \in [1 .. Len(orders) -> Kitchen!Orders]
    BY <1>1, LenProperties, ElementOfSeq
<1>3. orders' = [orders EXCEPT ![number] = r]
    BY <1>2 DEF EnqueueAgain
<1>4. r \in Kitchen!Orders /\ r.dish = d
    BY <1>2 DEF Kitchen!Orders
<1> HIDE DEF r
<1>5. /\ orders' \in Seq(Kitchen!Orders \cup {r}) /\ Len(orders') = Len(orders)
      /\ orders'[number] = r
    BY ONLY number \in 1 .. Len(orders), <1>1, <1>3, Replacing
<1>6. Kitchen!Orders \cup {r} = Kitchen!Orders
    BY <1>4
<1> QED
    BY <1>4, <1>5, <1>6

\* No toggle decorates a dish twice.
LEMMA DecoratedOnce ==
    ASSUME NEW dish, dish[2] = <<>>, NEW d \in ApplyDecoration(dish)
    PROVE  d \in Dishes /\ d[1] = dish[1] /\ Once(d[2])
<1>1. PICK f \in Settings : d = <<dish[1], dish[2] \o [j \in DOMAIN f |-> Toggles[f[j]]]>>
    BY DEF ApplyDecoration
<1>2. PICK n \in 0 .. Len(Toggles) :
          /\ f \in [1 .. n -> DOMAIN Toggles]
          /\ \A j, k \in 1 .. n : j < k => f[j] < f[k]
    BY <1>1 DEF Settings
<1>3. Toggles \in Seq(Variations) /\ Len(Toggles) \in Nat /\ DOMAIN Toggles = 1 .. Len(Toggles)
    BY TogglesAssumption, LenProperties
<1> DEFINE w == [j \in 1 .. n |-> Toggles[f[j]]]
<1>4. w \in Seq(Variations) /\ DOMAIN w = 1 .. n /\ \A j \in 1 .. n : w[j] = Toggles[f[j]]
    <2>1. \A j \in 1 .. n : Toggles[f[j]] \in Variations
        BY <1>2, <1>3, ElementOfSeq
    <2> QED
        BY <1>2, <1>3, <2>1, IsASeq
<1>5. DOMAIN f = 1 .. n
    BY <1>2
<1>6. d[2] = <<>> \o w
    BY <1>1, <1>5
<1> HIDE DEF w
<1>7. d[2] = w
    BY <1>4, <1>6, ConcatEmptySeq
<1>8. ASSUME NEW j \in 1 .. n, NEW k \in 1 .. n, w[j] = w[k] PROVE j = k
    <2>1. f[j] \in DOMAIN Toggles /\ f[k] \in DOMAIN Toggles /\ f[j] = f[k]
        BY <1>2, <1>4, <1>8, TogglesAssumption
    <2>2. f[j] \in Nat /\ f[k] \in Nat
        BY <1>3, <2>1
    <2>3. ~(f[j] < f[k]) /\ ~(f[k] < f[j])
        BY <2>1, <2>2
    <2>4. ~(j < k) /\ ~(k < j)
        BY <1>2, <2>3
    <2> QED
        BY ONLY n \in 0 .. Len(Toggles), j \in 1 .. n, k \in 1 .. n, <1>3, <2>4
<1>9. Once(d[2])
    BY <1>4, <1>7, <1>8 DEF Once
<1> QED
    BY <1>1, <1>9 DEF ApplyDecoration

--------------------------------------------------------------------------------
(* The kitchen's part *)

\* What no operation of module OrderService does: an order is enqueued a second time.
Again == /\ screen = "window" /\ number # 0
         /\ \E dish \in Dishes : EnqueueAgain(dish)

LEMMA GameOperates ==
    ASSUME GameInv, [Next]_vars PROVE [Kitchen!Operation]_kitchenVars \/ Again
<1>1. CASE HandleNewOrder \/ HandleSkip \/ Close
    BY <1>1 DEF HandleNewOrder, HandleSkip, Close
<1>2. CASE HandleCook
    <2>1. PICK dish \in Dishes : IF number = 0 THEN EnqueueNew(dish) ELSE EnqueueAgain(dish)
        BY <1>2 DEF HandleCook, ApplyDecoration
    <2>2. CASE number = 0
        <3>1. pendingOrder.created \in 0 .. now
            <4>1. pendingOrder.created \in Nat /\ pendingOrder.created <= now
                BY <1>2 DEF HandleCook, GameInv, PendingInv, Tickets
            <4> QED
                BY <4>1, Known
        <3> QED
            BY <1>2, <2>1, <2>2, <3>1
            DEF HandleCook, EnqueueNew, GameInv, PendingInv, Kitchen!Operation
    <2>3. CASE number # 0
        BY <1>2, <2>1, <2>3 DEF HandleCook, Again
    <2> QED
        BY <2>2, <2>3
<1>3. CASE TooLateToCook
    BY <1>3 DEF TooLateToCook, Kitchen!Operation
<1>4. CASE StartCooking
    BY <1>4 DEF StartCooking, Kitchen!Operation
<1>5. CASE Consume
    BY <1>5 DEF Consume, Kitchen!Operation, Kitchen!Processing
<1>6. CASE CookingThrows
    BY <1>6 DEF CookingThrows, Kitchen!Operation, Kitchen!Processing
<1>7. CASE Serve
    <2>1. PICK level \in 1 .. MaxLevel : level = playerSkillLevel
        BY Known DEF OwnTypes
    <2>2. \/ Kitchen!ServeTooLate(level)
          \/ \E t \in {now, now + 1} : Kitchen!ServeInTime(level, t)
        BY <1>7, <2>1 DEF Serve
    <2>3. Kitchen!Processing
        BY <2>2 DEF Kitchen!Processing
    <2> QED
        BY <2>3 DEF Kitchen!Operation
<1>8. CASE PayForPortions
    BY <1>8, AlertedIsKnown DEF PayForPortions, Prompting, Kitchen!Operation
<1>9. CASE RestockPortions
    <2>1. HasNext
        BY <1>9 DEF RestockPortions, GameInv, Flow, HasNext
    <2> QED
        BY <1>9, <2>1, AlertedIsKnown DEF RestockPortions, Kitchen!Operation
<1>10. CASE RemoveRecipes \/ IterationThrows
    BY <1>10 DEF RemoveRecipes, IterationThrows
<1>11. CASE FinishOrder
    BY <1>11 DEF FinishOrder, Kitchen!Operation
<1>12. CASE Tick
    BY <1>12 DEF Tick, Kitchen!Operation
<1>13. CASE UNCHANGED vars
    BY <1>13 DEF vars
<1> QED
    BY <1>1, <1>2, <1>3, <1>4, <1>5, <1>6, <1>7, <1>8, <1>9, <1>10, <1>11, <1>12, <1>13
    DEF Next, Handler, AnswerAlert

LEMMA KitchenTypes == ASSUME GameInv, [Next]_vars PROVE Kitchen!TypeOK'
<1>1. CASE [Kitchen!Operation]_kitchenVars
    BY <1>1, Known, KitchenTypeStep
<1>2. CASE Again
    <2>1. PICK dish \in Dishes : EnqueueAgain(dish)
        BY <1>2 DEF Again
    <2>2. number \in 1 .. Len(orders)
        BY <1>2, Known DEF Again, OwnTypes
    <2>3. dish \in Dishes
        BY <2>1
    <2>4. orders' \in Seq(Kitchen!Orders) /\ Len(orders') = Len(orders)
        BY <2>1, <2>2, <2>3, Redecorating
    <2>5. queue' \in Seq(1 .. Len(orders))
        <3>1. queue \in Seq(1 .. Len(orders)) /\ queue' = Append(queue, number)
            BY <2>1, Known DEF EnqueueAgain, Kitchen!AddLast, Kitchen!TypeOK, Kitchen!OrderNumbers
        <3> QED
            BY <2>2, <3>1, AppendProperties
    <2>6. Kitchen!Pantry!TypeOK'
        BY <2>1, Known DEF EnqueueAgain, Kitchen!Pantry!TypeOK
    <2> QED
        BY <2>1, <2>4, <2>5, <2>6, Known DEF EnqueueAgain, Kitchen!TypeOK, Kitchen!OrderNumbers
<1> QED
    BY <1>1, <1>2, GameOperates

\* As long as no handler was ended by an exception the kitchen keeps its promises.
LEMMA FreshKitchenStep == ASSUME GameInv, Fresh, [Next]_vars PROVE KitchenInv'
<1>1. ~Again
    BY DEF Again, Fresh, FreshOrders
<1> QED
    BY <1>1, GameOperates, KitchenInvStep DEF Fresh, FreshOrders

\* Nothing in the pantry is exchanged for something fresh.
LEMMA PantryAges ==
    ASSUME GameInv, [Next]_vars
    PROVE  /\ UNCHANGED <<stored, expiry>>
           /\ today' = today \/ today' = today + 1
<1>1. CASE HandleNewOrder \/ HandleSkip \/ Close \/ RemoveRecipes \/ IterationThrows
    BY <1>1 DEF HandleNewOrder, HandleSkip, Close, RemoveRecipes, IterationThrows, kitchenVars
<1>2. CASE HandleCook
    BY <1>2 DEF HandleCook, EnqueueNew, EnqueueAgain, Kitchen!EnqueueOrder, Kitchen!pantryVars
<1>3. CASE TooLateToCook \/ StartCooking
    BY <1>3 DEF TooLateToCook, StartCooking, Kitchen!CloseOverdue, Kitchen!TakeUp,
       Kitchen!Pantry!BeginConsume, Kitchen!pantryVars
<1>4. CASE Consume
    BY <1>4 DEF Consume, Kitchen!Consume, Kitchen!Pantry!ConsumeStep,
       Kitchen!Pantry!MissingThrows, Kitchen!Pantry!ExpiredThrows, Kitchen!Pantry!FoundFresh,
       Kitchen!Pantry!Take, Kitchen!Pantry!UnavailableThrows, Kitchen!Pantry!Warn
<1>5. CASE CookingThrows \/ Serve
    BY <1>5 DEF CookingThrows, Serve, Kitchen!StrandOrder, Kitchen!ServeTooLate,
       Kitchen!ServeInTime, Kitchen!Pantry!ReturnToCaller
<1>6. CASE PayForPortions \/ RestockPortions \/ FinishOrder
    BY <1>6 DEF PayForPortions, RestockPortions, FinishOrder, Kitchen!SpendFunds,
       Kitchen!Restock, Kitchen!ClearAlerts, Kitchen!Pantry!RestockIngredient,
       Kitchen!Pantry!ClearAlerts, Kitchen!pantryVars
<1>7. CASE Tick
    BY <1>7 DEF Tick, Kitchen!Tick, Kitchen!Pantry!Midnight, Kitchen!pantryVars
<1>8. CASE UNCHANGED vars
    BY <1>8 DEF vars, kitchenVars
<1> QED
    BY <1>1, <1>2, <1>3, <1>4, <1>5, <1>6, <1>7, <1>8 DEF Next, Handler, AnswerAlert

LEMMA SpoiledRemains == ASSUME GameInv, [Next]_vars PROVE Spoiled => Spoiled'
BY Known, PantryAges, SpoiledStays

\* The stock, the alerts given and the book stay as they are.
LEMMA StockAsBefore ==
    ASSUME GameInv, Fresh, UNCHANGED <<quantity, alerts, basket, recipes>>,
           at = "warn" <=> at' = "warn", Given' = Given
    PROVE  Supplied' /\ Provided(Given)'
<1>1. PICK g : g = Given
    OBVIOUS
<1>2. Supplied'
    BY StockKept DEF Fresh, FreshStock
<1>3. Provided(g) /\ g \in Nat /\ recipes \subseteq Recipes
    BY <1>1, Known DEF Fresh, FreshStock, OwnTypes, Provided, Settled, Announced
<1>4. Provided(g)'
    BY <1>3, StillProvided, StockKept
<1>5. Given' = g
    BY <1>1
<1> QED
    BY <1>2, <1>4, <1>5 DEF Provided, Settled, Announced

--------------------------------------------------------------------------------
(* Every step keeps the invariant *)

LEMMA WindowKeeps ==
    ASSUME GameInv, [Next]_vars, HandleNewOrder \/ HandleSkip \/ Close
    PROVE  GameInv'
<1>1. /\ screen = "window" /\ screen' \in {"window", "closed"}
      /\ UNCHANGED <<kitchenVars, shown, progress, iterator>>
    BY DEF HandleNewOrder, HandleSkip, Close, widgets
<1>2. /\ UNCHANGED <<stored, quantity, expiry, alerts, today, basket, at, now, orders, queue,
                     current, totalEarnings, recipes, playerSkillLevel, ordersCompleted, cursor,
                     expected>>
    BY <1>1 DEF kitchenVars, progress, iterator
<1>3. \/ HandleNewOrder
      \/ pendingOrder' = Null /\ number' = 0 /\ cookingEnabled' = FALSE
      \/ UNCHANGED <<pendingOrder, number, cookingEnabled>> /\ screen' = "closed"
    BY DEF HandleSkip, Dismiss, Close, widgets, orderWidgets
<1>4. ASSUME HandleNewOrder
      PROVE  /\ pendingOrder' \in Tickets /\ pendingOrder' # Null
             /\ pendingOrder'.created = now
             /\ pendingOrder'.patience \in UNION {PatienceOf[d] : d \in Dishes}
             /\ pendingOrder'.dish[1] \in recipes /\ pendingOrder'.dish[2] = <<>>
             /\ number' = 0 /\ cookingEnabled' = TRUE
    <2>1. PICK r \in Available : pendingOrder' \in NewOrders(Plain(r))
        BY <1>4 DEF HandleNewOrder
    <2>2. /\ r \in recipes
          /\ Plain(r) \in Dishes /\ Plain(r)[1] = r /\ Plain(r)[2] = <<>>
        BY Known, PlainIsDish DEF Available, FindByMaxSkillLevel, OwnTypes
    <2>3. PatienceOf[Plain(r)] \subseteq Nat \ {0}
        BY <2>2, GameRecipes
    <2>4. /\ pendingOrder'.dish = Plain(r) /\ pendingOrder'.created = now
          /\ pendingOrder'.patience \in PatienceOf[Plain(r)]
          /\ pendingOrder' \in Tickets
        BY <2>1, <2>2, <2>3, Known DEF NewOrders, Tickets
    <2> QED
        BY <1>4, <2>2, <2>4, TicketIsSomething DEF HandleNewOrder
<1>5. OwnTypes'
    <2>1. CASE HandleNewOrder
        BY <1>1, <1>2, <1>4, <2>1, Known DEF OwnTypes
    <2>2. CASE pendingOrder' = Null /\ number' = 0 /\ cookingEnabled' = FALSE
        <3>1. 0 \in 0 .. Len(orders')
            BY <1>2, Known
        <3>2. pendingOrder' \in Tickets \cup {Null} /\ cookingEnabled' \in BOOLEAN
            BY <2>2
        <3> QED
            BY <1>1, <1>2, <2>2, <3>1, <3>2, Known DEF OwnTypes
    <2>3. CASE UNCHANGED <<pendingOrder, number, cookingEnabled>> /\ screen' = "closed"
        BY <1>1, <1>2, <2>3, Known DEF OwnTypes
    <2> QED
        BY <1>3, <2>1, <2>2, <2>3
<1>6. TypeOK'
    BY <1>5, KitchenTypes, TypeParts
<1>7. Flow'
    BY <1>1, <1>2 DEF GameInv, Flow, AtRest
<1>8. PendingInv'
    <2>1. CASE HandleNewOrder
        <3>1. now \in Nat
            BY Known
        <3> QED
            BY <1>2, <1>4, <2>1, <3>1 DEF PendingInv
    <2>2. CASE pendingOrder' = Null /\ number' = 0 /\ cookingEnabled' = FALSE
        BY <2>2 DEF PendingInv
    <2>3. CASE UNCHANGED <<pendingOrder, number, cookingEnabled>> /\ screen' = "closed"
        BY <1>2, <2>3 DEF GameInv, PendingInv
    <2> QED
        BY <1>3, <2>1, <2>2, <2>3
<1>9. FiguresInv' /\ BookInv'
    BY <1>1, <1>2 DEF GameInv, FiguresInv, Entitles, BookInv
<1>10. ASSUME Fresh PROVE Fresh'
    <2>1. Supplied' /\ Provided(Given)'
        BY <1>1, <1>2, <1>10, StockAsBefore DEF Given
    <2>2. FreshStock'
        BY <1>1, <1>2, <1>3, <1>4, <1>10, <2>1 DEF Fresh, FreshStock, ListGrew
    <2>3. FreshOrders'
        BY <1>1, <1>2, <1>3, <1>4, <1>10, FreshKitchenStep DEF Fresh, FreshOrders, Once
    <2> QED
        BY <2>2, <2>3 DEF Fresh
<1> QED
    BY <1>6, <1>7, <1>8, <1>9, <1>10, SpoiledRemains DEF GameInv

LEMMA TickKeeps == ASSUME GameInv, [Next]_vars, Tick PROVE GameInv'
<1>1. /\ UNCHANGED <<screen, widgets, progress, iterator>>
      /\ now' = now + 1
      /\ UNCHANGED <<quantity, alerts, basket, at, orders, queue, current, completedOrders,
                     totalEarnings, satisfactionScores>>
    BY DEF Tick, Kitchen!Tick, Kitchen!pantryVars, Kitchen!orderVars, Kitchen!books,
           Kitchen!Pantry!Midnight
<1>2. UNCHANGED <<recipes, playerSkillLevel, ordersCompleted, cursor, expected, pendingOrder,
                  number, cookingEnabled, shown>>
    BY <1>1 DEF widgets, orderWidgets, progress, iterator
<1>3. OwnTypes'
    BY <1>1, <1>2, Known DEF OwnTypes
<1>4. TypeOK'
    BY <1>3, KitchenTypes, TypeParts
<1>5. Flow'
    BY <1>1, <1>2 DEF GameInv, Flow, AtRest, OwnIsLast
<1>6. PendingInv'
    <2>1. ASSUME pendingOrder # Null PROVE pendingOrder.created <= now'
        <3>1. pendingOrder.created \in Nat /\ pendingOrder.created <= now /\ now \in Nat
            BY <2>1, Known DEF GameInv, PendingInv, Tickets
        <3> QED
            BY <1>1, <3>1
    <2> QED
        BY <1>2, <2>1 DEF GameInv, PendingInv
<1>7. FiguresInv' /\ BookInv'
    BY <1>2, PantryAges DEF GameInv, FiguresInv, Entitles, BookInv
<1>8. ASSUME Fresh PROVE Fresh'
    <2>1. Supplied' /\ Provided(Given)'
        BY <1>1, <1>2, <1>8, StockAsBefore DEF Given
    <2>2. FreshStock'
        BY <1>1, <1>2, <1>8, <2>1 DEF Fresh, FreshStock, ListGrew
    <2>3. FreshOrders'
        BY <1>1, <1>2, <1>8, FreshKitchenStep DEF Fresh, FreshOrders, Once
    <2> QED
        BY <2>2, <2>3 DEF Fresh
<1> QED
    BY <1>4, <1>5, <1>6, <1>7, <1>8, SpoiledRemains DEF GameInv

\* Pressing Cook, up to the queue: the order is the only one in it, whether it is new or
\* was left behind by an exception.
LEMMA CookKeeps == ASSUME GameInv, [Next]_vars, HandleCook PROVE GameInv'
<1>1. /\ screen = "window" /\ screen' = "cooking" /\ cookingEnabled /\ pendingOrder # Null
      /\ UNCHANGED <<cookingEnabled, shown, progress, iterator>>
    BY DEF HandleCook
<1>2. PICK dish \in ApplyDecoration(pendingOrder.dish) :
          /\ pendingOrder' = [pendingOrder EXCEPT !.dish = dish]
          /\ IF number = 0 THEN EnqueueNew(dish) ELSE EnqueueAgain(dish)
    BY DEF HandleCook
<1>3. dish \in Dishes /\ dish[1] = pendingOrder.dish[1]
    <2>1. PICK w : dish = <<pendingOrder.dish[1], w>>
        BY DEF ApplyDecoration
    <2>2. dish[1] = pendingOrder.dish[1]
        BY <2>1
    <2> QED
        BY <2>2 DEF ApplyDecoration
<1>4. UNCHANGED <<recipes, playerSkillLevel, ordersCompleted, cursor, expected, stored, quantity,
                  expiry, alerts, today, basket, at, now, current, completedOrders, totalEarnings,
                  satisfactionScores>>
    BY <1>1, <1>2 DEF progress, iterator, EnqueueNew, EnqueueAgain, Kitchen!EnqueueOrder,
       Kitchen!pantryVars, Kitchen!books
<1>5. /\ pendingOrder \in Tickets
      /\ pendingOrder.created <= now
      /\ pendingOrder.patience \in UNION {PatienceOf[d] : d \in Dishes}
    BY <1>1 DEF GameInv, PendingInv
<1>6. /\ pendingOrder' \in Tickets /\ pendingOrder' # Null
      /\ pendingOrder'.created = pendingOrder.created
      /\ pendingOrder'.patience = pendingOrder.patience
      /\ pendingOrder'.dish = dish
    BY <1>2, <1>3, <1>5, TicketIsSomething DEF Tickets
<1>7. queue = <<>> /\ current = 0 /\ at = "idle"
    BY <1>1 DEF GameInv, Flow, AtRest
<1>8. /\ number' \in 1 .. Len(orders') /\ Len(orders') \in Nat
      /\ queue' = <<number'>>
      /\ orders'[number'].dish = dish
      /\ number = 0 => \A p \in 1 .. Len(orders') : p # number' => /\ p \in 1 .. Len(orders)
                                                                 /\ orders'[p] = orders[p]
    <2>1. CASE number = 0
        <3>1. /\ orders' = Append(orders, [dish |-> dish, created |-> pendingOrder.created,
                                           patience |-> pendingOrder.patience,
                                           status |-> "PENDING", satisfaction |-> 0])
              /\ queue' = Append(queue, Len(orders) + 1)
              /\ number' = Len(orders) + 1
            BY <1>2, <2>1 DEF EnqueueNew, Kitchen!EnqueueOrder, Kitchen!AddLast
        <3>2. PICK e : /\ e.dish = dish
                       /\ orders' = Append(orders, e)
            BY <3>1
        <3>3. orders \in Seq(Kitchen!Orders \cup {e})
            BY Known, SeqMonotonic
        <3>4. /\ Len(orders') = Len(orders) + 1 /\ orders'[Len(orders) + 1] = e
              /\ \A p \in 1 .. Len(orders) : orders'[p] = orders[p]
            BY <3>2, <3>3, AppendProperties
        <3>5. Len(orders) \in Nat
            BY Known
        <3> QED
            BY <1>7, <3>1, <3>2, <3>4, <3>5
    <2>2. CASE number # 0
        <3>1. EnqueueAgain(dish) /\ queue' = Append(queue, number) /\ number' = number
            BY <1>2, <2>2 DEF EnqueueAgain, Kitchen!AddLast
        <3>2. number \in 1 .. Len(orders) /\ Len(orders) \in Nat
            BY <2>2, Known DEF OwnTypes
        <3>3. Len(orders') = Len(orders) /\ orders'[number].dish = dish
            BY <1>3, <3>1, <3>2, Redecorating
        <3> QED
            BY <1>7, <2>2, <3>1, <3>2, <3>3
    <2> QED
        BY <2>1, <2>2
<1>9. OwnTypes'
    BY <1>1, <1>4, <1>6, <1>8, Known DEF OwnTypes
<1>10. TypeOK'
    BY <1>9, KitchenTypes, TypeParts
<1>11. Flow'
    BY <1>1, <1>4, <1>6, <1>7, <1>8 DEF Flow
<1>12. PendingInv'
    BY <1>1, <1>4, <1>5, <1>6 DEF GameInv, PendingInv
<1>13. FiguresInv' /\ BookInv'
    BY <1>1, <1>4 DEF GameInv, FiguresInv, Entitles, BookInv
<1>14. ASSUME Fresh PROVE Fresh'
    <2>1. Supplied' /\ Provided(Given)'
        BY <1>1, <1>4, <1>14, StockAsBefore DEF Given
    <2>2. FreshStock'
        BY <1>1, <1>3, <1>4, <1>6, <1>14, <2>1 DEF Fresh, FreshStock
    <2>3. number = 0 /\ pendingOrder.dish[2] = <<>>
        BY <1>1, <1>14 DEF Fresh, FreshOrders
    <2>4. Once(dish[2])
        BY <1>2, <2>3, DecoratedOnce
    <2>5. ASSUME NEW p \in 1 .. Len(orders') PROVE Once(orders[p].dish[2])'
        <3>1. CASE p = number'
            BY <1>8, <2>4, <3>1 DEF Once
        <3>2. CASE p # number'
            <4>1. p \in 1 .. Len(orders) /\ orders'[p] = orders[p] /\ Once(orders[p].dish[2])
                BY <1>8, <1>14, <2>3, <3>2 DEF Fresh, FreshOrders
            <4> QED
                BY <4>1 DEF Once
        <3> QED
            BY <3>1, <3>2
    <2>6. FreshOrders'
        BY <1>1, <1>4, <1>14, <2>5, FreshKitchenStep DEF Fresh, FreshOrders, Once
    <2> QED
        BY <2>2, <2>6 DEF Fresh
<1> QED
    BY <1>10, <1>11, <1>12, <1>13, <1>14, SpoiledRemains DEF GameInv

\* The figures fit into the status bar, and are those of the moment.
LEMMA BarUpdated ==
    ASSUME Kitchen!TypeOK', playerSkillLevel' \in 1 .. MaxLevel, ordersCompleted' \in Nat,
           UpdateStatusBar
    PROVE  /\ shown' \in [skill : 1 .. MaxLevel, earned : Int, satisfaction : Int, orders : Nat]
           /\ shown'.skill = playerSkillLevel' /\ shown'.orders = ordersCompleted'
           /\ shown'.earned = totalEarnings'
<1>1. totalEarnings' \in Int /\ totalSatisfaction' \in Int /\ totalOrders' \in Nat
    BY DEF Kitchen!TypeOK
<1>2. AverageSatisfaction' \in Int
    BY <1>1 DEF AverageSatisfaction
<1> QED
    BY <1>1, <1>2 DEF UpdateStatusBar

LEMMA OnceKept ==
    ASSUME Fresh, Len(orders') = Len(orders),
           \A p \in 1 .. Len(orders) : orders'[p].dish = orders[p].dish
    PROVE  (\A o \in 1 .. Len(orders) : Once(orders[o].dish[2]))'
BY DEF Fresh, FreshOrders, Once

LEMMA TooLateKeeps == ASSUME GameInv, [Next]_vars, TooLateToCook PROVE GameInv'
<1>1. /\ screen = "cooking" /\ screen' = "window" /\ current = 0
      /\ pendingOrder' = Null /\ number' = 0 /\ cookingEnabled' = FALSE
      /\ queue' = Tail(queue) /\ Kitchen!CloseOrder(Head(queue), "EXPIRED", 0, 0)
      /\ totalEarnings' = totalEarnings + 0
      /\ UNCHANGED <<shown, progress, iterator, stored, quantity, expiry, alerts, today, basket,
                     at, now, current>>
    BY DEF TooLateToCook, Dismiss, Kitchen!CloseOverdue, Kitchen!Idle, Kitchen!PollFirst,
           Kitchen!CloseOrder, Kitchen!Fulfil, Kitchen!Earning, Kitchen!pantryVars
<1>2. UNCHANGED <<recipes, playerSkillLevel, ordersCompleted, cursor, expected>>
    BY <1>1 DEF progress, iterator
<1>3. queue = <<number>> /\ at = "idle" /\ number \in 1 .. Len(orders)
    BY <1>1, Known DEF GameInv, Flow, OwnTypes
<1>4. Head(queue) = number /\ queue' = <<>>
    BY <1>1, <1>3
<1>5. /\ Len(orders') = Len(orders)
      /\ \A p \in 1 .. Len(orders) : orders'[p].dish = orders[p].dish
    BY <1>1, <1>3, <1>4, Known, Closing
<1>6. OwnTypes'
    <2>1. 0 \in 0 .. Len(orders')
        BY <1>5, Known
    <2>2. cookingEnabled' \in BOOLEAN
        BY <1>1
    <2> QED
        BY <1>1, <1>2, <2>1, <2>2, Known DEF OwnTypes
<1>7. TypeOK'
    BY <1>6, KitchenTypes, TypeParts
<1>8. Flow' /\ PendingInv'
    BY <1>1, <1>3, <1>4 DEF Flow, AtRest, PendingInv
<1>9. FiguresInv' /\ BookInv'
    BY <1>1, <1>2 DEF GameInv, FiguresInv, Entitles, BookInv
<1>10. ASSUME Fresh PROVE Fresh'
    <2>1. Supplied' /\ Provided(Given)'
        BY <1>1, <1>2, <1>10, StockAsBefore DEF Given
    <2>2. FreshStock'
        BY <1>1, <1>10, <2>1 DEF Fresh, FreshStock
    <2>3. totalEarnings' = totalEarnings
        BY <1>1, Known
    <2>4. FreshOrders'
        BY <1>1, <1>5, <1>10, <2>3, OnceKept, FreshKitchenStep DEF Fresh, FreshOrders
    <2> QED
        BY <2>2, <2>4 DEF Fresh
<1> QED
    BY <1>7, <1>8, <1>9, <1>10, SpoiledRemains DEF GameInv

LEMMA StartKeeps == ASSUME GameInv, [Next]_vars, StartCooking PROVE GameInv'
<1>1. /\ screen = "cooking" /\ current = 0 /\ Kitchen!TakeUp
      /\ UNCHANGED <<screen, widgets, progress, iterator, now, totalEarnings>>
      /\ queue' = Tail(queue) /\ current' = Head(queue)
      /\ Kitchen!Pantry!BeginConsume(
             [d \in Dishes |-> Ingredients[d[1]]][orders[Head(queue)].dish])
    BY DEF StartCooking, Kitchen!TakeUp, Kitchen!Idle, Kitchen!PollFirst, Kitchen!books
<1>2. UNCHANGED <<recipes, playerSkillLevel, ordersCompleted, cursor, expected, pendingOrder,
                  number, cookingEnabled, shown>>
    BY <1>1 DEF widgets, orderWidgets, progress, iterator
<1>3. /\ queue = <<number>> /\ number \in 1 .. Len(orders) /\ number # 0
      /\ orders[number].dish = pendingOrder.dish /\ pendingOrder # Null
    BY <1>1, Known DEF GameInv, Flow, OwnTypes
<1>4. Head(queue) = number /\ queue' = <<>> /\ current' = number
    BY <1>1, <1>3
<1>5. /\ Len(orders') = Len(orders)
      /\ \A p \in 1 .. Len(orders) : orders'[p].dish = orders[p].dish
    BY <1>1, <1>3, <1>4, Known, TakingUp
<1>6. pendingOrder.dish \in Dishes
    BY <1>3 DEF GameInv, PendingInv, Tickets
<1>7. Kitchen!Pantry!BeginConsume(Ingredients[pendingOrder.dish[1]])
    BY <1>1, <1>3, <1>4, <1>6
<1>8. at' \in {"check", "returned"}
    BY <1>1 DEF Kitchen!Pantry!BeginConsume
<1>9. OwnTypes'
    BY <1>1, <1>2, <1>5, Known DEF OwnTypes
<1>10. TypeOK'
    BY <1>9, KitchenTypes, TypeParts
<1>11. Flow'
    BY <1>1, <1>2, <1>3, <1>4, <1>8 DEF Flow
<1>12. PendingInv'
    BY <1>1, <1>2 DEF GameInv, PendingInv
<1>13. FiguresInv' /\ BookInv'
    BY <1>2, PantryAges DEF GameInv, FiguresInv, Entitles, BookInv
<1>14. ASSUME Fresh PROVE Fresh'
    <2>1. PICK r \in recipes : r = pendingOrder.dish[1]
        BY <1>1, <1>14 DEF Fresh, FreshStock
    <2>2. alerts = <<>> /\ Given = 0 /\ Provided(0) /\ Supplied
        BY <1>1, <1>14 DEF Fresh, FreshStock, Given, Provided, Settled, Announced
    <2>3. /\ Supplied'
          /\ alerts' = alerts
          /\ \A i \in Ids : Settled(i, 0) => Settled(i, 0)'
        BY <1>7, <2>1, <2>2, Known, Beginning DEF GameInv, BookInv
    <2>4. Provided(0)'
        BY <1>2, <2>2, <2>3, Known, StillProvided DEF OwnTypes
    <2>5. Given' = 0
        BY <1>1 DEF Given
    <2>6. Provided(Given)'
        BY <2>4, <2>5 DEF Provided, Settled, Announced
    <2>7. FreshStock'
        BY <1>1, <1>2, <1>8, <2>1, <2>2, <2>3, <2>6 DEF FreshStock
    <2>8. FreshOrders'
        BY <1>1, <1>2, <1>5, <1>14, OnceKept, FreshKitchenStep DEF Fresh, FreshOrders
    <2> QED
        BY <2>7, <2>8 DEF Fresh
<1> QED
    BY <1>10, <1>11, <1>12, <1>13, <1>14, SpoiledRemains DEF GameInv

LEMMA ConsumeKeeps == ASSUME GameInv, [Next]_vars, Consume PROVE GameInv'
<1>1. /\ screen = "cooking" /\ Kitchen!Pantry!ConsumeStep
      /\ UNCHANGED <<screen, widgets, progress, iterator, now, orders, queue, current,
                     totalEarnings>>
    BY DEF Consume, Kitchen!Consume, Kitchen!orderVars, Kitchen!books
<1>2. UNCHANGED <<recipes, playerSkillLevel, ordersCompleted, cursor, expected, pendingOrder,
                  number, cookingEnabled, shown>>
    BY <1>1 DEF widgets, orderWidgets, progress, iterator
<1>3. at # "idle" /\ at' # "idle"
    BY <1>1 DEF Kitchen!Pantry!ConsumeStep, Kitchen!Pantry!MissingThrows,
       Kitchen!Pantry!ExpiredThrows, Kitchen!Pantry!FoundFresh, Kitchen!Pantry!Take,
       Kitchen!Pantry!UnavailableThrows, Kitchen!Pantry!Warn, Kitchen!Pantry!Throw
<1>4. OwnTypes'
    BY <1>1, <1>2, Known DEF OwnTypes
<1>5. TypeOK'
    BY <1>4, KitchenTypes, TypeParts
<1>6. Flow'
    BY <1>1, <1>2, <1>3 DEF GameInv, Flow
<1>7. PendingInv'
    BY <1>1, <1>2 DEF GameInv, PendingInv
<1>8. FiguresInv' /\ BookInv'
    BY <1>2, PantryAges DEF GameInv, FiguresInv, Entitles, BookInv
<1>9. ASSUME Fresh, ~Spoiled PROVE Fresh'
    <2>1. Given = 0 /\ Provided(0) /\ Supplied
        BY <1>1, <1>9 DEF Fresh, FreshStock, Given, Provided, Settled, Announced
    <2>2. /\ Supplied' /\ at' # "threw"
          /\ \A i \in Ids : Settled(i, 0) => Settled(i, 0)'
        BY <1>1, <1>9, <2>1, Known, Consuming DEF GameInv, BookInv
    <2>3. Provided(0)'
        BY <1>2, <2>1, <2>2, Known, StillProvided DEF OwnTypes
    <2>4. Given' = 0
        BY <1>1 DEF Given
    <2>5. Provided(Given)'
        BY <2>3, <2>4 DEF Provided, Settled, Announced
    <2>6. current # 0
        BY <1>1, <1>3 DEF GameInv, Flow
    <2>7. FreshStock'
        BY <1>1, <1>2, <1>9, <2>2, <2>5, <2>6 DEF Fresh, FreshStock
    <2>8. FreshOrders'
        BY <1>1, <1>2, <1>9, OnceKept, FreshKitchenStep DEF Fresh, FreshOrders
    <2> QED
        BY <2>7, <2>8 DEF Fresh
<1> QED
    BY <1>5, <1>6, <1>7, <1>8, <1>9, SpoiledRemains DEF GameInv

\* An exception leaves pendingOrder and the buttons as they are.
LEMMA ThrowKeeps ==
    ASSUME GameInv, [Next]_vars, CookingThrows \/ IterationThrows PROVE GameInv'
<1>1. /\ screen' = "window"
      /\ current' = 0 /\ at' = "idle" /\ queue' = <<>>
      /\ UNCHANGED <<widgets, progress, iterator, now, orders>>
    <2>1. CASE CookingThrows
        BY <2>1 DEF CookingThrows, Kitchen!StrandOrder, Kitchen!Pantry!ReturnToCaller,
           Kitchen!books, GameInv, Flow
    <2>2. CASE IterationThrows
        BY <2>2 DEF IterationThrows, GameInv, Flow, AtRest, kitchenVars
    <2> QED
        BY <2>1, <2>2
<1>2. UNCHANGED <<recipes, playerSkillLevel, ordersCompleted, cursor, expected, pendingOrder,
                  number, cookingEnabled, shown>>
    BY <1>1 DEF widgets, orderWidgets, progress, iterator
<1>3. OwnTypes'
    BY <1>1, <1>2, Known DEF OwnTypes
<1>4. TypeOK'
    BY <1>3, KitchenTypes, TypeParts
<1>5. Flow'
    BY <1>1 DEF Flow, AtRest
<1>6. PendingInv'
    BY <1>1, <1>2 DEF GameInv, PendingInv
<1>7. FiguresInv' /\ BookInv'
    BY <1>2, PantryAges DEF GameInv, FiguresInv, Entitles, BookInv
<1>8. ~Fresh
    BY DEF Fresh, FreshStock, CookingThrows, IterationThrows, Kitchen!StrandOrder
<1> QED
    BY <1>4, <1>5, <1>6, <1>7, <1>8, SpoiledRemains DEF GameInv

LEMMA LastOfAppend ==
    ASSUME NEW S, NEW seq \in Seq(S), NEW e
    PROVE  Append(seq, e)[Len(Append(seq, e))] = e
<1>1. seq \in Seq(S \cup {e})
    BY SeqMonotonic
<1> QED
    BY <1>1, AppendProperties

\* The result: the order, which is no longer processed, is the last of the lists.
LEMMA ServeKeeps == ASSUME GameInv, [Next]_vars, Serve PROVE GameInv'
<1>1. /\ screen = "cooking" /\ screen' = "alerts" /\ cursor' = 0 /\ expected' = Len(alerts)
      /\ current # 0 /\ current' = 0 /\ at = "returned" /\ at' = "idle"
      /\ playerSkillLevel' = LevelAfter(ordersCompleted + 1)
      /\ ordersCompleted' = ordersCompleted + 1
      /\ UpdateStatusBar
      /\ UNCHANGED <<orderWidgets, recipes, stored, quantity, expiry, alerts, today, basket, now,
                     queue>>
    BY DEF Serve, BeginAlerts, Kitchen!ServeTooLate, Kitchen!ServeInTime,
           Kitchen!Pantry!ReturnToCaller
<1>2. UNCHANGED <<pendingOrder, number, cookingEnabled>>
    BY <1>1 DEF orderWidgets
<1>3. queue = <<>> /\ current = number /\ number \in 1 .. Len(orders) /\ pendingOrder # Null
    <2>1. queue = <<>> /\ current = number /\ pendingOrder # Null
        BY <1>1 DEF GameInv, Flow
    <2>2. number # 0 /\ number \in 0 .. Len(orders) /\ Len(orders) \in Nat
        BY <1>1, <2>1, Known DEF OwnTypes
    <2> QED
        BY <2>1, <2>2
<1>4. PICK status, score, s : Kitchen!CloseOrder(number, status, score, s)
    <2>1. \E status, score, s : Kitchen!CloseOrder(current, status, score, s)
        BY DEF Serve, Kitchen!ServeTooLate, Kitchen!ServeInTime
    <2> QED
        BY <1>3, <2>1
<1>5. /\ Len(orders') = Len(orders) /\ orders'[number].satisfaction = s
      /\ \A p \in 1 .. Len(orders) : orders'[p].dish = orders[p].dish
    BY <1>3, <1>4, Known, Closing
<1>6. OwnIsLast'
    <2>1. /\ completedOrders' = Append(completedOrders, number)
          /\ satisfactionScores' = Append(satisfactionScores, s)
        BY <1>4 DEF Kitchen!CloseOrder, Kitchen!Count
    <2>2. completedOrders \in Seq(Kitchen!OrderNumbers) /\ satisfactionScores \in Seq(Int)
        BY Known DEF Kitchen!TypeOK
    <2>3. /\ completedOrders'[Len(completedOrders')] = number
          /\ satisfactionScores'[Len(satisfactionScores')] = s
        BY <2>1, <2>2, LastOfAppend
    <2> QED
        BY <1>2, <1>5, <2>3 DEF OwnIsLast
<1>7. /\ playerSkillLevel' \in 1 .. MaxLevel /\ ordersCompleted' \in Nat
      /\ Entitles(ordersCompleted', playerSkillLevel')
    <2>1. ordersCompleted \in Nat /\ playerSkillLevel \in 1 .. MaxLevel
        BY Known DEF OwnTypes
    <2> QED
        BY <1>1, <2>1, LevelKeepsUp DEF GameInv, FiguresInv, Entitles
<1>8. Kitchen!TypeOK'
    BY KitchenTypes
<1>9. /\ shown' \in [skill : 1 .. MaxLevel, earned : Int, satisfaction : Int, orders : Nat]
      /\ shown'.skill = playerSkillLevel' /\ shown'.orders = ordersCompleted'
    BY <1>1, <1>7, <1>8, BarUpdated
<1>10. OwnTypes'
    <2>1. cursor' \in Nat /\ expected' \in Nat
        BY <1>1, Known
    <2>2. number' \in 0 .. Len(orders')
        BY <1>2, <1>5, Known DEF OwnTypes
    <2> QED
        BY <1>1, <1>2, <1>7, <1>9, <2>1, <2>2, Known DEF OwnTypes
<1>11. TypeOK'
    BY <1>8, <1>10, TypeParts
<1>12. Flow'
    <2>1. cursor' <= Len(alerts')
        BY <1>1, Known
    <2> QED
        BY <1>1, <1>3, <1>6, <2>1 DEF Flow, AtRest
<1>13. PendingInv'
    BY <1>1, <1>2 DEF GameInv, PendingInv
<1>14. FiguresInv' /\ BookInv'
    BY <1>1, <1>7, <1>9 DEF GameInv, FiguresInv, Entitles, BookInv
<1>15. ASSUME Fresh PROVE Fresh'
    <2>1. Given' = Given
        BY <1>1 DEF Given
    <2>2. Supplied' /\ Provided(Given)'
        BY <1>1, <1>15, <2>1, StockAsBefore
    <2>3. FreshStock'
        BY <1>1, <2>2 DEF FreshStock, ListGrew
    <2>4. FreshOrders'
        BY <1>1, <1>5, <1>15, OnceKept, FreshKitchenStep DEF Fresh, FreshOrders
    <2> QED
        BY <2>3, <2>4 DEF Fresh
<1> QED
    BY <1>11, <1>12, <1>13, <1>14, <1>15, SpoiledRemains DEF GameInv

LEMMA PayKeeps == ASSUME GameInv, [Next]_vars, PayForPortions PROVE GameInv'
<1>1. /\ screen = "alerts" /\ screen' = "buying" /\ HasNext
      /\ UNCHANGED <<widgets, progress, iterator, stored, quantity, expiry, alerts, today, basket,
                     at, now, orders, queue, current, completedOrders, satisfactionScores>>
    BY DEF PayForPortions, Prompting, Kitchen!SpendFunds, Kitchen!pantryVars, Kitchen!orderVars
<1>2. UNCHANGED <<recipes, playerSkillLevel, ordersCompleted, cursor, expected, pendingOrder,
                  number, cookingEnabled, shown>>
    BY <1>1 DEF widgets, orderWidgets, progress, iterator
<1>3. cursor < Len(alerts)
    BY <1>1, AlertedIsKnown
<1>4. OwnTypes'
    BY <1>1, <1>2, Known DEF OwnTypes
<1>5. TypeOK'
    BY <1>4, KitchenTypes, TypeParts
<1>6. Flow'
    BY <1>1, <1>2, <1>3 DEF GameInv, Flow, AtRest, OwnIsLast
<1>7. PendingInv'
    BY <1>1, <1>2 DEF GameInv, PendingInv
<1>8. FiguresInv' /\ BookInv'
    BY <1>1, <1>2 DEF GameInv, FiguresInv, Entitles, BookInv
<1>9. ASSUME Fresh PROVE Fresh'
    <2>1. Supplied' /\ Provided(Given)'
        BY <1>1, <1>2, <1>9, StockAsBefore DEF Given
    <2>2. FreshStock'
        BY <1>1, <1>2, <1>9, <2>1 DEF Fresh, FreshStock, ListGrew
    <2>3. FreshOrders'
        BY <1>1, <1>2, <1>9, FreshKitchenStep DEF Fresh, FreshOrders, Once
    <2> QED
        BY <2>2, <2>3 DEF Fresh
<1> QED
    BY <1>5, <1>6, <1>7, <1>8, <1>9, SpoiledRemains DEF GameInv

\* Ten portions: without spoiled food they are not announced again.
LEMMA RestockKeeps == ASSUME GameInv, [Next]_vars, RestockPortions PROVE GameInv'
<1>1. /\ screen = "buying" /\ screen' = "alerts" /\ cursor' = cursor + 1
      /\ Kitchen!Pantry!RestockIngredient(Alerted, Bought * Required[Alerted])
      /\ UNCHANGED <<widgets, recipes, playerSkillLevel, ordersCompleted, expected, now, orders,
                     queue, current, completedOrders, totalEarnings, satisfactionScores>>
    BY DEF RestockPortions, NextAlert, Kitchen!Restock, Kitchen!orderVars, Kitchen!books, progress
<1>2. UNCHANGED <<pendingOrder, number, cookingEnabled, shown>>
    BY <1>1 DEF widgets, orderWidgets
<1>3. PICK g \in Nat : g = cursor
    BY Known DEF OwnTypes
<1>4. g < Len(alerts)
    BY <1>1, <1>3 DEF GameInv, Flow
<1>5. Alerted = alerts[g + 1] /\ Alerted \in Ids
    BY <1>1, <1>3, <1>4, AlertedIsKnown, Known DEF Alerted, HasNext
<1>6. UNCHANGED <<stored, expiry, today, basket, at>>
    BY <1>1 DEF Kitchen!Pantry!RestockIngredient
<1>7. g + 1 <= Len(alerts')
    <2>1. alerts' = alerts \/ alerts' = Append(alerts, Alerted)
        BY <1>1 DEF Kitchen!Pantry!RestockIngredient, Kitchen!Pantry!CheckThresholds
    <2>2. Len(alerts') = Len(alerts) \/ Len(alerts') = Len(alerts) + 1
        BY <1>5, <2>1, Known, AppendProperties
    <2> QED
        BY <1>4, <2>2, Known
<1>8. OwnTypes'
    <2>1. cursor' \in Nat
        BY <1>1, <1>3
    <2> QED
        BY <1>1, <1>2, <2>1, Known DEF OwnTypes
<1>9. TypeOK'
    BY <1>8, KitchenTypes, TypeParts
<1>10. Flow'
    BY <1>1, <1>2, <1>3, <1>6, <1>7 DEF GameInv, Flow, AtRest, OwnIsLast
<1>11. PendingInv'
    BY <1>1, <1>2 DEF GameInv, PendingInv
<1>12. FiguresInv' /\ BookInv'
    BY <1>1, <1>2, <1>6 DEF GameInv, FiguresInv, Entitles, BookInv
<1>13. ASSUME Fresh, ~Spoiled PROVE Fresh'
    <2>1. Given = g /\ Given' = g + 1
        BY <1>1, <1>3 DEF Given
    <2>2. Provided(g) /\ Supplied /\ ~ListGrew
        BY <1>1, <1>13, <2>1 DEF Fresh, FreshStock, Provided, Settled, Announced
    <2>3. PICK amount \in Nat : /\ amount = Bought * Required[alerts[g + 1]]
                                /\ amount >= Required[alerts[g + 1]]
        BY <1>5, GameRequired DEF Bought
    <2>4. stored = Ids /\ Kitchen!Pantry!RestockIngredient(alerts[g + 1], amount)
        BY <1>1, <1>5, <2>3 DEF GameInv, BookInv
    <2>5. /\ Supplied'
          /\ Len(alerts') = Len(alerts)
          /\ \A i \in Ids : Settled(i, g) => Settled(i, g + 1)'
        BY <1>4, <1>13, <2>2, <2>3, <2>4, Known, Shopping
    <2>10. recipes \subseteq Recipes /\ recipes' \subseteq recipes /\ g + 1 \in Nat
        BY <1>1, Known DEF OwnTypes
    <2>6. Provided(g + 1)'
        BY <2>2, <2>5, <2>10, StillProvided
    <2>7. Provided(Given)'
        BY <2>1, <2>6 DEF Provided, Settled, Announced
    <2>8. FreshStock'
        BY <1>1, <1>6, <1>13, <2>2, <2>5, <2>7 DEF Fresh, FreshStock, ListGrew
    <2>9. FreshOrders'
        BY <1>1, <1>2, <1>13, FreshKitchenStep DEF Fresh, FreshOrders, Once
    <2> QED
        BY <2>8, <2>9 DEF Fresh
<1> QED
    BY <1>9, <1>10, <1>11, <1>12, <1>13, SpoiledRemains DEF GameInv

\* What is not bought is not needed any more.
LEMMA RemoveKeeps == ASSUME GameInv, [Next]_vars, RemoveRecipes PROVE GameInv'
<1>1. /\ screen = "alerts" /\ HasNext /\ ~ListGrew /\ cursor' = cursor + 1
      /\ RemoveRecipeWithIngredient(Alerted)
      /\ UNCHANGED <<kitchenVars, screen, widgets, playerSkillLevel, ordersCompleted, expected>>
    BY DEF RemoveRecipes, Prompting, NextAlert
<1>2. UNCHANGED <<stored, quantity, expiry, alerts, today, basket, at, now, orders, queue, current,
                  completedOrders, totalEarnings, satisfactionScores, pendingOrder, number,
                  cookingEnabled, shown>>
    BY <1>1 DEF kitchenVars, widgets, orderWidgets
<1>3. PICK g \in Nat : g = cursor
    BY Known DEF OwnTypes
<1>4. g < Len(alerts) /\ Alerted = alerts[g + 1]
    BY <1>1, <1>3, AlertedIsKnown DEF Alerted
<1>5. recipes' \subseteq recipes
    BY <1>1 DEF RemoveRecipeWithIngredient
<1>6. OwnTypes'
    <2>1. cursor' \in Nat /\ recipes' \subseteq Recipes
        BY <1>1, <1>3, <1>5, Known DEF OwnTypes
    <2> QED
        BY <1>1, <1>2, <2>1, Known DEF OwnTypes
<1>7. TypeOK'
    BY <1>6, KitchenTypes, TypeParts
<1>8. Flow'
    <2>1. cursor' <= Len(alerts')
        BY <1>1, <1>2, <1>3, <1>4, Known
    <2> QED
        BY <1>1, <1>2, <2>1 DEF GameInv, Flow, AtRest, OwnIsLast
<1>9. PendingInv'
    BY <1>2 DEF GameInv, PendingInv
<1>10. FiguresInv' /\ BookInv'
    BY <1>1, <1>2, <1>5 DEF GameInv, FiguresInv, Entitles, BookInv
<1>11. ASSUME Fresh PROVE Fresh'
    <2>1. Given = g /\ Given' = g + 1
        BY <1>1, <1>3 DEF Given
    <2>2. Provided(g)
        BY <1>11, <2>1 DEF Fresh, FreshStock, Provided, Settled, Announced
    <2>3. Provided(g + 1)'
        BY <1>1, <1>2, <1>4, <2>2, Known, Striking
    <2>4. Provided(Given)'
        BY <2>1, <2>3 DEF Provided, Settled, Announced
    <2>5. Supplied'
        BY <1>2, <1>11, StockKept DEF Fresh, FreshStock
    <2>6. FreshStock'
        BY <1>1, <1>2, <1>11, <2>4, <2>5 DEF Fresh, FreshStock, ListGrew
    <2>7. FreshOrders'
        BY <1>1, <1>2, <1>11, FreshKitchenStep DEF Fresh, FreshOrders, Once
    <2> QED
        BY <2>6, <2>7 DEF Fresh
<1> QED
    BY <1>7, <1>8, <1>9, <1>10, <1>11, SpoiledRemains DEF GameInv

\* The alerts are cleared when all have been given, so that nothing is owed.
LEMMA FinishKeeps == ASSUME GameInv, [Next]_vars, FinishOrder PROVE GameInv'
<1>1. /\ screen = "alerts" /\ screen' = "window" /\ cursor = Len(alerts)
      /\ alerts' = <<>> /\ pendingOrder' = Null /\ number' = 0 /\ cookingEnabled' = FALSE
      /\ UpdateStatusBar
      /\ UNCHANGED <<progress, iterator, stored, quantity, expiry, today, basket, at, now, orders,
                     queue, current, completedOrders, totalEarnings, satisfactionScores>>
    BY DEF FinishOrder, HasNext, Dismiss, Kitchen!ClearAlerts, Kitchen!Pantry!ClearAlerts,
           Kitchen!orderVars, Kitchen!books
<1>2. UNCHANGED <<recipes, playerSkillLevel, ordersCompleted, cursor, expected>>
    BY <1>1 DEF progress, iterator
<1>3. Kitchen!TypeOK'
    BY KitchenTypes
<1>4. playerSkillLevel' \in 1 .. MaxLevel /\ ordersCompleted' \in Nat
    BY <1>2, Known DEF OwnTypes
<1>5. /\ shown' \in [skill : 1 .. MaxLevel, earned : Int, satisfaction : Int, orders : Nat]
      /\ shown'.skill = playerSkillLevel' /\ shown'.orders = ordersCompleted'
      /\ shown'.earned = totalEarnings'
    BY <1>1, <1>3, <1>4, BarUpdated
<1>6. OwnTypes'
    <2>1. 0 \in 0 .. Len(orders')
        BY <1>1, Known
    <2>2. pendingOrder' \in Tickets \cup {Null} /\ cookingEnabled' \in BOOLEAN
        BY <1>1
    <2> QED
        BY <1>1, <1>2, <1>5, <2>1, <2>2, Known DEF OwnTypes
<1>7. TypeOK'
    BY <1>3, <1>6, TypeParts
<1>8. Flow' /\ PendingInv'
    BY <1>1 DEF GameInv, Flow, AtRest, PendingInv
<1>9. FiguresInv' /\ BookInv'
    BY <1>1, <1>2, <1>5 DEF GameInv, FiguresInv, Entitles, BookInv
<1>10. ASSUME Fresh PROVE Fresh'
    <2>1. PICK g \in Nat : g = cursor
        BY Known DEF OwnTypes
    <2>2. g >= Len(alerts) /\ at = "idle" /\ Provided(g)
        BY <1>1, <1>10, <2>1, Known
        DEF GameInv, Flow, AtRest, Fresh, FreshStock, Given, Provided, Settled, Announced
    <2>3. \A r \in recipes : \A k \in DOMAIN Ingredients[r] : Covered(Ingredients[r][k])
        BY <2>2, Known, AllCovered
    <2>4. Provided(Given)'
        <3>1. ASSUME NEW r \in recipes, NEW k \in DOMAIN Ingredients[r]
              PROVE  Settled(Ingredients[r][k], 0)'
            <4>0. r \in Recipes
                BY Known DEF OwnTypes
            <4>1. PICK i \in Ids : i = Ingredients[r][k]
                BY <4>0, GameRecipes, ElementOfSeq
            <4>2. Covered(i) /\ Portion(i)
                BY <2>3, <4>1, Known, CoveredIsPortion
            <4> QED
                BY <1>1, <4>1, <4>2 DEF Settled, Covered, Portion
        <3>2. Given' = 0
            BY <1>1 DEF Given
        <3> QED
            BY <1>2, <3>1, <3>2 DEF Provided, Settled, Covered, Portion, Announced
    <2>5. Supplied'
        <3>1. DOMAIN alerts' = {}
            BY <1>1
        <3> QED
            BY <1>1, <1>10, <3>1 DEF Fresh, FreshStock, Supplied, Covered, Portion
    <2>6. FreshStock'
        BY <1>1, <2>2, <2>4, <2>5 DEF FreshStock
    <2>7. FreshOrders'
        BY <1>1, <1>5, <1>10, FreshKitchenStep DEF Fresh, FreshOrders, Once
    <2> QED
        BY <2>6, <2>7 DEF Fresh
<1> QED
    BY <1>7, <1>8, <1>9, <1>10, SpoiledRemains DEF GameInv

LEMMA StutterKeeps == ASSUME GameInv, UNCHANGED vars PROVE GameInv'
<1>1. UNCHANGED <<stored, quantity, expiry, alerts, today, basket, at, now, orders, queue, current,
                  completedOrders, totalEarnings, satisfactionScores, screen, pendingOrder, number,
                  cookingEnabled, shown, recipes, playerSkillLevel, ordersCompleted, cursor,
                  expected>>
    BY DEF vars, kitchenVars, widgets, orderWidgets, progress, iterator
<1>2. [Next]_vars
    OBVIOUS
<1>3. OwnTypes'
    BY <1>1, Known DEF OwnTypes
<1>4. TypeOK'
    BY <1>2, <1>3, KitchenTypes, TypeParts
<1>5. Flow' /\ PendingInv' /\ FiguresInv' /\ BookInv'
    BY <1>1 DEF GameInv, Flow, AtRest, OwnIsLast, PendingInv, FiguresInv, Entitles, BookInv
<1>6. ASSUME Fresh PROVE Fresh'
    <2>1. Supplied' /\ Provided(Given)'
        BY <1>1, <1>6, StockAsBefore DEF Given
    <2>2. FreshStock'
        BY <1>1, <1>6, <2>1 DEF Fresh, FreshStock, ListGrew
    <2>3. FreshOrders'
        BY <1>1, <1>2, <1>6, FreshKitchenStep DEF Fresh, FreshOrders, Once
    <2> QED
        BY <2>2, <2>3 DEF Fresh
<1> QED
    BY <1>2, <1>4, <1>5, <1>6, SpoiledRemains DEF GameInv

--------------------------------------------------------------------------------
(* What the dialogues cost.  Every purchase of an ingredient is paid for in dollars, which    *)
(* can be counted, and is justified by the orders that have used up the one before.         *)

LEMMA FewPortions ==
    ASSUME NEW q \in Int, NEW r \in Nat \ {0}, NEW p \in Int, q >= p * r, q < 2 * r
    PROVE  p < 2
<1>1. ASSUME p >= 2 PROVE FALSE
    <2>1. PICK d \in Nat : p = d + 2
        BY <1>1
    <2>2. d * r >= 0
        BY <2>1
    <2>3. p * r = d * r + 2 * r
        BY <2>1
    <2>4. p * r \in Int /\ d * r \in Int
        OBVIOUS
    <2> QED
        BY <2>2, <2>3, <2>4
<1> QED
    BY <1>1

LEMMA FewerPortions ==
    ASSUME NEW q \in Int, NEW r \in Nat \ {0}, NEW p \in Int, NEW s \in Int, s <= p, q >= p * r
    PROVE  q >= s * r
<1>1. PICK d \in Nat : p = s + d
    OBVIOUS
<1>2. d * r >= 0 /\ d * r \in Int /\ s * r \in Int /\ p * r \in Int
    BY <1>1
<1>3. p * r = s * r + d * r
    BY <1>1
<1> QED
    BY <1>2, <1>3

LEMMA MorePortions ==
    ASSUME NEW q \in Int, NEW r \in Nat \ {0}, NEW p \in Int, NEW n \in Int, q >= p * r
    PROVE  q + n * r >= (p + n) * r
<1>1. (p + n) * r = p * r + n * r /\ p * r \in Int /\ n * r \in Int
    OBVIOUS
<1> QED
    BY <1>1

\* The dollars of one purchase of every ingredient can be counted.
LEMMA DollarsFinite == IsFiniteSet(Dollars) /\ SumOfCosts \in Nat
<1> DEFINE f == [i \in Ids |-> {i} \X (1 .. Bought * Cost[i])]
           T == {{i} \X (1 .. Bought * Cost[i]) : i \in Ids}
<1>1. f \in Surjection(Ids, T)
    BY DEF Surjection
<1>2. IsFiniteSet(T)
    BY <1>1, FS_Surjection, IdsAssumption
<1>3. ASSUME NEW t \in T PROVE IsFiniteSet(t)
    <2>1. PICK i \in Ids : t = {i} \X (1 .. Bought * Cost[i])
        OBVIOUS
    <2>2. 1 \in Int /\ Bought * Cost[i] \in Int
        BY GameCost DEF Bought
    <2>3. IsFiniteSet(1 .. Bought * Cost[i]) /\ IsFiniteSet({i})
        BY <2>2, FS_Interval, FS_Singleton
    <2> QED
        BY <2>1, <2>3, FS_Product
<1>4. IsFiniteSet(UNION T)
    BY <1>2, <1>3, FS_UNION
<1> QED
    BY <1>4, FS_CardinalityType DEF Dollars, SumOfCosts

\* The dollars paid when each ingredient i was bought b[i] times.
Paid(b) == {x \in Dollars \X Nat : x[2] \in 1 .. b[x[1][1]]}

\* P purchases of every ingredient cost P times what one purchase of every ingredient costs.
LEMMA PaidIsBounded ==
    ASSUME NEW P \in Nat, NEW b \in [Ids -> 0 .. P]
    PROVE  /\ IsFiniteSet(Paid(b)) /\ Cardinality(Paid(b)) \in Nat
           /\ Cardinality(Paid(b)) <= P * SumOfCosts
<1>1. Paid(b) \subseteq Dollars \X (1 .. P)
    <2>1. ASSUME NEW x \in Paid(b) PROVE x \in Dollars \X (1 .. P)
        <3>1. x \in Dollars \X Nat /\ x[2] \in 1 .. b[x[1][1]] /\ x[1][1] \in Ids
            BY DEF Paid, Dollars
        <3>2. x[2] \in 1 .. P
            BY <3>1
        <3> QED
            BY <3>1, <3>2
    <2> QED
        BY <2>1
<1>2. IsFiniteSet(1 .. P) /\ Cardinality(1 .. P) = P
    BY FS_Interval
<1>3. /\ IsFiniteSet(Dollars \X (1 .. P))
      /\ Cardinality(Dollars \X (1 .. P)) = SumOfCosts * P
    BY <1>2, DollarsFinite, FS_Product DEF SumOfCosts
<1>4. /\ IsFiniteSet(Paid(b)) /\ Cardinality(Paid(b)) \in Nat
      /\ Cardinality(Paid(b)) <= SumOfCosts * P
    BY <1>1, <1>3, FS_Subset, FS_CardinalityType
<1>5. SumOfCosts * P = P * SumOfCosts
    BY DollarsFinite
<1> QED
    BY <1>4, <1>5

LEMMA PriceOfTen == \A i \in Ids : Bought * Cost[i] \in Nat
BY GameCost DEF Bought

\* What the n-th purchase of a costs, if m dollars.
Bill(a, m, n) == ({a} \X (1 .. m)) \X {n}

LEMMA OnePurchase ==
    ASSUME NEW a, NEW m \in Nat, NEW n
    PROVE  IsFiniteSet(Bill(a, m, n)) /\ Cardinality(Bill(a, m, n)) = m
<1>1. IsFiniteSet(1 .. m) /\ Cardinality(1 .. m) = m
    BY FS_Interval
<1>2. IsFiniteSet({a}) /\ Cardinality({a}) = 1 /\ IsFiniteSet({n}) /\ Cardinality({n}) = 1
    BY FS_Singleton
<1>3. IsFiniteSet({a} \X (1 .. m)) /\ Cardinality({a} \X (1 .. m)) = 1 * m
    <2>1. PICK A : A = {a}
        OBVIOUS
    <2>2. PICK M : M = 1 .. m
        OBVIOUS
    <2>3. /\ IsFiniteSet(A) /\ Cardinality(A) = 1
          /\ IsFiniteSet(M) /\ Cardinality(M) = m
        BY <1>1, <1>2, <2>1, <2>2
    <2>4. /\ IsFiniteSet(A \X M)
          /\ Cardinality(A \X M) = Cardinality(A) * Cardinality(M)
        BY ONLY <2>3, FS_Product
    <2> QED
        BY <2>1, <2>2, <2>3, <2>4
<1>4. /\ IsFiniteSet(({a} \X (1 .. m)) \X {n})
      /\ Cardinality(({a} \X (1 .. m)) \X {n}) = (1 * m) * 1
    <2>1. PICK S : S = {a} \X (1 .. m)
        OBVIOUS
    <2>2. IsFiniteSet(S) /\ Cardinality(S) = 1 * m
        BY <1>3, <2>1
    <2>3. IsFiniteSet(S \X {n}) /\ Cardinality(S \X {n}) = Cardinality(S) * 1
        BY ONLY <1>2, <2>2, FS_Product
    <2> QED
        BY <2>1, <2>2, <2>3
<1>5. (1 * m) * 1 = m
    OBVIOUS
<1> QED
    BY <1>4, <1>5 DEF Bill

\* One purchase of a more costs its price more.
LEMMA PaidOnceMore ==
    ASSUME NEW P \in Nat, NEW b \in [Ids -> 0 .. P], NEW a \in Ids,
           NEW c, c = [b EXCEPT ![a] = @ + 1]
    PROVE  Cardinality(Paid(c)) = Cardinality(Paid(b)) + Bought * Cost[a]
<1>1. b[a] \in Nat
    OBVIOUS
<1>2. PICK m \in Nat : m = Bought * Cost[a]
    BY PriceOfTen
<1>3. PICK n : n = b[a] + 1
    OBVIOUS
<1>4. IsFiniteSet(Bill(a, m, n)) /\ Cardinality(Bill(a, m, n)) = m
    BY OnePurchase
<1>5. \A x \in Dollars : x[1] \in Ids /\ (x[1] = a => x \in {a} \X (1 .. m))
    BY <1>2 DEF Dollars
<1>6. {a} \X (1 .. m) \subseteq Dollars
    BY <1>2 DEF Dollars
<1>7. Paid(c) = Paid(b) \cup Bill(a, m, n)
    <2>1. ASSUME NEW x \in Paid(c) PROVE x \in Paid(b) \cup Bill(a, m, n)
        <3>1. x \in Dollars \X Nat /\ x[2] \in 1 .. c[x[1][1]] /\ x[1][1] \in Ids
            BY <1>5 DEF Paid
        <3>2. CASE x[1][1] # a
            BY <3>1, <3>2 DEF Paid
        <3>3. CASE x[1][1] = a
            <4>1. x[2] \in 1 .. b[a] + 1
                BY <3>1, <3>3
            <4>2. CASE x[2] = n
                BY <1>5, <3>1, <3>3, <4>2 DEF Bill
            <4>3. CASE x[2] # n
                <5>1. x[2] \in 1 .. b[x[1][1]]
                    BY <1>1, <1>3, <3>3, <4>1, <4>3
                <5> QED
                    BY <3>1, <5>1 DEF Paid
            <4> QED
                BY <4>2, <4>3
        <3> QED
            BY <3>2, <3>3
    <2>2. ASSUME NEW x \in Paid(b) PROVE x \in Paid(c)
        <3>1. x \in Dollars \X Nat /\ x[2] \in 1 .. b[x[1][1]] /\ x[1][1] \in Ids
            BY <1>5 DEF Paid
        <3>2. x[2] \in 1 .. c[x[1][1]]
            BY <1>1, <3>1
        <3> QED
            BY <3>1, <3>2 DEF Paid
    <2>3. ASSUME NEW x \in Bill(a, m, n) PROVE x \in Paid(c)
        <3>1. x \in Dollars \X Nat /\ x[2] = n /\ x[1][1] = a
            BY <1>1, <1>3, <1>6 DEF Bill
        <3>2. c[a] = n
            BY <1>1, <1>3
        <3>3. x[2] \in 1 .. c[x[1][1]]
            BY <1>1, <1>3, <3>1, <3>2
        <3> QED
            BY <3>1, <3>3 DEF Paid
    <2> QED
        BY <2>1, <2>2, <2>3
<1>8. Paid(b) \cap Bill(a, m, n) = {}
    <2>1. ASSUME NEW x \in Paid(b), x \in Bill(a, m, n) PROVE FALSE
        <3>1. x[2] \in 1 .. b[x[1][1]]
            BY DEF Paid
        <3>2. x[2] = n /\ x[1][1] = a
            BY <2>1 DEF Bill
        <3> QED
            BY <1>1, <1>3, <3>1, <3>2
    <2> QED
        BY <2>1
<1>9. IsFiniteSet(Paid(b)) /\ Cardinality(Paid(b)) \in Nat
    BY PaidIsBounded
<1>10. Cardinality(Paid(b) \cup Bill(a, m, n)) = Cardinality(Paid(b)) + m - 0
    <2>1. Cardinality(Paid(b) \cap Bill(a, m, n)) = 0
        BY <1>8, FS_EmptySet
    <2>2. Cardinality(Paid(b) \cup Bill(a, m, n))
              = Cardinality(Paid(b)) + Cardinality(Bill(a, m, n))
                - Cardinality(Paid(b) \cap Bill(a, m, n))
        BY <1>4, <1>9, FS_Union
    <2> QED
        BY <1>4, <2>1, <2>2
<1>11. Cardinality(Paid(b)) + m - 0 = Cardinality(Paid(b)) + m
    BY <1>9
<1> QED
    BY <1>2, <1>7, <1>10, <1>11

--------------------------------------------------------------------------------
(* The stock that the purchases leave *)

\* What some recipe lists.
InUse == {i \in Ids : \E r \in Seeded : Lists(r, i)}

\* Only what recipes list is ever announced, once in a dialogue, and what the player has
\* not been asked about yet is low.
AlertsInv ==
    /\ \A k \in DOMAIN basket : basket[k] \in InUse
    /\ \A k \in DOMAIN alerts : alerts[k] \in InUse
    /\ Once(alerts)
    /\ \A j \in DOMAIN alerts, k \in DOMAIN basket : alerts[j] # basket[k]
    /\ \A k \in DOMAIN alerts : k > Given => ~Covered(alerts[k])

\* The orders cooked or dismissed.
Begun == Len(completedOrders)

\* 1 if the order being cooked has taken its portion of i, or has none to take.
Taken(i) ==
    IF current = 0 \/ \E k \in DOMAIN basket : basket[k] = i /\ ~(k = 1 /\ at = "warn")
    THEN 0 ELSE 1

\* 1 if ten portions of i are paid for and not on the shelf yet.
Unshelved(i) == IF screen = "buying" /\ i = Alerted THEN 1 ELSE 0

\* What is left of two portions and ten for each of the b[i] purchases, if every order
\* took one.
PortionsLeft(i, b) == 2 + Bought * (b[i] - Unshelved(i)) - Begun - Taken(i)

\* The earnings cover all but what was paid, ...
Afforded(b) == totalEarnings >= -Cardinality(Paid(b))
\* ... nothing was bought more than once for every ten orders begun, ...
Rare(b) == \A i \in Ids : Bought * b[i] <= Begun + Bought - 1
\* ... and what was bought is there, but for what the orders have taken.
Lasting(b) == \A i \in InUse : quantity[i] >= PortionsLeft(i, b) * Required[i]

Backed(b) == Afforded(b) /\ Rare(b) /\ Lasting(b)

\* Without spoiled food there is a number of purchases of every ingredient that explains the
\* earnings and the stock.
DebtInv == Spoiled \/ (AlertsInv /\ \E b \in [Ids -> Nat] : Backed(b))

LEMMA BasketKnown ==
    ASSUME GameInv
    PROVE  /\ quantity \in [Ids -> Int] /\ basket \in Seq(Ids) /\ Len(basket) \in Nat
           /\ DOMAIN basket = 1 .. Len(basket)
           /\ at \in {"check", "take", "warn"} <=> basket # <<>>
           /\ Begun \in Nat /\ totalEarnings \in Int
<1>1. Kitchen!Pantry!TypeOK /\ completedOrders \in Seq(Kitchen!OrderNumbers)
      /\ totalEarnings \in Int
    BY Known DEF Kitchen!TypeOK
<1> QED
    BY <1>1, LenProperties DEF Kitchen!Pantry!TypeOK, Begun

LEMMA PortionsAreWhole ==
    ASSUME NEW b \in [Ids -> Nat], NEW i \in Ids, Begun \in Nat
    PROVE  PortionsLeft(i, b) \in Int
BY DEF PortionsLeft, Bought, Unshelved, Taken

\* So the purchases cost no more than DebtIsBounded says.
LEMMA RareEnough ==
    ASSUME Begun \in Nat, NEW b \in [Ids -> Nat], Rare(b)
    PROVE  /\ Purchases \in Nat /\ b \in [Ids -> 0 .. Purchases]
           /\ Cardinality(Paid(b)) \in Nat
           /\ Cardinality(Paid(b)) <= Purchases * SumOfCosts
<1>1. Purchases = (Begun + 9) \div 10 /\ Purchases \in Nat
    BY DEF Purchases, Begun, Bought
<1>2. ASSUME NEW i \in Ids PROVE b[i] \in 0 .. Purchases
    <2>1. b[i] \in Nat /\ 10 * b[i] <= Begun + 9
        BY DEF Rare, Bought
    <2> QED
        BY <1>1, <2>1
<1>3. b \in [Ids -> 0 .. Purchases]
    BY <1>2
<1> QED
    BY <1>1, <1>3, PaidIsBounded

\* Steps that neither take nor buy.
LEMMA StillBacked ==
    ASSUME GameInv, Kitchen!TypeOK', NEW b \in [Ids -> Nat], Backed(b),
           totalEarnings' >= totalEarnings, quantity' = quantity, Begun' >= Begun,
           \A i \in InUse : Begun' + Taken(i)' + Bought * Unshelved(i)'
                            >= Begun + Taken(i) + Bought * Unshelved(i)
    PROVE  Backed(b)'
<1>1. /\ quantity \in [Ids -> Int] /\ Begun \in Nat /\ Begun' \in Nat
      /\ totalEarnings \in Int /\ totalEarnings' \in Int
    BY BasketKnown, LenProperties DEF Kitchen!TypeOK, Begun
<1>2. ASSUME NEW i \in Ids PROVE Bought * b[i] <= Begun' + Bought - 1
    BY <1>1 DEF Backed, Rare, Bought
<1>3. Rare(b)'
    BY <1>2 DEF Rare
<1>4. ASSUME NEW i \in InUse PROVE quantity'[i] >= PortionsLeft(i, b)' * Required[i]
    <2>1. i \in Ids /\ quantity[i] \in Int /\ Required[i] \in Nat \ {0} /\ b[i] \in Nat
        BY <1>1, GameRequired DEF InUse
    <2>2. /\ PortionsLeft(i, b) \in Int /\ PortionsLeft(i, b)' \in Int
          /\ PortionsLeft(i, b)' <= PortionsLeft(i, b)
        BY <1>1, <2>1 DEF PortionsLeft, Bought, Unshelved, Taken
    <2>3. quantity[i] >= PortionsLeft(i, b) * Required[i]
        BY DEF Backed, Lasting
    <2>4. quantity[i] >= PortionsLeft(i, b)' * Required[i]
        BY <2>1, <2>2, <2>3, FewerPortions
    <2> QED
        BY <2>4
<1>5. Lasting(b)'
    BY <1>4 DEF Lasting
<1>6. Cardinality(Paid(b)) \in Nat
    BY <1>1, RareEnough DEF Backed
<1>7. Afforded(b)'
    BY <1>1, <1>6 DEF Backed, Afforded
<1> QED
    BY <1>3, <1>5, <1>7 DEF Backed

LEMMA AlertsAsBefore ==
    ASSUME GameInv, AlertsInv, UNCHANGED <<quantity, alerts, basket>>, Given' \in Nat,
           Given' >= Given
    PROVE  AlertsInv'
<1>1. Given \in Nat /\ Given' \in Nat /\ \A k \in DOMAIN alerts : k \in Nat
    BY Known
<1>2. \A k \in DOMAIN alerts : k > Given' => k > Given
    BY <1>1
<1> QED
    BY <1>2 DEF AlertsInv, Once, Covered

LEMMA QuietBacks ==
    ASSUME GameInv, [Next]_vars, AlertsInv, NEW b \in [Ids -> Nat], Backed(b),
           \/ HandleNewOrder \/ HandleSkip \/ HandleCook \/ RemoveRecipes \/ Close \/ Tick
           \/ UNCHANGED vars
    PROVE  AlertsInv' /\ Backed(b)'
<1>1. /\ UNCHANGED <<quantity, alerts, basket, at, current, completedOrders, totalEarnings>>
      /\ screen = "buying" <=> screen' = "buying"
      /\ screen \in {"alerts", "buying"} <=> screen' \in {"alerts", "buying"}
      /\ cursor' = IF RemoveRecipes THEN cursor + 1 ELSE cursor
      /\ RemoveRecipes => screen = "alerts"
    <2>1. CASE HandleNewOrder \/ HandleSkip \/ Close
        <3>1. UNCHANGED <<kitchenVars, cursor>> /\ screen = "window"
              /\ screen' \in {"window", "closed"}
            BY <2>1 DEF HandleNewOrder, HandleSkip, Close, iterator
        <3> QED
            BY <3>1 DEF kitchenVars, RemoveRecipes, Prompting
    <2>2. CASE HandleCook
        BY <2>2 DEF HandleCook, EnqueueNew, EnqueueAgain, Kitchen!EnqueueOrder,
           Kitchen!pantryVars, Kitchen!books, iterator, RemoveRecipes, Prompting
    <2>3. CASE RemoveRecipes
        BY <2>3 DEF RemoveRecipes, Prompting, NextAlert, kitchenVars
    <2>4. CASE Tick
        <3>1. now' # now
            BY <2>4, Known DEF Tick, Kitchen!Tick
        <3> QED
            BY <2>4, <3>1 DEF Tick, Kitchen!Tick, Kitchen!pantryVars, Kitchen!orderVars,
               Kitchen!books, Kitchen!Pantry!Midnight, iterator, RemoveRecipes, kitchenVars
    <2>5. CASE UNCHANGED vars
        <3>1. cursor \in Nat /\ cursor' = cursor
            BY <2>5, Known DEF vars, iterator, OwnTypes
        <3> QED
            BY <2>5, <3>1 DEF vars, kitchenVars, iterator, RemoveRecipes, NextAlert
    <2> QED
        BY <2>1, <2>2, <2>3, <2>4, <2>5
<1>2. cursor \in Nat /\ Begun \in Nat /\ totalEarnings \in Int
    BY BasketKnown, Known DEF OwnTypes
<1>3. Given' \in Nat /\ Given' >= Given
    BY <1>1, <1>2 DEF Given
<1>4. AlertsInv'
    BY <1>1, <1>3, AlertsAsBefore
<1>5. \A i : Unshelved(i)' = Unshelved(i) /\ Taken(i)' = Taken(i)
    BY <1>1 DEF Unshelved, Taken, Alerted
<1>6. \A i : Begun + Taken(i) + Bought * Unshelved(i) \in Int
    BY <1>2 DEF Taken, Unshelved, Bought
<1>7. Backed(b)'
    BY <1>1, <1>2, <1>5, <1>6, KitchenTypes, StillBacked DEF Begun
<1> QED
    BY <1>4, <1>7

LEMMA LongerByOne ==
    ASSUME NEW S, NEW seq \in Seq(S), NEW e PROVE Len(Append(seq, e)) = Len(seq) + 1
<1>1. seq \in Seq(S \cup {e})
    BY SeqMonotonic
<1> QED
    BY <1>1, AppendProperties

LEMMA TooLateBacks ==
    ASSUME GameInv, [Next]_vars, AlertsInv, NEW b \in [Ids -> Nat], Backed(b), TooLateToCook
    PROVE  AlertsInv' /\ Backed(b)'
<1>1. /\ UNCHANGED <<quantity, alerts, basket, at, current>>
      /\ totalEarnings' = totalEarnings + 0
      /\ completedOrders' = Append(completedOrders, Head(queue))
      /\ screen = "cooking" /\ screen' = "window"
    BY DEF TooLateToCook, Kitchen!CloseOverdue, Kitchen!CloseOrder, Kitchen!Fulfil,
           Kitchen!Earning, Kitchen!pantryVars
<1>2. completedOrders \in Seq(Kitchen!OrderNumbers) /\ Begun \in Nat /\ totalEarnings \in Int
    BY BasketKnown, Known DEF Kitchen!TypeOK
<1>3. Begun' = Begun + 1
    BY <1>1, <1>2, LongerByOne DEF Begun
<1>4. AlertsInv'
    <2>1. Given = 0 /\ Given' = 0
        BY <1>1 DEF Given
    <2> QED
        BY <1>1, <2>1, AlertsAsBefore
<1>5. \A i : /\ Unshelved(i) = 0 /\ Unshelved(i)' = 0 /\ Taken(i)' = Taken(i)
             /\ Taken(i) \in {0, 1}
    BY <1>1 DEF Unshelved, Taken
<1>6. Backed(b)'
    BY <1>1, <1>2, <1>3, <1>5, KitchenTypes, StillBacked DEF Bought
<1> QED
    BY <1>4, <1>6

\* The order takes nothing yet, and nothing has been announced.
LEMMA StartBacks ==
    ASSUME GameInv, Fresh, [Next]_vars, AlertsInv, NEW b \in [Ids -> Nat], Backed(b),
           StartCooking
    PROVE  AlertsInv' /\ Backed(b)'
<1>1. /\ screen = "cooking" /\ current = 0 /\ Kitchen!TakeUp
      /\ UNCHANGED <<screen, quantity, alerts, completedOrders, totalEarnings>>
      /\ Kitchen!Pantry!BeginConsume(
             [d \in Dishes |-> Ingredients[d[1]]][orders[Head(queue)].dish])
    BY DEF StartCooking, Kitchen!TakeUp, Kitchen!Idle, Kitchen!books,
           Kitchen!Pantry!BeginConsume
<1>2. /\ queue = <<number>> /\ orders[number].dish = pendingOrder.dish
      /\ pendingOrder.dish \in Dishes /\ pendingOrder.dish[1] \in recipes /\ alerts = <<>>
    BY <1>1 DEF GameInv, Flow, PendingInv, Tickets, Fresh, FreshStock
<1>3. Head(queue) = number
    BY <1>2
<1>4. basket' = Ingredients[pendingOrder.dish[1]]
    BY <1>1, <1>2, <1>3 DEF Kitchen!Pantry!BeginConsume
<1>5. pendingOrder.dish[1] \in Seeded /\ pendingOrder.dish[1] \in Recipes
    BY <1>2, GameBook DEF GameInv, BookInv
<1>6. \A k \in DOMAIN basket' : basket'[k] \in InUse
    BY <1>4, <1>5, GameRecipes, ElementOfSeq DEF InUse, Lists
<1>7. AlertsInv'
    BY <1>1, <1>2, <1>6 DEF AlertsInv, Once
<1>8. \A i : /\ Unshelved(i) = 0 /\ Unshelved(i)' = 0 /\ Taken(i) = 0
             /\ Taken(i)' \in {0, 1}
    BY <1>1 DEF Unshelved, Taken
<1>9. Begun \in Nat /\ totalEarnings \in Int /\ Begun' = Begun
    BY <1>1, BasketKnown DEF Begun
<1>10. Backed(b)'
    BY <1>1, <1>8, <1>9, KitchenTypes, StillBacked DEF Bought
<1> QED
    BY <1>7, <1>10

\* The order takes its portion of what is at the head of the basket, and announces it if
\* it has become low.
LEMMA ConsumeBacks ==
    ASSUME GameInv, Fresh, ~Spoiled, [Next]_vars, AlertsInv, NEW b \in [Ids -> Nat],
           Backed(b), Consume
    PROVE  AlertsInv' /\ Backed(b)'
<1>1. /\ screen = "cooking" /\ Kitchen!Pantry!ConsumeStep
      /\ UNCHANGED <<screen, current, completedOrders, totalEarnings>>
    BY DEF Consume, Kitchen!Consume, Kitchen!orderVars, Kitchen!books
<1>2. stored = Ids /\ Supplied /\ Kitchen!Pantry!TypeOK
    BY Known DEF Fresh, FreshStock, GameInv, BookInv
<1>3. at' # "threw"
    BY <1>1, <1>2, Consuming
<1>4. Kitchen!Pantry!FoundFresh \/ Kitchen!Pantry!Take \/ Kitchen!Pantry!Warn
    BY <1>1, <1>3 DEF Kitchen!Pantry!ConsumeStep, Kitchen!Pantry!MissingThrows,
       Kitchen!Pantry!ExpiredThrows, Kitchen!Pantry!UnavailableThrows, Kitchen!Pantry!Throw
<1>5. /\ at \in {"check", "take", "warn"} /\ basket # <<>> /\ 1 \in DOMAIN basket
      /\ Head(basket) = basket[1]
      /\ basket \in Seq(Ids) /\ DOMAIN basket = 1 .. Len(basket) /\ Len(basket) \in Nat
    BY <1>4, BasketKnown, HeadTailProperties, EmptySeq
    DEF Kitchen!Pantry!FoundFresh, Kitchen!Pantry!Take, Kitchen!Pantry!Warn
<1>6. PICK h \in InUse : h = basket[1]
    BY <1>5 DEF AlertsInv
<1>7. /\ h \in Ids /\ Required[h] \in Nat \ {0} /\ quantity \in [Ids -> Int]
      /\ Begun \in Nat /\ totalEarnings \in Int
    BY BasketKnown, GameRequired DEF InUse
<1>8. current # 0
    BY <1>1, <1>5 DEF GameInv, Flow
<1>9. Given = 0 /\ Given' = 0 /\ \A i : Unshelved(i) = 0 /\ Unshelved(i)' = 0
    BY <1>1 DEF Given, Unshelved
<1>10. \A j, k \in DOMAIN basket : basket[j] = basket[k] => j = k
    BY <1>2 DEF Supplied
<1>11. CASE Kitchen!Pantry!FoundFresh
    <2>1. /\ UNCHANGED <<quantity, alerts, basket>> /\ at = "check" /\ at' = "take"
        BY <1>11 DEF Kitchen!Pantry!FoundFresh
    <2>2. AlertsInv'
        BY <1>9, <2>1, AlertsAsBefore
    <2>3. \A i : Taken(i)' = Taken(i) /\ Taken(i) \in {0, 1}
        BY <1>1, <2>1 DEF Taken
    <2>4. Begun' = Begun
        BY <1>1 DEF Begun
    <2>5. Backed(b)'
        BY <1>1, <1>7, <1>9, <2>1, <2>3, <2>4, KitchenTypes, StillBacked DEF Bought
    <2> QED
        BY <2>2, <2>5
<1>12. CASE Kitchen!Pantry!Take
    <2>1. /\ UNCHANGED <<alerts, basket>> /\ at = "take" /\ at' = "warn"
          /\ quantity' = [quantity EXCEPT ![h] = @ - Required[h]]
        BY <1>5, <1>6, <1>12 DEF Kitchen!Pantry!Take
    <2>2. /\ quantity'[h] = quantity[h] - Required[h]
          /\ \A i \in Ids : i # h => quantity'[i] = quantity[i]
        BY <1>7, <2>1
    <2>3. AlertsInv'
        <3>1. ASSUME NEW k \in DOMAIN alerts, k > 0 PROVE ~Covered(alerts[k])'
            <4>1. alerts[k] # h /\ alerts[k] \in Ids /\ ~Covered(alerts[k])
                BY <1>5, <1>6, <1>9, <3>1 DEF AlertsInv, InUse
            <4>2. quantity'[alerts[k]] = quantity[alerts[k]]
                BY <2>2, <4>1
            <4> QED
                BY <2>1, <4>1, <4>2 DEF Covered
        <3> QED
            BY <1>9, <2>1, <3>1 DEF AlertsInv, Once
    <2>4. Taken(h) = 0 /\ Taken(h)' = 1
        <3>1. Taken(h) = 0
            BY <1>5, <1>6, <2>1 DEF Taken
        <3>2. ~\E k \in DOMAIN basket' : basket'[k] = h /\ ~(k = 1 /\ at' = "warn")
            BY <1>5, <1>6, <1>10, <2>1
        <3> QED
            BY <1>1, <1>8, <3>1, <3>2 DEF Taken
    <2>5. \A i : i # h => Taken(i)' = Taken(i)
        BY <1>1, <1>6, <2>1 DEF Taken
    <2>6. ASSUME NEW i \in InUse PROVE quantity'[i] >= PortionsLeft(i, b)' * Required[i]
        <3>1. i \in Ids /\ quantity[i] \in Int /\ Required[i] \in Nat \ {0} /\ b[i] \in Nat
            BY <1>7, GameRequired DEF InUse
        <3>2. quantity[i] >= PortionsLeft(i, b) * Required[i] /\ PortionsLeft(i, b) \in Int
            BY <1>7, <3>1, PortionsAreWhole DEF Backed, Lasting
        <3>3. CASE i = h
            <4>1. PortionsLeft(i, b)' = PortionsLeft(i, b) + (-1)
                BY <1>1, <1>7, <1>9, <2>4, <3>1, <3>3 DEF PortionsLeft, Begun, Bought
            <4>2. quantity[i] + (-1) * Required[i] >= (PortionsLeft(i, b) + (-1)) * Required[i]
                BY <3>1, <3>2, MorePortions
            <4>3. quantity'[i] = quantity[i] + (-1) * Required[i]
                BY <2>2, <3>1, <3>3
            <4> QED
                BY <4>1, <4>2, <4>3
        <3>4. CASE i # h
            <4>1. PortionsLeft(i, b)' = PortionsLeft(i, b)
                BY <1>1, <1>9, <2>5, <3>4 DEF PortionsLeft, Begun
            <4> QED
                BY <2>2, <3>1, <3>2, <3>4, <4>1
        <3> QED
            BY <3>3, <3>4
    <2>7. Lasting(b)'
        BY <2>6 DEF Lasting
    <2>8. Afforded(b)' /\ Rare(b)'
        BY <1>1 DEF Backed, Afforded, Rare, Begun
    <2> QED
        BY <2>3, <2>7, <2>8 DEF Backed
<1>13. CASE Kitchen!Pantry!Warn
    <2>1. /\ quantity' = quantity /\ at = "warn" /\ at' # "warn" /\ basket' = Tail(basket)
          /\ alerts' = IF Kitchen!Pantry!IsExpired(h) \/ Kitchen!Pantry!IsLow(h, quantity[h])
                       THEN Append(alerts, h) ELSE alerts
        BY <1>5, <1>6, <1>13 DEF Kitchen!Pantry!Warn, Kitchen!Pantry!CheckThresholds
    <2>2. ~Kitchen!Pantry!IsExpired(h)
        BY <1>2, <1>7 DEF Spoiled
    <2>3. /\ DOMAIN basket' = 1 .. Len(basket) - 1
          /\ \A k \in 1 .. Len(basket) - 1 : /\ basket'[k] = basket[k + 1]
                                             /\ k + 1 \in DOMAIN basket /\ k + 1 # 1
        BY <1>5, <2>1, HeadTailProperties, LenProperties
    <2>4. /\ alerts \in Seq(Ids) /\ Len(alerts) \in Nat /\ DOMAIN alerts = 1 .. Len(alerts)
        BY Known
    <2>5. AlertsInv'
        <3>1. \A k \in DOMAIN basket' : basket'[k] \in InUse /\ basket'[k] # h
            BY <1>5, <1>6, <1>10, <2>3 DEF AlertsInv
        <3>2. \A j \in DOMAIN alerts, k \in DOMAIN basket' : alerts[j] # basket'[k]
            BY <2>3 DEF AlertsInv
        <3>3. \A i : Covered(i)' <=> Covered(i)
            BY <2>1 DEF Covered
        <3>4. CASE alerts' = alerts
            BY <1>9, <3>1, <3>2, <3>3, <3>4 DEF AlertsInv, Once
        <3>5. CASE alerts' = Append(alerts, h) /\ Kitchen!Pantry!IsLow(h, quantity[h])
            <4>1. ~Covered(h)
                BY <1>7, <3>5 DEF Kitchen!Pantry!IsLow, Covered
            <4>2. /\ DOMAIN alerts' = 1 .. Len(alerts) + 1
                  /\ alerts'[Len(alerts) + 1] = h
                  /\ \A k \in 1 .. Len(alerts) : alerts'[k] = alerts[k]
                BY <1>7, <2>4, <3>5, AppendProperties, LenProperties
            <4>3. \A k \in DOMAIN alerts' :
                      \/ k = Len(alerts) + 1 /\ alerts'[k] = h
                      \/ k \in DOMAIN alerts /\ alerts'[k] = alerts[k]
                BY <2>4, <4>2
            <4>4. \A k \in DOMAIN alerts : alerts[k] # h
                BY <1>5, <1>6 DEF AlertsInv
            <4>5. Once(alerts)'
                BY <4>3, <4>4 DEF AlertsInv, Once
            <4>6. \A k \in DOMAIN alerts' : k > 0 => ~Covered(alerts'[k])
                BY <1>9, <4>1, <4>3 DEF AlertsInv
            <4>7. \A k \in DOMAIN alerts' : alerts'[k] \in InUse
                BY <1>6, <4>3 DEF AlertsInv
            <4>8. \A j \in DOMAIN alerts', k \in DOMAIN basket' : alerts'[j] # basket'[k]
                BY <3>1, <3>2, <4>3
            <4> QED
                BY <1>9, <3>1, <3>3, <4>5, <4>6, <4>7, <4>8 DEF AlertsInv
        <3> QED
            BY <2>1, <2>2, <3>4, <3>5
    <2>6. \A i : Taken(i) \in {0, 1} /\ Taken(i)' \in {0, 1} /\ Taken(i)' >= Taken(i)
        <3>1. ASSUME NEW i, \E k \in DOMAIN basket' : basket'[k] = i
              PROVE  \E k \in DOMAIN basket : basket[k] = i /\ ~(k = 1 /\ at = "warn")
            BY <2>3, <3>1
        <3> QED
            BY <1>1, <3>1 DEF Taken
    <2>7. Begun' = Begun
        BY <1>1 DEF Begun
    <2>8. \A i : Begun' + Taken(i)' + Bought * Unshelved(i)'
                 >= Begun + Taken(i) + Bought * Unshelved(i)
        BY <1>7, <1>9, <2>6, <2>7 DEF Bought
    <2>9. totalEarnings' >= totalEarnings /\ Begun' >= Begun
        BY <1>1, <1>7, <2>7
    <2>10. Backed(b)'
        BY <2>1, <2>8, <2>9, KitchenTypes, StillBacked
    <2> QED
        BY <2>5, <2>10
<1> QED
    BY <1>4, <1>11, <1>12, <1>13

LEMMA DishOrdered ==
    ASSUME orders \in Seq(Kitchen!Orders), NEW o \in 1 .. Len(orders)
    PROVE  orders[o].dish \in Dishes
<1>1. orders[o] \in Kitchen!Orders
    BY ElementOfSeq
<1> QED
    BY <1>1 DEF Kitchen!Orders

LEMMA EarningIsNatural ==
    ASSUME NEW o, orders[o].dish \in Dishes, NEW status, NEW score,
           status = "EXPIRED" \/ score \in 0 .. 100
    PROVE  Kitchen!Earning(o, status, score) \in Nat
<1>1. CASE status = "COMPLETED"
    <2>1. PICK p \in Nat : p = Price[orders[o].dish]
        BY GameRecipes
    <2>2. PICK n \in Nat : n = Kitchen!Larger(20, score)
        BY <1>1 DEF Kitchen!Larger
    <2>3. p * n \in Nat
        OBVIOUS
    <2> QED
        BY <1>1, <2>1, <2>2, <2>3 DEF Kitchen!Earning, Kitchen!Earned
<1>2. CASE status # "COMPLETED"
    BY <1>2 DEF Kitchen!Earning
<1> QED
    BY <1>1, <1>2

\* One order more has begun, and it has taken its portion of everything.
LEMMA ServeBacks ==
    ASSUME GameInv, Fresh, [Next]_vars, AlertsInv, NEW b \in [Ids -> Nat], Backed(b), Serve
    PROVE  AlertsInv' /\ Backed(b)'
<1>1. /\ screen = "cooking" /\ screen' = "alerts" /\ cursor' = 0
      /\ current # 0 /\ current' = 0 /\ at = "returned"
      /\ UNCHANGED <<quantity, alerts, basket>>
    BY DEF Serve, BeginAlerts, Kitchen!ServeTooLate, Kitchen!ServeInTime,
           Kitchen!Pantry!ReturnToCaller
<1>2. PICK status, score, s :
          /\ Kitchen!CloseOrder(current, status, score, s)
          /\ status = "EXPIRED" \/ score \in 0 .. 100
    <2>1. CASE Kitchen!ServeTooLate(playerSkillLevel)
        BY <2>1 DEF Kitchen!ServeTooLate
    <2>2. CASE \E t \in {now, now + 1} : Kitchen!ServeInTime(playerSkillLevel, t)
        <3>1. current \in 1 .. Len(orders) /\ playerSkillLevel \in 1 .. MaxLevel
            BY <1>1, Known DEF GameInv, Flow, OwnTypes
        <3>2. orders[current].dish \in Dishes
            BY <3>1, Known, DishOrdered
        <3>3. CookScore[orders[current].dish, playerSkillLevel] \in 0 .. 100
            BY <3>1, <3>2, GameRecipes
        <3> QED
            BY <2>2, <3>3 DEF Kitchen!ServeInTime
    <2> QED
        BY <2>1, <2>2 DEF Serve
<1>3. Begun \in Nat /\ totalEarnings \in Int /\ basket = <<>>
    BY <1>1, BasketKnown
<1>4. totalEarnings' >= totalEarnings
    <2>1. totalEarnings' = totalEarnings + Kitchen!Earning(current, status, score)
        BY <1>2 DEF Kitchen!CloseOrder, Kitchen!Fulfil
    <2>2. current \in 1 .. Len(orders)
        BY <1>1, Known DEF GameInv, Flow, OwnTypes
    <2>3. Kitchen!Earning(current, status, score) \in Nat
        BY <1>2, <2>2, Known, DishOrdered, EarningIsNatural
    <2> QED
        BY <1>3, <2>1, <2>3
<1>5. Begun' = Begun + 1
    <2>1. completedOrders \in Seq(Kitchen!OrderNumbers)
        BY Known DEF Kitchen!TypeOK
    <2>2. completedOrders' = Append(completedOrders, current)
        BY <1>2 DEF Kitchen!CloseOrder
    <2> QED
        BY <2>1, <2>2, LongerByOne DEF Begun
<1>6. AlertsInv'
    <2>1. Given = 0 /\ Given' = 0
        BY <1>1 DEF Given
    <2> QED
        BY <1>1, <2>1, AlertsAsBefore
<1>7. \A i : Unshelved(i) = 0 /\ Unshelved(i)' = 0 /\ Taken(i) = 1 /\ Taken(i)' = 0
    <2>1. DOMAIN basket = {}
        BY <1>3
    <2> QED
        BY <1>1, <2>1 DEF Unshelved, Taken
<1>8. Backed(b)'
    BY <1>1, <1>3, <1>4, <1>5, <1>7, KitchenTypes, StillBacked DEF Bought
<1> QED
    BY <1>6, <1>8

\* What is bought is low, so that the orders begun since justify one purchase more.
LEMMA PayBacks ==
    ASSUME GameInv, Fresh, [Next]_vars, AlertsInv, NEW b \in [Ids -> Nat], Backed(b),
           PayForPortions
    PROVE  AlertsInv' /\ \E c \in [Ids -> Nat] : Backed(c)'
<1>1. /\ screen = "alerts" /\ screen' = "buying" /\ HasNext /\ cursor' = cursor
      /\ UNCHANGED <<quantity, alerts, basket, current, completedOrders>>
      /\ totalEarnings' = totalEarnings - Bought * Cost[Alerted]
    BY DEF PayForPortions, Prompting, Kitchen!SpendFunds, Kitchen!pantryVars,
           Kitchen!orderVars, iterator
<1>2. PICK a : a = Alerted
    OBVIOUS
<1>3. /\ cursor + 1 \in DOMAIN alerts /\ cursor \in Nat /\ Given = cursor /\ Given' = cursor
    BY <1>1, AlertedIsKnown, Known DEF Given
<1>4. a \in InUse /\ a \in Ids /\ ~Covered(a) /\ a = alerts[cursor + 1]
    BY <1>2, <1>3 DEF AlertsInv, Alerted, InUse
<1>5. AlertsInv'
    BY <1>1, <1>3, AlertsAsBefore
<1>6. /\ quantity \in [Ids -> Int] /\ Required[a] \in Nat \ {0} /\ b[a] \in Nat
      /\ Begun \in Nat /\ Begun' = Begun /\ totalEarnings \in Int
    BY <1>1, <1>4, BasketKnown, GameRequired DEF Begun
<1>7. \A i : /\ Taken(i) = 0 /\ Taken(i)' = 0 /\ Unshelved(i) = 0
             /\ Unshelved(i)' = IF i = a THEN 1 ELSE 0
    <2>1. current = 0 /\ current' = 0
        BY <1>1 DEF GameInv, Flow, AtRest
    <2> QED
        BY <1>1, <1>2, <2>1 DEF Taken, Unshelved, Alerted
<1>8. Bought * b[a] < Begun
    <2>1. PortionsLeft(a, b) = 2 + 10 * b[a] - Begun
        BY <1>6, <1>7 DEF PortionsLeft, Bought
    <2>2. PortionsLeft(a, b) < 2
        <3>1. quantity[a] >= PortionsLeft(a, b) * Required[a] /\ quantity[a] < 2 * Required[a]
            BY <1>4, <1>6 DEF Backed, Lasting, Covered
        <3>2. PortionsLeft(a, b) \in Int /\ quantity[a] \in Int
            BY <1>4, <1>6, PortionsAreWhole
        <3> QED
            BY <1>6, <3>1, <3>2, FewPortions
    <2> QED
        BY <1>6, <2>1, <2>2 DEF Bought
<1>9. PICK c : c = [b EXCEPT ![a] = @ + 1]
    OBVIOUS
<1>10. /\ c \in [Ids -> Nat] /\ c[a] = b[a] + 1
       /\ \A i \in Ids : i # a => c[i] = b[i]
    BY <1>4, <1>6, <1>9
<1>11. Rare(c)'
    <2>1. ASSUME NEW i \in Ids PROVE Bought * c[i] <= Begun + Bought - 1
        <3>1. CASE i = a
            BY <1>6, <1>8, <1>10, <3>1 DEF Bought
        <3>2. CASE i # a
            BY <1>10, <3>2 DEF Backed, Rare
        <3> QED
            BY <3>1, <3>2
    <2> QED
        BY <1>6, <2>1 DEF Rare
<1>12. Lasting(c)'
    <2>1. ASSUME NEW i \in InUse PROVE PortionsLeft(i, c)' = PortionsLeft(i, b)
        <3>1. CASE i = a
            BY <1>6, <1>7, <1>10, <3>1 DEF PortionsLeft, Bought
        <3>2. CASE i # a
            <4>1. c[i] = b[i]
                BY <1>10, <3>2 DEF InUse
            <4> QED
                BY <1>6, <1>7, <3>2, <4>1 DEF PortionsLeft
        <3> QED
            BY <3>1, <3>2
    <2> QED
        BY <1>1, <2>1 DEF Backed, Lasting
<1>13. Afforded(c)'
    <2>1. /\ Purchases \in Nat /\ b \in [Ids -> 0 .. Purchases]
          /\ Cardinality(Paid(b)) \in Nat
        BY <1>6, RareEnough DEF Backed
    <2>2. Cardinality(Paid(c)) = Cardinality(Paid(b)) + Bought * Cost[a]
        BY <1>4, <1>9, <2>1, PaidOnceMore
    <2>3. PICK m \in Nat : m = Bought * Cost[a]
        BY <1>4, PriceOfTen
    <2>4. totalEarnings >= -Cardinality(Paid(b))
        BY DEF Backed, Afforded
    <2>5. totalEarnings' = totalEarnings - m /\ Cardinality(Paid(c)) = Cardinality(Paid(b)) + m
        BY <1>1, <1>2, <2>2, <2>3
    <2>6. totalEarnings' >= -Cardinality(Paid(c))
        BY <1>6, <2>1, <2>3, <2>4, <2>5
    <2> QED
        BY <2>6 DEF Afforded
<1> QED
    BY <1>5, <1>10, <1>11, <1>12, <1>13 DEF Backed

\* The ten portions arrive.
LEMMA RestockBacks ==
    ASSUME GameInv, Fresh, ~Spoiled, [Next]_vars, AlertsInv, NEW b \in [Ids -> Nat],
           Backed(b), RestockPortions
    PROVE  AlertsInv' /\ Backed(b)'
<1>1. /\ screen = "buying" /\ screen' = "alerts" /\ cursor' = cursor + 1
      /\ Kitchen!Pantry!RestockIngredient(Alerted, Bought * Required[Alerted])
      /\ UNCHANGED <<current, completedOrders, totalEarnings>>
    BY DEF RestockPortions, NextAlert, Kitchen!Restock, Kitchen!orderVars, Kitchen!books
<1>2. PICK a : a = Alerted
    OBVIOUS
<1>3. cursor \in Nat /\ cursor + 1 \in DOMAIN alerts /\ Given = cursor /\ Given' = cursor + 1
    <2>1. HasNext
        BY <1>1 DEF GameInv, Flow, HasNext
    <2> QED
        BY <1>1, <2>1, AlertedIsKnown, Known DEF Given
<1>4. a \in InUse /\ a \in Ids /\ ~Kitchen!Pantry!IsExpired(a) /\ a = alerts[cursor + 1]
    BY <1>2, <1>3 DEF AlertsInv, Alerted, InUse, Spoiled, GameInv, BookInv
<1>5. /\ quantity \in [Ids -> Int] /\ Required[a] \in Nat \ {0}
      /\ Begun \in Nat /\ Begun' = Begun /\ totalEarnings \in Int
    BY <1>1, <1>4, BasketKnown, GameRequired DEF Begun
<1>6. /\ UNCHANGED basket
      /\ quantity' = [quantity EXCEPT ![a] = @ + Bought * Required[a]]
      /\ alerts' = IF Kitchen!Pantry!IsExpired(a)
                      \/ Kitchen!Pantry!IsLow(a, quantity[a] + Bought * Required[a])
                   THEN Append(alerts, a) ELSE alerts
    BY <1>1, <1>2 DEF Kitchen!Pantry!RestockIngredient, Kitchen!Pantry!CheckThresholds
<1>7. /\ quantity'[a] = quantity[a] + 10 * Required[a]
      /\ \A i \in Ids : i # a => quantity'[i] = quantity[i]
    BY <1>4, <1>5, <1>6 DEF Bought
<1>8. alerts' = alerts
    <2>1. Supplied
        BY DEF Fresh, FreshStock
    <2>2. quantity[a] >= Required[a]
        BY <1>3, <1>4, <2>1 DEF Supplied, Portion
    <2>3. ~Kitchen!Pantry!IsLow(a, quantity[a] + Bought * Required[a])
        BY <1>4, <1>5, <2>2 DEF Kitchen!Pantry!IsLow, Bought
    <2> QED
        BY <1>4, <1>6, <2>3
<1>9. AlertsInv'
    <2>1. ASSUME NEW k \in DOMAIN alerts, k > cursor + 1 PROVE ~Covered(alerts[k])'
        <3>1. k \in Nat /\ k > cursor /\ k # cursor + 1
            BY <1>3, <2>1, Known
        <3>2. alerts[k] # a /\ alerts[k] \in Ids /\ ~Covered(alerts[k])
            BY <1>3, <1>4, <3>1 DEF AlertsInv, Once, InUse
        <3>3. quantity'[alerts[k]] = quantity[alerts[k]]
            BY <1>7, <3>2
        <3> QED
            BY <1>8, <3>2, <3>3 DEF Covered
    <2> QED
        BY <1>3, <1>6, <1>8, <2>1 DEF AlertsInv, Once
<1>10. \A i : /\ Taken(i) = 0 /\ Taken(i)' = 0 /\ Unshelved(i)' = 0
              /\ Unshelved(i) = IF i = a THEN 1 ELSE 0
    <2>1. current = 0 /\ current' = 0
        BY <1>1 DEF GameInv, Flow, AtRest
    <2> QED
        BY <1>1, <1>2, <2>1 DEF Taken, Unshelved
<1>11. ASSUME NEW i \in InUse PROVE quantity'[i] >= PortionsLeft(i, b)' * Required[i]
    <2>1. i \in Ids /\ quantity[i] \in Int /\ Required[i] \in Nat \ {0} /\ b[i] \in Nat
        BY <1>5, GameRequired DEF InUse
    <2>2. quantity[i] >= PortionsLeft(i, b) * Required[i] /\ PortionsLeft(i, b) \in Int
        BY <1>5, <2>1, PortionsAreWhole DEF Backed, Lasting
    <2>3. CASE i = a
        <3>1. PortionsLeft(i, b)' = PortionsLeft(i, b) + 10
            BY <1>5, <1>10, <2>1, <2>3 DEF PortionsLeft, Bought
        <3>2. quantity[i] + 10 * Required[i] >= (PortionsLeft(i, b) + 10) * Required[i]
            BY <2>1, <2>2, MorePortions
        <3> QED
            BY <1>7, <2>3, <3>1, <3>2
    <2>4. CASE i # a
        <3>1. PortionsLeft(i, b)' = PortionsLeft(i, b)
            BY <1>5, <1>10, <2>4 DEF PortionsLeft
        <3> QED
            BY <1>7, <2>1, <2>2, <2>4, <3>1
    <2> QED
        BY <2>3, <2>4
<1>12. Lasting(b)'
    BY <1>11 DEF Lasting
<1>13. Afforded(b)' /\ Rare(b)'
    BY <1>1 DEF Backed, Afforded, Rare, Begun
<1> QED
    BY <1>9, <1>12, <1>13 DEF Backed

LEMMA FinishBacks ==
    ASSUME GameInv, [Next]_vars, AlertsInv, NEW b \in [Ids -> Nat], Backed(b), FinishOrder
    PROVE  AlertsInv' /\ Backed(b)'
<1>1. /\ screen = "alerts" /\ screen' = "window" /\ alerts' = <<>>
      /\ UNCHANGED <<quantity, basket, at, current, completedOrders, totalEarnings>>
    BY DEF FinishOrder, Kitchen!ClearAlerts, Kitchen!Pantry!ClearAlerts, Kitchen!orderVars,
           Kitchen!books
<1>2. AlertsInv'
    BY <1>1 DEF AlertsInv, Once
<1>3. \A i : /\ Unshelved(i) = 0 /\ Unshelved(i)' = 0 /\ Taken(i)' = Taken(i)
             /\ Taken(i) \in {0, 1}
    BY <1>1 DEF Unshelved, Taken
<1>4. Begun \in Nat /\ totalEarnings \in Int /\ Begun' = Begun
    BY <1>1, BasketKnown DEF Begun
<1>5. Backed(b)'
    BY <1>1, <1>3, <1>4, KitchenTypes, StillBacked DEF Bought
<1> QED
    BY <1>2, <1>5

LEMMA DebtInvStep ==
    ASSUME GameInv, GameInv', [Next]_vars, DebtInv PROVE DebtInv'
<1>1. SUFFICES ASSUME ~Spoiled' PROVE AlertsInv' /\ \E b \in [Ids -> Nat] : Backed(b)'
    BY DEF DebtInv
<1>2. ~Spoiled /\ Fresh
    BY <1>1, SpoiledRemains DEF GameInv
<1>3. AlertsInv
    BY <1>2 DEF DebtInv
<1>4. PICK b \in [Ids -> Nat] : Backed(b)
    BY <1>2 DEF DebtInv
<1>5. CASE \/ HandleNewOrder \/ HandleSkip \/ HandleCook \/ RemoveRecipes \/ Close \/ Tick
           \/ UNCHANGED vars
    BY <1>3, <1>4, <1>5, QuietBacks
<1>6. CASE TooLateToCook
    BY <1>3, <1>4, <1>6, TooLateBacks
<1>7. CASE StartCooking
    BY <1>2, <1>3, <1>4, <1>7, StartBacks
<1>8. CASE Consume
    BY <1>2, <1>3, <1>4, <1>8, ConsumeBacks
<1>9. CASE CookingThrows \/ IterationThrows
    BY <1>2, <1>9 DEF Fresh, FreshStock, CookingThrows, IterationThrows, Kitchen!StrandOrder
<1>10. CASE Serve
    BY <1>2, <1>3, <1>4, <1>10, ServeBacks
<1>11. CASE PayForPortions
    BY <1>2, <1>3, <1>4, <1>11, PayBacks
<1>12. CASE RestockPortions
    BY <1>2, <1>3, <1>4, <1>12, RestockBacks
<1>13. CASE FinishOrder
    BY <1>3, <1>4, <1>13, FinishBacks
<1> QED
    BY <1>5, <1>6, <1>7, <1>8, <1>9, <1>10, <1>11, <1>12, <1>13 DEF Next, Handler, AnswerAlert

LEMMA DebtInvInit == Init => DebtInv
<1> SUFFICES ASSUME Init PROVE AlertsInv /\ \E b \in [Ids -> Nat] : Backed(b)
    BY DEF DebtInv
<1>1. /\ alerts = <<>> /\ basket = <<>> /\ current = 0 /\ completedOrders = <<>>
      /\ quantity = OpeningStock /\ totalEarnings = 0 /\ screen = "window"
    BY DEF Init, NewGame, StartAt, Kitchen!Init
<1>2. AlertsInv
    BY <1>1 DEF AlertsInv, Once
<1>3. PICK b : b = [i \in Ids |-> 0]
    OBVIOUS
<1>4. b \in [Ids -> Nat] /\ Begun = 0 /\ \A i \in Ids : b[i] = 0
    BY <1>1, <1>3 DEF Begun
<1>5. Rare(b)
    BY <1>4 DEF Rare, Bought
<1>6. Afforded(b)
    <2>1. Cardinality(Paid(b)) \in Nat
        BY <1>4, <1>5, RareEnough
    <2> QED
        BY <1>1, <2>1 DEF Afforded
<1>7. Lasting(b)
    <2>1. ASSUME NEW i \in InUse PROVE quantity[i] >= PortionsLeft(i, b) * Required[i]
        <3>1. i \in Ids /\ PortionsLeft(i, b) = 2
            BY <1>1, <1>4 DEF InUse, PortionsLeft, Unshelved, Taken, Bought
        <3>2. OpeningStock[i] >= 2 * Required[i]
            BY GameSeeds DEF InUse, Lists
        <3> QED
            BY <1>1, <3>1, <3>2
    <2> QED
        BY <2>1 DEF Lasting
<1> QED
    BY <1>2, <1>4, <1>5, <1>6, <1>7 DEF Backed

--------------------------------------------------------------------------------
(* The theorems *)

LEMMA GameInits == Init => GameInv
<1> SUFFICES ASSUME Init PROVE GameInv
    OBVIOUS
<1>1. /\ Kitchen!Init /\ recipes = Seeded /\ playerSkillLevel = 1 /\ ordersCompleted = 0
      /\ cursor = 0 /\ expected = 0 /\ screen = "window" /\ pendingOrder = Null /\ number = 0
      /\ cookingEnabled = FALSE
      /\ shown = [skill |-> 1, earned |-> 0, satisfaction |-> 0, orders |-> 0]
    BY DEF Init, NewGame, StartAt
<1>2. /\ alerts = <<>> /\ basket = <<>> /\ at = "idle" /\ current = 0 /\ queue = <<>>
      /\ stored = Ids /\ quantity = OpeningStock /\ totalEarnings = 0 /\ orders = <<>>
    BY <1>1 DEF Kitchen!Init
<1>3. Kitchen!TypeOK
    BY <1>1, KitchenTypeInit
<1>4. OwnTypes
    <2>1. number \in 0 .. Len(orders)
        BY <1>1, <1>2
    <2>2. pendingOrder \in Tickets \cup {Null} /\ cookingEnabled \in BOOLEAN
        BY <1>1
    <2>3. shown \in [skill : 1 .. MaxLevel, earned : Int, satisfaction : Int, orders : Nat]
        BY <1>1, GameLevels
    <2> QED
        BY <1>1, <2>1, <2>2, <2>3, GameBook, GameLevels DEF OwnTypes
<1>5. TypeOK
    BY <1>3, <1>4, TypeParts
<1>6. Flow /\ PendingInv /\ BookInv
    BY <1>1, <1>2 DEF Flow, AtRest, PendingInv, BookInv
<1>7. FiguresInv
    BY <1>1, GameLevels DEF FiguresInv, Entitles
<1>8. Supplied /\ Provided(0)
    <2>1. Supplied
        BY <1>2 DEF Supplied
    <2>2. ASSUME NEW r \in recipes, NEW k \in DOMAIN Ingredients[r]
          PROVE  Settled(Ingredients[r][k], 0)
        <3>1. /\ Ingredients[r][k] \in Ids
              /\ OpeningStock[Ingredients[r][k]] >= 2 * Required[Ingredients[r][k]]
            BY <1>1, <2>2, GameBook, GameRecipes, GameSeeds, ElementOfSeq
        <3>2. Covered(Ingredients[r][k])
            BY <1>2, <3>1 DEF Covered
        <3>3. Kitchen!Pantry!TypeOK
            BY <1>3 DEF Kitchen!TypeOK
        <3> QED
            BY <3>1, <3>2, <3>3, CoveredIsPortion DEF Settled
    <2> QED
        BY <2>1, <2>2 DEF Provided
<1>9. FreshStock
    BY <1>1, <1>2, <1>8 DEF FreshStock, Given
<1>10. FreshOrders
    BY <1>1, <1>2, KitchenInvInit DEF FreshOrders
<1> QED
    BY <1>5, <1>6, <1>7, <1>9, <1>10 DEF GameInv, Fresh

LEMMA GameSteps == GameInv /\ [Next]_vars => GameInv'
<1> SUFFICES ASSUME GameInv, [Next]_vars PROVE GameInv'
    OBVIOUS
<1>1. CASE HandleNewOrder \/ HandleSkip \/ Close
    BY <1>1, WindowKeeps
<1>2. CASE HandleCook
    BY <1>2, CookKeeps
<1>3. CASE TooLateToCook
    BY <1>3, TooLateKeeps
<1>4. CASE StartCooking
    BY <1>4, StartKeeps
<1>5. CASE Consume
    BY <1>5, ConsumeKeeps
<1>6. CASE CookingThrows \/ IterationThrows
    BY <1>6, ThrowKeeps
<1>7. CASE Serve
    BY <1>7, ServeKeeps
<1>8. CASE PayForPortions
    BY <1>8, PayKeeps
<1>9. CASE RestockPortions
    BY <1>9, RestockKeeps
<1>10. CASE RemoveRecipes
    BY <1>10, RemoveKeeps
<1>11. CASE FinishOrder
    BY <1>11, FinishKeeps
<1>12. CASE Tick
    BY <1>12, TickKeeps
<1>13. CASE UNCHANGED vars
    BY <1>13, StutterKeeps
<1> QED
    BY <1>1, <1>2, <1>3, <1>4, <1>5, <1>6, <1>7, <1>8, <1>9, <1>10, <1>11, <1>12, <1>13
    DEF Next, Handler, AnswerAlert

LEMMA GameInvariant == Spec => []GameInv
BY GameInits, GameSteps, PTL DEF Spec

\* The figures, the pending order and the place of every handler are what they are meant
\* to be, whatever is pressed (SwingGame).
THEOREM TypeCorrect == Spec => []TypeOK
<1>1. GameInv => TypeOK
    BY DEF GameInv
<1> QED
    BY <1>1, GameInvariant, PTL

\* Whichever way a handler was left, the buttons fit the pending order
\* (setCookingButtonsEnabled in handleNewOrder, handleCook and handleSkip).
THEOREM ButtonsAlwaysFit == Spec => []ButtonsFitOrder
<1>1. GameInv => ButtonsFitOrder
    BY DEF GameInv, PendingInv, ButtonsFitOrder
<1> QED
    BY <1>1, GameInvariant, PTL

\* handleCook processes the order it enqueued, and showResult reads the figures of that
\* order, also after other handlers were ended by exceptions.
THEOREM OwnOrderCooked == Spec => []CooksItsOwnOrder
<1>1. GameInv => CooksItsOwnOrder
    BY DEF GameInv, Flow, AtRest, OwnIsLast, CooksItsOwnOrder
<1> QED
    BY <1>1, GameInvariant, PTL

\* Neither consumeIngredients nor the loop over the alerts throws unless something in the
\* pantry has gone bad: what handleStockAlerts buys and removes is enough.
THEOREM ThrowsOnlyWhenSpoiled == Spec => []OnlyExpiryThrows
<1>1. GameInv => OnlyExpiryThrows
    BY DEF GameInv, Fresh, FreshStock, OnlyExpiryThrows, SomethingExpired, Spoiled
<1> QED
    BY <1>1, GameInvariant, PTL

\* As long as nothing has gone bad handleCook enqueues an order once and decorates it once.
THEOREM ServedOnce == Spec => []ServedOnceIfFresh
<1>1. ASSUME GameInv PROVE ServedOnceIfFresh
    <2>1. CASE Spoiled
        BY <2>1 DEF ServedOnceIfFresh, SomethingExpired, Spoiled
    <2>2. CASE Fresh
        <3>1. \A o \in Kitchen!OrderNumbers : Once(orders[o].dish[2])
            BY <2>2 DEF Fresh, FreshOrders, Kitchen!OrderNumbers
        <3>2. Kitchen!Increasing(completedOrders)
            BY <2>2, PromisesKept DEF Fresh, FreshOrders, Promises, Kitchen!FirstComeFirstServed
        <3>3. ASSUME NEW j \in DOMAIN completedOrders, NEW k \in DOMAIN completedOrders,
                     completedOrders[j] = completedOrders[k]
              PROVE  j = k
            <4>1. completedOrders \in Seq(Kitchen!OrderNumbers)
                BY <1>1, Known DEF Kitchen!TypeOK
            <4>2. j \in Nat /\ k \in Nat /\ completedOrders[j] \in Nat
                BY <4>1, LenProperties, ElementOfSeq DEF Kitchen!OrderNumbers
            <4>3. ~(j < k) /\ ~(k < j)
                BY <3>2, <3>3, <4>2 DEF Kitchen!Increasing
            <4> QED
                BY <4>2, <4>3
        <3> QED
            BY <3>1, <3>3 DEF ServedOnceIfFresh, Once
    <2> QED
        BY <1>1, <2>1, <2>2 DEF GameInv
<1> QED
    BY <1>1, GameInvariant, PTL

\* checkLevelUp keeps the level at what the orders entitle to, whatever follows it.
THEOREM LevelKept == Spec => []LevelMatchesOrders
<1>1. GameInv => LevelMatchesOrders
    <2>1. SUFFICES ASSUME GameInv PROVE playerSkillLevel = LevelFor(ordersCompleted)
        BY DEF LevelMatchesOrders
    <2>2. ordersCompleted \in Nat /\ playerSkillLevel \in 1 .. MaxLevel
        BY <2>1, Known DEF OwnTypes
    <2> QED
        BY <2>1, <2>2, EntitledLevel DEF GameInv, FiguresInv
<1> QED
    BY <1>1, GameInvariant, PTL

\* updateStatusBar is called wherever the figures it shows have changed, unless spoiled food
\* ends the handler before.
THEOREM BarIsCurrent == Spec => []StatusBarCurrent
<1>1. GameInv => StatusBarCurrent
    BY DEF GameInv, FiguresInv, Fresh, FreshOrders, StatusBarCurrent, SomethingExpired, Spoiled
<1> QED
    BY <1>1, GameInvariant, PTL

\* As long as nothing has gone bad the Swing game uses the kitchen so that what module
\* OrderService promises of the orders and the ledgers holds; an exception makes it
\* enqueue an order twice, and then it may not.
THEOREM KitchenKeepsItsPromises == Spec => [](Spoiled \/ Promises)
<1>1. GameInv => Spoiled \/ Promises
    BY PromisesKept DEF GameInv, Fresh, FreshOrders
<1> QED
    BY <1>1, GameInvariant, PTL

\* As long as nothing has gone bad the Swing game takes its kitchen through the life cycle
\* of module OrderLifecycle; after that it may enqueue an order that has met its fate.
THEOREM SwingKeepsLifecycle ==
    Spec => /\ Kitchen!Lifecycle!Init
            /\ [][Spoiled \/ Kitchen!Lifecycle!Next]_(Kitchen!Lifecycle!lifecycleVars)
<1>1. Init => Kitchen!Lifecycle!Init
    BY LifecycleKept DEF Init, NewGame, StartAt
<1>2. GameInv /\ [Next]_vars
      => [Spoiled \/ Kitchen!Lifecycle!Next]_(Kitchen!Lifecycle!lifecycleVars)
    <2> SUFFICES ASSUME GameInv, [Next]_vars, ~Spoiled
                 PROVE  [Kitchen!Lifecycle!Next]_(Kitchen!Lifecycle!lifecycleVars)
        OBVIOUS
    <2>1. KitchenInv /\ ~Again
        BY DEF GameInv, Fresh, FreshOrders, Again
    <2> QED
        BY <2>1, GameOperates, LifecycleKept
<1> QED
    BY <1>1, <1>2, GameInvariant, PTL DEF Spec

\* What handleStockAlerts buys lasts for ten orders: as long as nothing has gone bad, no
\* ingredient is paid for more than once for every ten orders begun.
THEOREM DebtStaysBounded == Spec => []DebtIsBounded
<1>1. GameInv /\ DebtInv => DebtIsBounded
    <2> SUFFICES ASSUME GameInv, DebtInv, ~Spoiled
                 PROVE  totalEarnings >= -(Purchases * SumOfCosts)
        BY DEF DebtIsBounded, SomethingExpired, Spoiled
    <2>1. PICK b \in [Ids -> Nat] : Backed(b)
        BY DEF DebtInv
    <2>2. Begun \in Nat /\ totalEarnings \in Int
        BY BasketKnown
    <2>3. /\ Purchases \in Nat /\ Cardinality(Paid(b)) \in Nat
          /\ Cardinality(Paid(b)) <= Purchases * SumOfCosts
        BY <2>1, <2>2, RareEnough DEF Backed
    <2>4. PICK m \in Nat : m = Purchases * SumOfCosts
        BY <2>3, DollarsFinite
    <2>5. totalEarnings >= -Cardinality(Paid(b))
        BY <2>1 DEF Backed, Afforded
    <2> QED
        BY <2>2, <2>3, <2>4, <2>5
<1>2. GameInv /\ GameInv' /\ [Next]_vars /\ DebtInv => DebtInv'
    BY DebtInvStep
<1> QED
    BY <1>1, <1>2, DebtInvInit, GameInvariant, PTL DEF Spec

--------------------------------------------------------------------------------
(* How long Cook keeps the event thread *)

\* The steps that the handler and the answers to its dialogues have left.
StepsLeft == CASE screen = "cooking" -> CookingSteps(pendingOrder.dish[1])
               [] screen = "alerts"  -> AlertSteps
               [] screen = "buying"  -> BuyingSteps
               [] OTHER              -> 0

\* What is paid for is restocked from a list that has not grown.
BuysFromWhole == screen = "buying" => ~ListGrew

LEMMA PendingRecipe ==
    ASSUME GameInv, screen = "cooking"
    PROVE  pendingOrder.dish \in Dishes /\ pendingOrder.dish[1] \in Recipes
BY DishParts DEF GameInv, Flow, PendingInv, Tickets

LEMMA StepsLeftIsNatural ==
    ASSUME GameInv
    PROVE  StepsLeft \in Nat /\ (StepsLeft = 0 <=> screen \in {"window", "closed"})
<1>1. /\ Kitchen!TypeOK /\ cursor \in Nat /\ Len(alerts) \in Nat
      /\ screen \in {"window", "cooking", "alerts", "buying", "closed"}
    BY Known DEF OwnTypes
<1>2. CASE screen = "cooking"
    <2>1. at # "idle" \/ current = 0
        BY <1>2 DEF GameInv, Flow
    <2>2. CookingSteps(pendingOrder.dish[1]) \in Nat /\ CookingSteps(pendingOrder.dish[1]) > 0
        BY <1>1, <1>2, <2>1, PendingRecipe, CookingIsNatural
    <2>3. StepsLeft = CookingSteps(pendingOrder.dish[1])
        BY <1>2 DEF StepsLeft
    <2> QED
        BY <1>2, <2>2, <2>3
<1>3. CASE screen = "alerts"
    <2>1. cursor <= Len(alerts)
        BY <1>3 DEF GameInv, Flow
    <2>2. AlertSteps \in Nat /\ AlertSteps > 0
        BY <1>1, <2>1 DEF AlertSteps
    <2> QED
        BY <1>3, <2>2 DEF StepsLeft
<1>4. CASE screen = "buying"
    <2>1. cursor < Len(alerts)
        BY <1>4 DEF GameInv, Flow
    <2>2. BuyingSteps \in Nat /\ BuyingSteps > 0
        BY <1>1, <2>1 DEF BuyingSteps
    <2> QED
        BY <1>4, <2>2 DEF StepsLeft
<1>5. CASE screen \in {"window", "closed"}
    BY <1>5 DEF StepsLeft
<1> QED
    BY <1>1, <1>2, <1>3, <1>4, <1>5

LEMMA BuysFromWholeStep == ASSUME BuysFromWhole, [Next]_vars PROVE BuysFromWhole'
<1> USE DEF BuysFromWhole, ListGrew
<1>1. CASE PayForPortions
    BY <1>1 DEF PayForPortions, Prompting, Kitchen!SpendFunds, Kitchen!pantryVars, iterator
<1>2. CASE Tick
    BY <1>2 DEF Tick, Kitchen!Tick, Kitchen!Pantry!Midnight, Kitchen!pantryVars, iterator
<1>3. CASE UNCHANGED vars
    BY <1>3 DEF vars, kitchenVars, iterator
<1>4. CASE Handler
    BY <1>4 DEF Handler, TooLateToCook, StartCooking, Consume, CookingThrows, Serve,
       RestockPortions, IterationThrows, FinishOrder
<1>5. CASE HandleNewOrder \/ HandleSkip \/ HandleCook \/ RemoveRecipes \/ Close
    BY <1>5 DEF HandleNewOrder, HandleSkip, HandleCook, RemoveRecipes, Prompting, Close
<1> QED
    BY <1>1, <1>2, <1>3, <1>4, <1>5 DEF Next, AnswerAlert

LEMMA BackAtWindow ==
    ASSUME GameInv, screen \notin {"window", "closed"}, screen' = "window"
    PROVE  StepsLeft' < StepsLeft
<1>1. StepsLeft' = 0
    BY DEF StepsLeft
<1>2. StepsLeft \in Nat /\ StepsLeft # 0
    BY StepsLeftIsNatural
<1> QED
    BY <1>1, <1>2

LEMMA HandlerShortens ==
    ASSUME GameInv, Kitchen!TypeOK', BuysFromWhole, Handler \/ AnswerAlert
    PROVE  StepsLeft' < StepsLeft
<1>0. Kitchen!TypeOK /\ cursor \in Nat /\ Len(alerts) \in Nat
    BY Known DEF OwnTypes
<1>1. CASE TooLateToCook \/ CookingThrows \/ IterationThrows \/ FinishOrder
    <2>1. screen \in {"cooking", "alerts"} /\ screen' = "window"
        BY <1>1 DEF TooLateToCook, CookingThrows, IterationThrows, FinishOrder
    <2> QED
        BY <2>1, BackAtWindow
<1>2. CASE StartCooking
    <2>1. /\ screen = "cooking" /\ screen' = "cooking" /\ pendingOrder' = pendingOrder
          /\ Kitchen!TakeUp
        BY <1>2 DEF StartCooking, widgets, orderWidgets
    <2>2. PICK r \in Recipes : r = pendingOrder.dish[1] /\ pendingOrder.dish \in Dishes
        BY <2>1, PendingRecipe
    <2>3. queue = <<number>> /\ orders[number].dish = pendingOrder.dish
        BY <2>1 DEF GameInv, Flow, Kitchen!TakeUp, Kitchen!Idle
    <2>4. orders[Head(queue)].dish \in Dishes /\ orders[Head(queue)].dish[1] = r
        BY <2>2, <2>3
    <2>5. CookingSteps(r)' < CookingSteps(r)
        BY <1>0, <2>1, <2>4, TakeUpShortens
    <2> QED
        BY <2>1, <2>2, <2>5 DEF StepsLeft
<1>3. CASE Consume
    <2>1. /\ screen = "cooking" /\ screen' = "cooking" /\ pendingOrder' = pendingOrder
          /\ Kitchen!Consume
        BY <1>3 DEF Consume, widgets, orderWidgets
    <2>2. PICK r \in Recipes : r = pendingOrder.dish[1]
        BY <2>1, PendingRecipe
    <2>3. current # 0
        BY <2>1 DEF GameInv, Flow, Kitchen!Consume, Kitchen!Pantry!ConsumeStep,
           Kitchen!Pantry!MissingThrows, Kitchen!Pantry!ExpiredThrows,
           Kitchen!Pantry!FoundFresh, Kitchen!Pantry!Take, Kitchen!Pantry!UnavailableThrows,
           Kitchen!Pantry!Warn
    <2>4. CookingSteps(r)' < CookingSteps(r)
        BY <1>0, <2>1, <2>3, ConsumeShortens
    <2> QED
        BY <2>1, <2>2, <2>4 DEF StepsLeft
<1>4. CASE Serve
    <2>1. /\ screen = "cooking" /\ screen' = "alerts" /\ BeginAlerts
          /\ current # 0 /\ Kitchen!Pantry!ReturnToCaller
        BY <1>4 DEF Serve, Kitchen!ServeTooLate, Kitchen!ServeInTime
    <2>2. PICK r \in Recipes : r = pendingOrder.dish[1]
        BY <2>1, PendingRecipe
    <2>3. AlertSteps' < CookingSteps(r)
        BY <1>0, <2>1, AlertsBegin
    <2> QED
        BY <2>1, <2>2, <2>3 DEF StepsLeft
<1>5. CASE PayForPortions
    <2>1. /\ screen = "alerts" /\ screen' = "buying" /\ ~ListGrew
          /\ UNCHANGED <<alerts, cursor>>
        BY <1>5 DEF PayForPortions, Prompting, Kitchen!SpendFunds, Kitchen!pantryVars, iterator
    <2>2. BuyingSteps' < AlertSteps
        BY <1>0, <2>1, AlertsAnswered
    <2> QED
        BY <2>1, <2>2 DEF StepsLeft
<1>6. CASE RemoveRecipes
    <2>1. /\ screen = "alerts" /\ screen' = "alerts" /\ ~ListGrew
          /\ alerts' = alerts /\ NextAlert
        BY <1>6 DEF RemoveRecipes, Prompting, kitchenVars
    <2>2. AlertSteps' < AlertSteps
        BY <1>0, <2>1, AlertsAnswered
    <2> QED
        BY <2>1, <2>2 DEF StepsLeft
<1>7. CASE RestockPortions
    <2>1. /\ screen = "buying" /\ screen' = "alerts" /\ NextAlert
          /\ Kitchen!Restock(Alerted, Bought * Required[Alerted])
        BY <1>7 DEF RestockPortions
    <2>2. cursor < Len(alerts) /\ ~ListGrew
        BY <2>1 DEF GameInv, Flow, BuysFromWhole
    <2>3. Alerted \in Ids
        BY <1>0, <2>1, <2>2, AlertedIsKnown DEF HasNext
    <2>4. AlertSteps' < BuyingSteps
        BY <1>0, <2>1, <2>2, <2>3, RestockShortens
    <2> QED
        BY <2>1, <2>4 DEF StepsLeft
<1> QED
    BY <1>1, <1>2, <1>3, <1>4, <1>5, <1>6, <1>7 DEF Handler, AnswerAlert

\* Once Cook is pressed the event thread is on its way back to the window, whatever the
\* pantry holds and whatever is answered: each step of the handler and each answer leaves
\* fewer to come, only the clock goes on besides, and nothing is left exactly where the
\* player can press a button again.
THEOREM HandlersRunDown ==
    Spec => /\ [](StepsLeft \in Nat /\ (StepsLeft = 0 <=> screen \in {"window", "closed"}))
            /\ [][screen \notin {"window", "closed"} =>
                      \/ StepsLeft' < StepsLeft
                      \/ (Tick /\ StepsLeft' = StepsLeft)]_vars
<1>1. Init => BuysFromWhole
    BY DEF Init, BuysFromWhole
<1>2. BuysFromWhole /\ [Next]_vars => BuysFromWhole'
    BY BuysFromWholeStep
<1>3. GameInv /\ BuysFromWhole /\ [Next]_vars
      => [screen \notin {"window", "closed"} =>
              \/ StepsLeft' < StepsLeft
              \/ (Tick /\ StepsLeft' = StepsLeft)]_vars
    <2> SUFFICES ASSUME GameInv, BuysFromWhole, Next, screen \notin {"window", "closed"}
                 PROVE  StepsLeft' < StepsLeft \/ (Tick /\ StepsLeft' = StepsLeft)
        OBVIOUS
    <2>1. Handler \/ AnswerAlert \/ Tick
        BY DEF Next, HandleNewOrder, HandleSkip, HandleCook, Close
    <2>2. CASE Handler \/ AnswerAlert
        BY <2>2, KitchenTypes, HandlerShortens
    <2>3. CASE Tick
        <3>1. UNCHANGED <<basket, at, current, alerts, cursor, expected, screen, pendingOrder>>
            BY <2>3 DEF Tick, Kitchen!Tick, Kitchen!Pantry!Midnight, Kitchen!pantryVars,
               Kitchen!orderVars, widgets, orderWidgets, iterator
        <3>2. StepsLeft' = StepsLeft
            BY <3>1, SameSteps DEF StepsLeft
        <3> QED
            BY <2>3, <3>2
    <2> QED
        BY <2>1, <2>2, <2>3
<1>4. GameInv => StepsLeft \in Nat /\ (StepsLeft = 0 <=> screen \in {"window", "closed"})
    BY StepsLeftIsNatural
<1> QED
    BY <1>1, <1>2, <1>3, <1>4, GameInvariant, PTL DEF Spec

================================================================================
