--------------------------- MODULE TerminalGameProofs --------------------------
(* The terminal game keeps its promises for every set of recipes, ingredients,      *)
(* prices and thresholds, and every number of orders and seconds.                    *)
EXTENDS TerminalGame, GameManagerProofs

--------------------------------------------------------------------------------
(* The inductive invariant *)

AtRest == current = 0 /\ at = "idle" /\ queue = <<>>

\* The alerts the loop has given.
Given == IF screen \in {"alerts", "buying"} THEN cursor ELSE 0

\* Which parts of the kitchen are in use on which screen.
Flow ==
    /\ screen # "cooking" => AtRest
    /\ screen \in {"menu", "variation", "confirm", "over"} => alerts = <<>>
    /\ screen = "cooking" /\ current = 0 =>
           /\ at = "idle" /\ alerts = <<>>
           /\ queue = <<Len(orders)>> /\ orders[Len(orders)].dish[1] \in recipes
    /\ screen = "cooking" /\ current # 0 => at # "idle" /\ queue = <<>>
    /\ screen = "alerts" => cursor <= Len(alerts)
    /\ screen = "buying" => cursor < Len(alerts) /\ Len(alerts) = expected

\* The order the player is asked about is one he can be asked about.
TicketInv ==
    screen \in {"variation", "confirm"} =>
        /\ ticket.dish \in Dishes /\ ticket.dish[1] \in recipes
        /\ ticket.created \in 0 .. now
        /\ ticket.patience \in PatienceOf[ticket.dish]

StockInv == /\ recipes \subseteq Seeded
            /\ stored = Ids
            /\ Supplied
            /\ screen # "crashed" => Provided(Given)

SpoilInv == /\ at = "threw" => Spoiled
            /\ screen = "alerts" /\ ListGrew => Spoiled
            /\ screen = "crashed" => Spoiled

LevelInv == Entitles(ordersCompleted, playerSkillLevel)

GameInv == /\ TypeOK /\ Flow /\ TicketInv /\ StockInv /\ SpoilInv
           /\ NeverInDebt /\ LevelInv

\* The part of the type invariant that is not about the kitchen.
OwnTypes == /\ recipes \subseteq Recipes
            /\ playerSkillLevel \in 1 .. MaxLevel
            /\ ordersCompleted \in Nat
            /\ cursor \in Nat
            /\ expected \in Nat
            /\ screen \in {"menu", "variation", "confirm", "cooking", "alerts", "buying",
                           "over", "crashed"}
            /\ ticket \in Tickets \cup {NoTicket}

LEMMA TypeParts ==
    /\ TypeOK <=> Kitchen!TypeOK /\ OwnTypes
    /\ TypeOK' <=> Kitchen!TypeOK' /\ OwnTypes'
BY DEF TypeOK, GameTypeOK, OwnTypes

\* A recipe with one decoration is a dish.
LEMMA DecoratedIsDish == \A r \in Recipes, v \in Variations : <<r, <<v>>>> \in Dishes
<1> DEFINE Wraps == UNION {[1 .. n -> Variations] : n \in 0 .. MaxWraps}
<1>1. ASSUME NEW v \in Variations PROVE <<v>> \in Wraps
    <2>1. <<v>> \in [1 .. 1 -> Variations] /\ 1 \in 0 .. MaxWraps
        BY GameBounds, TerminalWraps
    <2> QED
        BY <2>1
<1> QED
    BY <1>1 DEF Dishes

\* A list the loop goes through is never empty when it gives something.
LEMMA AlertedIsKnown ==
    ASSUME GameInv, screen \in {"alerts", "buying"}, HasNext
    PROVE  /\ cursor < Len(alerts) /\ cursor \in Nat
           /\ Alerted \in Ids
           /\ Cost[Alerted] \in {n * Cost[i] : n \in Portions, i \in Ids}
           /\ Required[Alerted] \in {n * Required[i] : n \in Portions, i \in Ids}
<1>1. /\ alerts \in Seq(Ids) /\ Len(alerts) \in Nat /\ DOMAIN alerts = 1 .. Len(alerts)
      /\ cursor \in Nat /\ cursor <= Len(alerts)
    BY LenProperties DEF GameInv, TypeOK, GameTypeOK, Kitchen!TypeOK, Kitchen!Pantry!TypeOK, Flow
<1>2. cursor < Len(alerts) /\ Alerted \in Ids
    <2>0. cursor \in Nat /\ Len(alerts) \in Nat /\ cursor <= Len(alerts)
        BY <1>1
    <2>1. cursor < Len(alerts)
        BY <2>0 DEF HasNext
    <2>2. cursor + 1 \in 1 .. Len(alerts)
        BY <1>1, <2>1
    <2> QED
        BY <1>1, <2>1, <2>2, ElementOfSeq DEF Alerted
<1>3. 1 * Cost[Alerted] = Cost[Alerted] /\ 1 * Required[Alerted] = Required[Alerted]
    BY <1>2, GameCost, GameRequired
<1> QED
    BY <1>1, <1>2, <1>3 DEF Portions

--------------------------------------------------------------------------------
(* The game handles its kitchen as meant *)

LEMMA GameOperates == ASSUME GameInv, [Next]_vars PROVE [Kitchen!Operation]_kitchenVars
<1>1. CASE TakeOrder
    BY <1>1 DEF TakeOrder
<1>2. CASE ChooseVariation
    BY <1>2 DEF ChooseVariation
<1>3. CASE Skip
    BY <1>3 DEF Skip
<1>4. CASE Cook
    BY <1>4 DEF Cook, GameInv, TicketInv, Kitchen!Operation
<1>5. CASE TooLateToCook
    BY <1>5 DEF TooLateToCook, Kitchen!Operation
<1>6. CASE StartCooking
    BY <1>6 DEF StartCooking, Kitchen!Operation
<1>7. CASE Consume
    BY <1>7 DEF Consume, Kitchen!Operation, Kitchen!Processing
<1>8. CASE CookingThrows
    BY <1>8 DEF CookingThrows, Kitchen!Operation, Kitchen!Processing
<1>9. CASE Serve
    BY <1>9, TypeParts DEF Serve, Kitchen!Operation, Kitchen!Processing, GameInv, OwnTypes
<1>10. CASE PayForPortion
    BY <1>10, AlertedIsKnown DEF PayForPortion, Prompting, Kitchen!Operation
<1>11. CASE RestockPortion
    <2>1. HasNext
        BY <1>11 DEF RestockPortion, GameInv, Flow, HasNext
    <2> QED
        BY <1>11, <2>1, AlertedIsKnown DEF RestockPortion, Kitchen!Operation
<1>12. CASE RemoveAffectedRecipes
    BY <1>12 DEF RemoveAffectedRecipes
<1>13. CASE IterationThrows
    BY <1>13 DEF IterationThrows
<1>14. CASE FinishOrder
    BY <1>14 DEF FinishOrder, Kitchen!Operation
<1>15. CASE Quit
    BY <1>15 DEF Quit
<1>16. CASE Tick
    BY <1>16 DEF Tick, Kitchen!Operation
<1>17. CASE UNCHANGED vars
    BY <1>17 DEF vars
<1> QED
    BY <1>1, <1>2, <1>3, <1>4, <1>5, <1>6, <1>7, <1>8, <1>9, <1>10, <1>11, <1>12, <1>13, <1>14,
       <1>15, <1>16, <1>17 DEF Next, Handler, AnswerAlert

LEMMA GameInits == Init => GameInv
<1> SUFFICES ASSUME Init PROVE GameInv
    OBVIOUS
<1>1. /\ Kitchen!Init /\ recipes = Seeded /\ playerSkillLevel = 1 /\ ordersCompleted = 0
      /\ cursor = 0 /\ expected = 0 /\ screen = "menu" /\ ticket = NoTicket
    BY DEF Init, NewGame, StartAt
<1>2. /\ alerts = <<>> /\ basket = <<>> /\ at = "idle" /\ current = 0 /\ queue = <<>>
      /\ stored = Ids /\ quantity = OpeningStock /\ totalEarnings = 0
    BY <1>1 DEF Kitchen!Init
<1>3. TypeOK
    <2>1. Kitchen!TypeOK
        BY <1>1, KitchenTypeInit
    <2>2. OwnTypes
        BY <1>1, GameBook, GameLevels DEF OwnTypes
    <2> QED
        BY <2>1, <2>2, TypeParts
<1>4. Flow
    BY <1>1, <1>2 DEF Flow, AtRest
<1>5. StockInv
    <2>1. Supplied
        BY <1>2 DEF Supplied
    <2>2. ASSUME NEW r \in recipes, NEW k \in DOMAIN Ingredients[r]
          PROVE  Settled(Ingredients[r][k], 0)
        <3>1. /\ Ingredients[r][k] \in Ids
              /\ OpeningStock[Ingredients[r][k]] >= 2 * Required[Ingredients[r][k]]
            BY <1>1, <2>2, GameBook, GameRecipes, GameSeeds, ElementOfSeq
        <3>2. Covered(Ingredients[r][k])
            BY <1>2, <3>1 DEF Covered
        <3>3. Kitchen!Pantry!TypeOK
            BY <1>3 DEF TypeOK, GameTypeOK, Kitchen!TypeOK
        <3> QED
            BY <3>1, <3>2, <3>3, CoveredIsPortion DEF Settled
    <2> QED
        BY <1>1, <1>2, <2>1, <2>2 DEF StockInv, Provided, Given
<1>6. LevelInv
    BY <1>1, GameLevels DEF LevelInv, Entitles
<1> QED
    BY <1>1, <1>2, <1>3, <1>4, <1>5, <1>6 DEF GameInv, TicketInv, SpoilInv, NeverInDebt

--------------------------------------------------------------------------------
(* Every step keeps the invariant *)

LEMMA Known ==
    ASSUME GameInv
    PROVE  /\ Kitchen!TypeOK /\ OwnTypes /\ Kitchen!Pantry!TypeOK
           /\ alerts \in Seq(Ids) /\ Len(alerts) \in Nat /\ DOMAIN alerts = 1 .. Len(alerts)
           /\ Given \in Nat
           /\ now \in Nat /\ current \in Nat /\ totalEarnings \in Int
<1>1. Kitchen!TypeOK /\ OwnTypes
    BY TypeParts DEF GameInv
<1>2. Kitchen!Pantry!TypeOK /\ now \in Nat /\ current \in Nat /\ totalEarnings \in Int
    BY <1>1 DEF Kitchen!TypeOK
<1>3. alerts \in Seq(Ids) /\ Len(alerts) \in Nat /\ DOMAIN alerts = 1 .. Len(alerts)
    BY <1>2, LenProperties DEF Kitchen!Pantry!TypeOK
<1>4. Given \in Nat
    BY <1>1 DEF OwnTypes, Given
<1> QED
    BY <1>1, <1>2, <1>3, <1>4

\* The stock, the alerts given and the book stay as they are.
LEMMA StockAsBefore ==
    ASSUME GameInv, UNCHANGED <<stored, quantity, alerts, basket, recipes>>,
           at = "warn" <=> at' = "warn",
           screen' # "crashed" => screen # "crashed" /\ Given' = Given
    PROVE  StockInv'
<1>1. PICK g : g = Given
    OBVIOUS
<1>2. Supplied'
    BY StockKept DEF GameInv, StockInv
<1>3. ASSUME screen' # "crashed" PROVE Provided(Given)'
    <2>1. Provided(g) /\ g \in Nat /\ recipes \subseteq Recipes
        BY <1>1, <1>3, Known DEF GameInv, StockInv, OwnTypes, Provided, Settled, Announced
    <2>2. Provided(g)'
        BY <2>1, StillProvided, StockKept
    <2>3. Given' = g
        BY <1>1, <1>3
    <2> QED
        BY <2>2, <2>3 DEF Provided, Settled, Announced
<1> QED
    BY <1>2, <1>3 DEF GameInv, StockInv

\* A step that leaves the kitchen alone, and the loop over the alerts too.
LEMMA SpoilAsBefore ==
    ASSUME GameInv, UNCHANGED <<kitchenVars, iterator>>, screen' # "crashed",
           screen' = "alerts" => screen = "alerts"
    PROVE  SpoilInv'
<1>1. Spoiled => Spoiled'
    BY Known, SpoiledStays DEF kitchenVars
<1> QED
    BY <1>1 DEF GameInv, SpoilInv, kitchenVars, iterator, ListGrew

LEMMA DialogueKeeps ==
    ASSUME GameInv, TakeOrder \/ ChooseVariation \/ Skip \/ Quit
    PROVE  GameInv'
<1>1. /\ UNCHANGED <<kitchenVars, progress, iterator>>
      /\ screen \in {"menu", "variation", "confirm"}
      /\ screen' \in {"menu", "variation", "confirm", "over"}
    BY DEF TakeOrder, ChooseVariation, Skip, Quit
<1>2. OwnTypes' /\ TicketInv'
    <2>1. CASE TakeOrder
        <3>1. PICK r \in Available : ticket' \in NewOrders(Plain(r))
            BY <2>1 DEF TakeOrder
        <3>2. r \in recipes /\ r \in Recipes /\ Plain(r) \in Dishes /\ Plain(r)[1] = r
            BY Known, PlainIsDish DEF Available, FindByMaxSkillLevel, OwnTypes
        <3>3. PatienceOf[Plain(r)] \subseteq Nat \ {0}
            BY <3>2, GameRecipes
        <3>4. /\ ticket'.dish = Plain(r) /\ ticket'.created = now
              /\ ticket'.patience \in PatienceOf[Plain(r)]
              /\ ticket' \in Tickets
            BY <3>1, <3>2, <3>3, Known DEF NewOrders, Tickets
        <3> QED
            BY <1>1, <2>1, <3>2, <3>4, Known
            DEF TakeOrder, TicketInv, OwnTypes, progress, iterator, kitchenVars
    <2>2. CASE ChooseVariation
        <3>1. CASE UNCHANGED ticket
            BY <1>1, <2>2, <3>1, Known
            DEF ChooseVariation, GameInv, TicketInv, OwnTypes, progress, iterator, kitchenVars
        <3>2. ASSUME NEW v \in Variations, ticket' \in NewOrders(<<ticket.dish[1], <<v>>>>)
              PROVE  OwnTypes' /\ TicketInv'
            <4>1. PICK d : d = <<ticket.dish[1], <<v>>>>
                OBVIOUS
            <4>2. ticket.dish[1] \in recipes /\ ticket.dish[1] \in Recipes
                BY <2>2, Known DEF ChooseVariation, GameInv, TicketInv, OwnTypes
            <4>3. d \in Dishes /\ d[1] \in recipes
                BY <4>1, <4>2, DecoratedIsDish
            <4>4. PatienceOf[d] \subseteq Nat \ {0}
                BY <4>3, GameRecipes
            <4>5. /\ ticket'.dish = d /\ ticket'.created = now
                  /\ ticket'.patience \in PatienceOf[d]
                  /\ ticket' \in Tickets
                BY <3>2, <4>1, <4>3, <4>4, Known DEF NewOrders, Tickets
            <4> QED
                BY <1>1, <2>2, <4>3, <4>5, Known
                DEF ChooseVariation, TicketInv, OwnTypes, progress, iterator, kitchenVars
        <3> QED
            BY <2>2, <3>1, <3>2 DEF ChooseVariation
    <2>3. CASE Skip \/ Quit
        BY <1>1, <2>3, Known DEF Skip, Quit, OwnTypes, TicketInv, progress, iterator
    <2> QED
        BY <2>1, <2>2, <2>3
<1>3. TypeOK'
    BY <1>1, <1>2, Known, TypeParts, KitchenTypeStep
<1>4. Flow'
    BY <1>1 DEF GameInv, Flow, AtRest, kitchenVars, progress, iterator
<1>5. StockInv'
    BY <1>1, StockAsBefore DEF Given, kitchenVars, progress, iterator
<1>6. SpoilInv'
    BY <1>1, SpoilAsBefore
<1> QED
    BY <1>1, <1>2, <1>3, <1>4, <1>5, <1>6
    DEF GameInv, NeverInDebt, LevelInv, Entitles, kitchenVars, progress

LEMMA TickKeeps == ASSUME GameInv, Kitchen!TypeOK', Tick PROVE GameInv'
<1>1. /\ UNCHANGED <<screen, ticket, progress, iterator>> /\ screen # "crashed"
      /\ now' = now + 1
      /\ today' = today \/ today' = today + 1
      /\ UNCHANGED <<stored, quantity, expiry, alerts, basket, at, orders, queue, current,
                     totalEarnings>>
    BY DEF Tick, Running, Kitchen!Tick, Kitchen!pantryVars, Kitchen!orderVars, Kitchen!books,
           Kitchen!Pantry!Midnight
<1>2. OwnTypes'
    BY <1>1, Known DEF OwnTypes, progress, iterator
<1>3. Flow'
    BY <1>1 DEF GameInv, Flow, AtRest, progress, iterator
<1>4. TicketInv'
    <2>1. \A c \in 0 .. now : c \in 0 .. now'
        <3>1. now \in Nat
            BY Known
        <3> QED
            BY <1>1, <3>1
    <2>2. TicketInv /\ UNCHANGED <<screen, ticket, recipes>>
        BY <1>1 DEF GameInv, progress
    <2> QED
        BY <2>1, <2>2 DEF TicketInv
<1>5. StockInv'
    BY <1>1, StockAsBefore DEF Given, progress, iterator
<1>6. SpoilInv'
    <2>1. Spoiled => Spoiled'
        BY <1>1, Known, SpoiledStays
    <2> QED
        BY <1>1, <2>1 DEF GameInv, SpoilInv, ListGrew, iterator
<1> QED
    BY <1>1, <1>2, <1>3, <1>4, <1>5, <1>6, TypeParts
    DEF GameInv, NeverInDebt, LevelInv, Entitles, progress

LEMMA CookKeeps == ASSUME GameInv, Kitchen!TypeOK', Cook PROVE GameInv'
<1>1. /\ screen = "confirm" /\ screen' = "cooking" /\ ticket' = NoTicket
      /\ UNCHANGED <<progress, iterator, stored, quantity, expiry, alerts, today, basket, at,
                     current, totalEarnings>>
      /\ orders' = Append(orders, [dish |-> ticket.dish, created |-> ticket.created,
                                   patience |-> ticket.patience,
                                   status |-> "PENDING", satisfaction |-> 0])
      /\ queue' = Append(queue, Len(orders) + 1)
    BY DEF Cook, Kitchen!EnqueueOrder, Kitchen!AddLast, Kitchen!pantryVars, Kitchen!books
<1>2. OwnTypes'
    BY <1>1, Known DEF OwnTypes, progress, iterator
<1>3. Flow'
    <2>1. orders \in Seq(Kitchen!Orders) /\ queue = <<>>
        BY <1>1 DEF GameInv, TypeOK, GameTypeOK, Kitchen!TypeOK, Flow, AtRest
    <2>2. Len(orders') = Len(orders) + 1 /\ orders'[Len(orders) + 1].dish = ticket.dish
        BY <1>1, <2>1, AppendProperties
    <2>3. queue' = <<Len(orders')>> /\ orders'[Len(orders')].dish[1] \in recipes'
        BY <1>1, <2>1, <2>2 DEF GameInv, TicketInv, progress
    <2> QED
        BY <1>1, <2>3 DEF GameInv, Flow, AtRest
<1>4. StockInv'
    BY <1>1, StockAsBefore DEF Given, progress, iterator
<1>5. SpoilInv'
    <2>1. Spoiled => Spoiled'
        BY <1>1, Known, SpoiledStays
    <2> QED
        BY <1>1, <2>1 DEF GameInv, SpoilInv
<1> QED
    BY <1>1, <1>2, <1>3, <1>4, <1>5, TypeParts
    DEF GameInv, NeverInDebt, LevelInv, Entitles, TicketInv, progress

LEMMA TooLateKeeps == ASSUME GameInv, Kitchen!TypeOK', TooLateToCook PROVE GameInv'
<1>1. /\ screen = "cooking" /\ screen' = "menu" /\ current = 0 /\ at = "idle"
      /\ UNCHANGED <<ticket, progress, iterator, stored, quantity, expiry, alerts, today, basket,
                     at, now, current>>
      /\ queue' = Tail(queue)
      /\ totalEarnings' = totalEarnings + 0
    BY DEF TooLateToCook, Kitchen!CloseOverdue, Kitchen!Idle, Kitchen!Pantry!Idle,
           Kitchen!PollFirst, Kitchen!CloseOrder, Kitchen!Fulfil, Kitchen!Earning,
           Kitchen!pantryVars
<1>2. OwnTypes'
    BY <1>1, Known DEF OwnTypes, progress, iterator
<1>3. Flow'
    <2>1. queue = <<Len(orders)>> /\ alerts = <<>>
        BY <1>1 DEF GameInv, Flow
    <2>2. queue' = <<>>
        BY <1>1, <2>1
    <2> QED
        BY <1>1, <2>1, <2>2 DEF Flow, AtRest
<1>4. StockInv'
    BY <1>1, StockAsBefore DEF Given, progress, iterator
<1>5. SpoilInv'
    <2>1. Spoiled => Spoiled'
        BY <1>1, Known, SpoiledStays
    <2> QED
        BY <1>1, <2>1 DEF GameInv, SpoilInv
<1>6. NeverInDebt'
    <2>1. totalEarnings \in Int
        BY Known
    <2> QED
        BY <1>1, <2>1 DEF GameInv, NeverInDebt
<1> QED
    BY <1>1, <1>2, <1>3, <1>4, <1>5, <1>6, TypeParts
    DEF GameInv, LevelInv, Entitles, TicketInv, progress

\* The order that is taken up is for a recipe of the book.
LEMMA StartKeeps == ASSUME GameInv, Kitchen!TypeOK', StartCooking PROVE GameInv'
<1>1. /\ screen = "cooking" /\ current = 0
      /\ UNCHANGED <<screen, ticket, progress, iterator, now, totalEarnings>>
      /\ queue' = Tail(queue) /\ current' = Head(queue)
    BY DEF StartCooking, Kitchen!TakeUp, Kitchen!Idle, Kitchen!PollFirst, Kitchen!books
<1>2. /\ queue = <<Len(orders)>> /\ alerts = <<>>
      /\ orders[Len(orders)].dish[1] \in recipes
    BY <1>1 DEF GameInv, Flow
<1>3. Head(queue) = Len(orders) /\ queue' = <<>> /\ current' = Len(orders)
    BY <1>1, <1>2
<1>4. /\ Len(orders) \in Nat /\ Len(orders) # 0
      /\ orders[Len(orders)].dish \in Dishes
    <2>1. orders \in Seq(Kitchen!Orders) /\ queue \in Seq(1 .. Len(orders))
        BY Known DEF Kitchen!TypeOK, Kitchen!OrderNumbers
    <2>2. queue[1] \in 1 .. Len(orders)
        BY <1>2, <2>1, ElementOfSeq
    <2>3. Len(orders) \in 1 .. Len(orders) /\ Len(orders) \in Nat
        BY <1>2, <2>1, <2>2, LenProperties
    <2>4. orders[Len(orders)] \in Kitchen!Orders
        BY <2>1, <2>3, ElementOfSeq
    <2> QED
        BY <2>3, <2>4 DEF Kitchen!Orders
<1>5. PICK r \in recipes : r = orders[Len(orders)].dish[1]
    BY <1>2
<1>6. Kitchen!Pantry!BeginConsume(Ingredients[r])
    BY <1>3, <1>4, <1>5 DEF StartCooking, Kitchen!TakeUp
<1>7. Given = 0 /\ Provided(0)
    BY <1>1 DEF GameInv, StockInv, Given, Provided, Settled, Announced
<1>8. /\ Supplied'
      /\ UNCHANGED <<stored, quantity, expiry, alerts, today>>
      /\ at' \in {"check", "returned"}
      /\ \A i \in Ids : Settled(i, 0) => Settled(i, 0)'
    BY <1>2, <1>6, <1>7, Known, Beginning DEF GameInv, StockInv
<1>9. OwnTypes'
    BY <1>1, Known DEF OwnTypes, progress, iterator
<1>10. Flow'
    BY <1>1, <1>3, <1>4, <1>8 DEF Flow
<1>11. StockInv'
    <2>1. Provided(0)'
        BY <1>1, <1>7, <1>8, Known, StillProvided DEF OwnTypes, progress
    <2>2. Given' = 0
        BY <1>1 DEF Given
    <2> QED
        BY <1>1, <1>8, <2>1, <2>2
        DEF GameInv, StockInv, Provided, Settled, Announced, progress
<1>12. SpoilInv'
    BY <1>1, <1>8 DEF SpoilInv
<1> QED
    BY <1>1, <1>9, <1>10, <1>11, <1>12, TypeParts
    DEF GameInv, NeverInDebt, LevelInv, Entitles, TicketInv, progress

LEMMA ConsumeKeeps == ASSUME GameInv, Kitchen!TypeOK', Consume PROVE GameInv'
<1>1. /\ screen = "cooking" /\ Kitchen!Pantry!ConsumeStep
      /\ UNCHANGED <<screen, ticket, progress, iterator, now, orders, queue, current,
                     totalEarnings>>
    BY DEF Consume, Kitchen!Consume, Kitchen!orderVars, Kitchen!books
<1>2. at # "idle"
    BY <1>1 DEF Kitchen!Pantry!ConsumeStep, Kitchen!Pantry!MissingThrows,
       Kitchen!Pantry!ExpiredThrows, Kitchen!Pantry!FoundFresh, Kitchen!Pantry!Take,
       Kitchen!Pantry!UnavailableThrows, Kitchen!Pantry!Warn
<1>3. /\ Supplied'
      /\ UNCHANGED <<stored, expiry, today>>
      /\ at' # "idle"
      /\ at' = "threw" => Spoiled
      /\ \A i \in Ids : Settled(i, 0) => Settled(i, 0)'
    BY <1>1, Known, Consuming DEF GameInv, StockInv
<1>4. Given = 0 /\ Provided(0)
    BY <1>1 DEF GameInv, StockInv, Given, Provided, Settled, Announced
<1>5. OwnTypes'
    BY <1>1, Known DEF OwnTypes, progress, iterator
<1>6. Flow'
    BY <1>1, <1>2, <1>3 DEF GameInv, Flow
<1>7. StockInv'
    <2>1. Provided(0)'
        BY <1>1, <1>3, <1>4, Known, StillProvided DEF OwnTypes, progress
    <2>2. Given' = 0
        BY <1>1 DEF Given
    <2> QED
        BY <1>1, <1>3, <2>1, <2>2
        DEF GameInv, StockInv, Provided, Settled, Announced, progress
<1>8. SpoilInv'
    <2>1. Spoiled => Spoiled'
        BY <1>3, Known, SpoiledStays
    <2> QED
        BY <1>1, <1>3, <2>1 DEF SpoilInv
<1> QED
    BY <1>1, <1>5, <1>6, <1>7, <1>8, TypeParts
    DEF GameInv, NeverInDebt, LevelInv, Entitles, TicketInv, progress

LEMMA ThrowKeeps ==
    ASSUME GameInv, Kitchen!TypeOK', CookingThrows \/ IterationThrows
    PROVE  GameInv'
<1>1. /\ screen \in {"cooking", "alerts"} /\ screen' = "crashed"
      /\ at \in {"idle", "threw"} /\ at' = "idle" /\ current' = 0 /\ queue' = <<>>
      /\ UNCHANGED <<ticket, progress, iterator, stored, quantity, expiry, alerts, today, basket,
                     now, totalEarnings>>
    <2>1. CASE CookingThrows
        BY <2>1 DEF CookingThrows, Kitchen!StrandOrder, Kitchen!Pantry!ReturnToCaller,
           Kitchen!books, GameInv, Flow
    <2>2. CASE IterationThrows
        BY <2>2 DEF IterationThrows, GameInv, Flow, AtRest, kitchenVars
    <2> QED
        BY <2>1, <2>2
<1>2. OwnTypes'
    BY <1>1, Known DEF OwnTypes, progress, iterator
<1>3. Flow'
    BY <1>1 DEF Flow, AtRest
<1>4. StockInv'
    BY <1>1, StockAsBefore DEF progress
<1>5. SpoilInv'
    <2>1. Spoiled
        BY DEF GameInv, SpoilInv, CookingThrows, IterationThrows, Kitchen!StrandOrder
    <2>2. Spoiled'
        BY <1>1, <2>1, Known, SpoiledStays
    <2> QED
        BY <1>1, <2>2 DEF SpoilInv
<1> QED
    BY <1>1, <1>2, <1>3, <1>4, <1>5, TypeParts
    DEF GameInv, NeverInDebt, LevelInv, Entitles, TicketInv, progress

\* Serving never costs anything.
LEMMA ServeEarns ==
    ASSUME GameInv, Serve
    PROVE  \E e \in {0} \cup {Kitchen!Earned(cooked[1], CookScore[cooked]) :
                                 cooked \in Dishes \X (1 .. MaxLevel)} :
               e \in Nat /\ totalEarnings' = totalEarnings + e
<1>1. current # 0 /\ playerSkillLevel \in 1 .. MaxLevel
    BY Known DEF Serve, Kitchen!ServeTooLate, Kitchen!ServeInTime, OwnTypes
<1>2. orders[current].dish \in Dishes
    <2>1. orders \in Seq(Kitchen!Orders) /\ current \in 0 .. Len(orders)
        BY Known DEF Kitchen!TypeOK
    <2>2. current \in 1 .. Len(orders)
        BY <1>1, <2>1, LenProperties
    <2>3. orders[current] \in Kitchen!Orders
        BY <2>1, <2>2, ElementOfSeq
    <2> QED
        BY <2>3 DEF Kitchen!Orders
<1>3. PICK cooked \in Dishes \X (1 .. MaxLevel) :
          cooked = <<orders[current].dish, playerSkillLevel>>
    BY <1>1, <1>2
<1>4. CookScore[orders[current].dish, playerSkillLevel] = CookScore[cooked]
    BY <1>3
<1>5. \/ totalEarnings' = totalEarnings + 0
      \/ totalEarnings' = totalEarnings + Kitchen!Earned(cooked[1], CookScore[cooked])
    <2>1. cooked[1] = orders[current].dish
        BY <1>3
    <2> QED
        BY <1>4, <2>1 DEF Serve, Kitchen!ServeTooLate, Kitchen!ServeInTime, Kitchen!CloseOrder,
           Kitchen!Fulfil, Kitchen!Earning
<1>6. Kitchen!Earned(cooked[1], CookScore[cooked]) \in Nat
    <2>1. Price[cooked[1]] \in Nat
        BY <1>2, <1>3, GameRecipes
    <2>2. CookScore[cooked] \in 0 .. 100
        BY GameRecipes
    <2>3. Kitchen!Larger(20, CookScore[cooked]) \in Nat
        BY <2>2 DEF Kitchen!Larger
    <2>4. \A m, n \in Nat : m * n \in Nat
        OBVIOUS
    <2> QED
        BY <2>1, <2>3, <2>4 DEF Kitchen!Earned
<1> QED
    BY <1>5, <1>6

LEMMA ServeKeeps == ASSUME GameInv, Kitchen!TypeOK', Serve PROVE GameInv'
<1>1. /\ screen = "cooking" /\ screen' = "alerts" /\ cursor' = 0 /\ expected' = Len(alerts)
      /\ current # 0 /\ current' = 0 /\ at = "returned" /\ at' = "idle"
      /\ UNCHANGED <<ticket, progress, stored, quantity, expiry, alerts, today, basket, queue>>
    BY DEF Serve, BeginAlerts, Kitchen!ServeTooLate, Kitchen!ServeInTime,
           Kitchen!Pantry!ReturnToCaller
<1>2. queue = <<>>
    BY <1>1 DEF GameInv, Flow
<1>3. OwnTypes'
    BY <1>1, Known DEF OwnTypes, progress
<1>4. Flow'
    BY <1>1, <1>2, Known DEF Flow, AtRest
<1>5. StockInv'
    <2>1. Given = 0 /\ Given' = 0
        BY <1>1 DEF Given
    <2> QED
        BY <1>1, <2>1, StockAsBefore DEF progress
<1>6. SpoilInv'
    BY <1>1 DEF SpoilInv, ListGrew
<1>7. NeverInDebt'
    <2>1. PICK e \in Nat : totalEarnings' = totalEarnings + e
        BY ServeEarns
    <2>2. totalEarnings \in Int /\ totalEarnings >= 0
        BY Known DEF GameInv, NeverInDebt
    <2> QED
        BY <2>1, <2>2 DEF NeverInDebt
<1> QED
    BY <1>1, <1>3, <1>4, <1>5, <1>6, <1>7, TypeParts
    DEF GameInv, LevelInv, Entitles, TicketInv, progress

LEMMA PayKeeps == ASSUME GameInv, Kitchen!TypeOK', PayForPortion PROVE GameInv'
<1>1. /\ screen = "alerts" /\ screen' = "buying" /\ HasNext /\ ~ListGrew
      /\ UNCHANGED <<ticket, progress, iterator, stored, quantity, expiry, alerts, today, basket,
                     at, now, orders, queue, current>>
      /\ totalEarnings' = totalEarnings - Cost[Alerted]
      /\ Cost[Alerted] <= totalEarnings
    BY DEF PayForPortion, Prompting, Affordable, Kitchen!SpendFunds, Kitchen!pantryVars,
           Kitchen!orderVars
<1>2. cursor < Len(alerts) /\ Alerted \in Ids
    BY <1>1, AlertedIsKnown
<1>3. OwnTypes'
    BY <1>1, Known DEF OwnTypes, progress, iterator
<1>4. Flow'
    BY <1>1, <1>2 DEF GameInv, Flow, AtRest, ListGrew, iterator
<1>5. StockInv'
    BY <1>1, StockAsBefore DEF Given, progress, iterator
<1>6. SpoilInv'
    BY <1>1 DEF SpoilInv, GameInv, Flow, AtRest
<1>7. NeverInDebt'
    <2>1. totalEarnings \in Int /\ Cost[Alerted] \in Nat
        BY <1>2, Known, GameCost
    <2> QED
        BY <1>1, <2>1 DEF NeverInDebt
<1> QED
    BY <1>1, <1>3, <1>4, <1>5, <1>6, <1>7, TypeParts
    DEF GameInv, LevelInv, Entitles, TicketInv, progress

LEMMA RestockKeeps == ASSUME GameInv, Kitchen!TypeOK', RestockPortion PROVE GameInv'
<1>1. /\ screen = "buying" /\ screen' = "alerts" /\ cursor' = cursor + 1
      /\ Kitchen!Pantry!RestockIngredient(Alerted, Required[Alerted])
      /\ UNCHANGED <<ticket, progress, expected, now, orders, queue, current, totalEarnings>>
    BY DEF RestockPortion, NextAlert, Kitchen!Restock, Kitchen!orderVars, Kitchen!books
<1>2. PICK g \in Nat : g = cursor
    BY Known DEF OwnTypes
<1>3. g < Len(alerts) /\ Len(alerts) = expected /\ Given = g /\ Provided(g)
    BY <1>1, <1>2
    DEF GameInv, Flow, StockInv, Given, Provided, Settled, Announced
<1>4. /\ Supplied'
      /\ UNCHANGED <<stored, expiry, today, basket, at>>
      /\ Len(alerts') \in {Len(alerts), Len(alerts) + 1}
      /\ Len(alerts') # Len(alerts) => Spoiled
      /\ \A i \in Ids : Settled(i, g) => Settled(i, g + 1)'
    <2>1. Alerted = alerts[g + 1] /\ Alerted \in Ids
        BY <1>1, <1>2, <1>3, AlertedIsKnown DEF Alerted, HasNext, GameInv, Flow
    <2>2. Required[alerts[g + 1]] \in Nat
        BY <2>1, GameRequired
    <2> QED
        BY <1>1, <1>3, <2>1, <2>2, Known, Shopping DEF GameInv, StockInv
<1>5. OwnTypes'
    BY <1>1, Known DEF OwnTypes, progress
<1>6. Flow'
    BY <1>1, <1>2, <1>3, <1>4, Known DEF GameInv, Flow, AtRest
<1>7. StockInv'
    <2>1. Provided(g + 1)'
        BY <1>1, <1>3, <1>4, Known, StillProvided DEF OwnTypes, progress
    <2>2. Given' = g + 1
        BY <1>1, <1>2 DEF Given
    <2> QED
        BY <1>1, <1>4, <2>1, <2>2
        DEF GameInv, StockInv, Provided, Settled, Announced, progress
<1>8. SpoilInv'
    <2>1. Spoiled => Spoiled'
        BY <1>4, Known, SpoiledStays
    <2>2. at' = "idle"
        BY <1>1, <1>4 DEF GameInv, Flow, AtRest
    <2> QED
        BY <1>1, <1>3, <1>4, <2>1, <2>2 DEF SpoilInv, ListGrew
<1> QED
    BY <1>1, <1>5, <1>6, <1>7, <1>8, TypeParts
    DEF GameInv, NeverInDebt, LevelInv, Entitles, TicketInv, progress

LEMMA RemoveKeeps == ASSUME GameInv, RemoveAffectedRecipes PROVE GameInv'
<1>1. /\ screen = "alerts" /\ screen' = "alerts" /\ HasNext /\ ~ListGrew
      /\ RemoveRecipeWithIngredient(Alerted)
      /\ cursor' = cursor + 1
      /\ UNCHANGED <<kitchenVars, ticket, playerSkillLevel, ordersCompleted, expected>>
    BY DEF RemoveAffectedRecipes, Prompting, NextAlert
<1>2. /\ UNCHANGED <<stored, quantity, expiry, alerts, today, basket, at, now, orders, queue,
                     current, totalEarnings>>
    BY <1>1 DEF kitchenVars
<1>3. PICK g \in Nat : g = cursor
    BY Known DEF OwnTypes
<1>4. g < Len(alerts) /\ Given = g /\ Provided(g) /\ Alerted = alerts[g + 1]
    BY <1>1, <1>3, AlertedIsKnown
    DEF GameInv, StockInv, Given, Provided, Settled, Announced, Alerted
<1>5. recipes' \subseteq recipes /\ Provided(g + 1)'
    BY <1>1, <1>2, <1>4, Known, Striking
<1>6. OwnTypes'
    BY <1>1, <1>5, Known DEF OwnTypes
<1>7. TypeOK'
    BY <1>1, <1>6, Known, TypeParts, KitchenTypeStep
<1>8. Flow'
    BY <1>1, <1>2, <1>3, <1>4, Known DEF GameInv, Flow, AtRest
<1>9. StockInv'
    <2>1. Supplied'
        BY <1>2, StockKept DEF GameInv, StockInv
    <2>2. Given' = g + 1
        BY <1>1, <1>3 DEF Given
    <2> QED
        BY <1>1, <1>2, <1>5, <2>1, <2>2
        DEF GameInv, StockInv, Provided, Settled, Announced
<1>10. SpoilInv'
    BY <1>1, <1>2 DEF GameInv, Flow, AtRest, SpoilInv, ListGrew
<1> QED
    BY <1>1, <1>2, <1>7, <1>8, <1>9, <1>10
    DEF GameInv, NeverInDebt, LevelInv, Entitles, TicketInv

LEMMA FinishKeeps == ASSUME GameInv, Kitchen!TypeOK', FinishOrder PROVE GameInv'
<1>1. /\ screen = "alerts" /\ screen' = "menu" /\ ~HasNext /\ alerts' = <<>>
      /\ ordersCompleted' = ordersCompleted + 1
      /\ playerSkillLevel' = LevelAfter(ordersCompleted + 1)
      /\ UNCHANGED <<ticket, recipes, iterator, stored, quantity, expiry, today, basket, at, now,
                     orders, queue, current, totalEarnings>>
    BY DEF FinishOrder, Kitchen!ClearAlerts, Kitchen!Pantry!ClearAlerts, Kitchen!orderVars,
           Kitchen!books
<1>2. /\ LevelAfter(ordersCompleted + 1) \in 1 .. MaxLevel
      /\ Entitles(ordersCompleted + 1, LevelAfter(ordersCompleted + 1))
    BY Known, LevelKeepsUp DEF GameInv, LevelInv, OwnTypes
<1>3. LevelInv'
    BY <1>1, <1>2 DEF LevelInv, Entitles
<1>4. OwnTypes'
    BY <1>1, <1>2, Known DEF OwnTypes, iterator
<1>5. Flow'
    BY <1>1 DEF GameInv, Flow, AtRest
<1>6. \A r \in recipes : \A k \in DOMAIN Ingredients[r] : Covered(Ingredients[r][k])
    <2>1. PICK g \in Nat : g = cursor
        BY Known DEF OwnTypes
    <2>2. Given = g /\ Provided(g) /\ at # "warn"
        BY <1>1, <2>1
        DEF GameInv, StockInv, Given, Provided, Settled, Announced, Flow, AtRest
    <2>3. g >= Len(alerts)
        BY <1>1, <2>1, Known DEF HasNext
    <2> QED
        BY <2>2, <2>3, Known, AllCovered
<1>7. StockInv'
    <2>1. Supplied'
        <3>1. Supplied
            BY DEF GameInv, StockInv
        <3> QED
            BY <1>1, <3>1 DEF Supplied, Portion, Covered
    <2>2. ASSUME NEW r \in recipes, NEW k \in DOMAIN Ingredients[r]
          PROVE  Settled(Ingredients[r][k], 0)'
        <3>1. Ingredients[r][k] \in Ids /\ Covered(Ingredients[r][k])
            BY <1>6, Known, GameRecipes, ElementOfSeq DEF OwnTypes
        <3>2. Portion(Ingredients[r][k])
            BY <3>1, Known, CoveredIsPortion
        <3> QED
            BY <1>1, <3>1, <3>2 DEF Settled, Covered, Portion
    <2>3. Given' = 0
        BY <1>1 DEF Given
    <2> QED
        BY <1>1, <2>1, <2>2, <2>3
        DEF GameInv, StockInv, Provided, Settled, Announced
<1>8. SpoilInv'
    BY <1>1 DEF GameInv, Flow, AtRest, SpoilInv
<1> QED
    BY <1>1, <1>3, <1>4, <1>5, <1>7, <1>8, TypeParts
    DEF GameInv, NeverInDebt, TicketInv

--------------------------------------------------------------------------------
(* The theorems *)

LEMMA GameSteps == GameInv /\ [Next]_vars => GameInv'
<1> SUFFICES ASSUME GameInv, [Next]_vars PROVE GameInv'
    OBVIOUS
<1>1. Kitchen!TypeOK'
    BY Known, GameOperates, KitchenTypeStep
<1>2. CASE UNCHANGED vars
    <2>1. UNCHANGED <<kitchenVars, progress, iterator, screen, ticket>>
        BY <1>2 DEF vars
    <2>2. OwnTypes'
        BY <2>1, Known DEF OwnTypes, progress, iterator
    <2>3. StockInv'
        BY <2>1, StockAsBefore DEF Given, kitchenVars, progress, iterator
    <2>4. SpoilInv'
        <3>1. Spoiled => Spoiled'
            BY <2>1, Known, SpoiledStays DEF kitchenVars
        <3> QED
            BY <2>1, <3>1 DEF GameInv, SpoilInv, ListGrew, kitchenVars, iterator
    <2>5. Flow' /\ TicketInv'
        BY <2>1 DEF GameInv, Flow, AtRest, TicketInv, kitchenVars, progress, iterator
    <2> QED
        BY <1>1, <2>1, <2>2, <2>3, <2>4, <2>5, TypeParts
        DEF GameInv, NeverInDebt, LevelInv, Entitles, kitchenVars, progress
<1> QED
    BY <1>1, <1>2, DialogueKeeps, CookKeeps, TooLateKeeps, StartKeeps, ConsumeKeeps, ThrowKeeps,
       ServeKeeps, PayKeeps, RestockKeeps, RemoveKeeps, FinishKeeps, TickKeeps
    DEF Next, Handler, AnswerAlert

LEMMA GameInvariant == Spec => []GameInv
<1> QED
    BY GameInits, GameSteps, PTL DEF Spec

\* Every variable of the game keeps its type.
THEOREM TypeCorrect == Spec => []TypeOK
<1>1. GameInv => TypeOK
    BY DEF GameInv
<1> QED
    BY <1>1, GameInvariant, PTL

\* No order is ever refused for want of stock: whenever the game is at its menu there are
\* two portions of whatever a recipe on the menu needs.
THEOREM MenuStaysCovered == Spec => []StockCovered
<1>1. GameInv => StockCovered
    BY DEF GameInv, Flow, AtRest, StockInv, StockCovered, Provided, Given, Settled, Announced,
           Covered
<1> QED
    BY <1>1, GameInvariant, PTL

\* Whatever recipes and ingredients there are, only food gone bad brings the program down.
THEOREM CrashesOnlyWhenSpoiled == Spec => []OnlyExpiryCrashes
<1>1. GameInv => OnlyExpiryCrashes
    BY DEF GameInv, SpoilInv, Spoiled, OnlyExpiryCrashes
<1> QED
    BY <1>1, GameInvariant, PTL

\* The player of the terminal game never owes money.
THEOREM DebtFree == Spec => []NeverInDebt
<1>1. GameInv => NeverInDebt
    BY DEF GameInv
<1> QED
    BY <1>1, GameInvariant, PTL

\* The menu opens only when nothing of the last order is left over.
THEOREM MenuStaysQuiet == Spec => []MenuIsQuiet
<1>1. GameInv => MenuIsQuiet
    BY DEF GameInv, Flow, AtRest, MenuIsQuiet
<1> QED
    BY <1>1, GameInvariant, PTL

\* What module OrderServiceProofs proves of the kitchen holds in the terminal game:
\* statuses and lists agree, orders are served in turn, the ledgers are aligned, and what a
\* customer thinks fits what became of the order.
THEOREM KitchenKeepsItsPromises == Spec => []Promises
<1>1. Init => KitchenInv
    BY KitchenInvInit DEF Init, NewGame, StartAt
<1>2. GameInv /\ KitchenInv /\ [Next]_vars => KitchenInv'
    BY GameOperates, KitchenInvStep
<1> QED
    BY <1>1, <1>2, PromisesKept, GameInvariant, PTL DEF Spec

\* The terminal game uses the kitchen as module OrderLifecycle says: orders are taken up in
\* turn, each meets one fate, and money comes in with a completed order and no other time.
THEOREM TerminalKeepsLifecycle == Spec => Kitchen!ImplementsLifecycle
<1>1. Init => KitchenInv /\ Kitchen!Lifecycle!Init
    BY KitchenInvInit, LifecycleKept DEF Init, NewGame, StartAt
<1>2. GameInv /\ KitchenInv /\ [Next]_vars => KitchenInv'
    BY GameOperates, KitchenInvStep
<1>3. GameInv /\ KitchenInv /\ [Next]_vars
      => [Kitchen!Lifecycle!Next]_(Kitchen!Lifecycle!lifecycleVars)
    BY GameOperates, LifecycleKept
<1> QED
    BY <1>1, <1>2, <1>3, GameInvariant, PTL
    DEF Spec, Kitchen!ImplementsLifecycle, Kitchen!Lifecycle!Safety

--------------------------------------------------------------------------------
(* The career *)

LEMMA PhaseIs ==
    /\ screen = "menu" => Phase = "open"
    /\ screen \in {"variation", "confirm"} => Phase = "guest"
    /\ screen = "cooking" => Phase = "cooking"
    /\ screen \in {"alerts", "buying"} => Phase = "bills"
    /\ screen \in {"over", "crashed"} => Phase = "closed"
BY DEF Phase

LEMMA PhaseWillBe ==
    /\ screen' = "menu" => Phase' = "open"
    /\ screen' \in {"variation", "confirm"} => Phase' = "guest"
    /\ screen' = "cooking" => Phase' = "cooking"
    /\ screen' \in {"alerts", "buying"} => Phase' = "bills"
    /\ screen' \in {"over", "crashed"} => Phase' = "closed"
BY DEF Phase

LEMMA CareerStep == ASSUME GameInv, [Next]_vars PROVE [Career!Next]_(Career!vars)
<1>1. CASE TakeOrder
    BY <1>1, PhaseIs, PhaseWillBe
    DEF TakeOrder, Career!Next, Career!Welcome, Career!Move, kitchenVars, progress
<1>2. CASE ChooseVariation
    BY <1>2, PhaseIs, PhaseWillBe DEF ChooseVariation, Career!vars, kitchenVars, progress
<1>3. CASE Skip
    BY <1>3, PhaseIs, PhaseWillBe
    DEF Skip, Career!Next, Career!TurnAway, Career!Move, kitchenVars, progress
<1>4. CASE Cook
    BY <1>4, PhaseIs, PhaseWillBe
    DEF Cook, Kitchen!EnqueueOrder, Kitchen!books, Career!Next, Career!Accept, Career!Move,
        progress
<1>5. CASE TooLateToCook
    <2>1. totalEarnings' = totalEarnings + 0 /\ totalEarnings \in Int
        BY <1>5, Known
        DEF TooLateToCook, Kitchen!CloseOverdue, Kitchen!CloseOrder, Kitchen!Fulfil,
            Kitchen!Earning
    <2> QED
        BY <1>5, <2>1, PhaseIs, PhaseWillBe
        DEF TooLateToCook, Career!Next, Career!Lapse, Career!Move, progress
<1>6. CASE StartCooking \/ Consume
    BY <1>6, PhaseIs, PhaseWillBe
    DEF StartCooking, Consume, Kitchen!TakeUp, Kitchen!Consume, Kitchen!books, Career!vars,
        progress
<1>7. CASE CookingThrows
    BY <1>7, PhaseIs, PhaseWillBe
    DEF CookingThrows, Kitchen!StrandOrder, Kitchen!books, Career!Next, Career!Fail, Career!Move,
        progress
<1>8. CASE Serve
    <2>1. \E e \in {0} \cup {Kitchen!Earned(cooked[1], CookScore[cooked]) :
                                cooked \in Dishes \X (1 .. MaxLevel)} :
              totalEarnings' = totalEarnings + e
        BY <1>8, ServeEarns
    <2> QED
        BY <1>8, <2>1, PhaseIs, PhaseWillBe
        DEF Serve, Career!Next, Career!Serve, Career!Move, progress
<1>9. CASE PayForPortion
    <2>1. Alerted \in Ids
        BY <1>9, AlertedIsKnown DEF PayForPortion, Prompting
    <2> QED
        BY <1>9, <2>1, PhaseIs, PhaseWillBe
        DEF PayForPortion, Prompting, Affordable, Kitchen!SpendFunds, Career!Next, Career!Pay,
            progress
<1>10. CASE RestockPortion \/ RemoveAffectedRecipes
    BY <1>10, PhaseIs, PhaseWillBe
    DEF RestockPortion, RemoveAffectedRecipes, Prompting, Kitchen!Restock, Kitchen!books,
        Career!vars, kitchenVars, progress
<1>11. CASE IterationThrows
    BY <1>11, PhaseIs, PhaseWillBe
    DEF IterationThrows, Career!Next, Career!Fail, Career!Move, kitchenVars, progress
<1>12. CASE FinishOrder
    <2>1. playerSkillLevel' = Career!Entitled(ordersCompleted + 1)
        <3>1. PICK n \in Nat : n = ordersCompleted + 1
            BY Known DEF OwnTypes
        <3>2. /\ LevelAfter(n) \in 1 .. MaxLevel
              /\ Entitles(n, LevelAfter(n))
            BY <3>1, Known, LevelKeepsUp DEF GameInv, LevelInv, OwnTypes
        <3>3. LevelFor(n) = LevelAfter(n)
            BY <3>2, EntitledLevel
        <3>4. LevelFor(n) = Career!Entitled(n)
            BY DEF Career!Entitled, LevelFor, Cardinality, Career!Cardinality
        <3> QED
            BY <1>12, <3>1, <3>3, <3>4 DEF FinishOrder
    <2> QED
        BY <1>12, <2>1, PhaseIs, PhaseWillBe
        DEF FinishOrder, Kitchen!ClearAlerts, Kitchen!books, Career!Next, Career!Settle,
            Career!Move
<1>13. CASE Quit
    BY <1>13, PhaseIs, PhaseWillBe
    DEF Quit, Career!Next, Career!Close, Career!Move, kitchenVars, progress
<1>14. CASE Tick
    BY <1>14 DEF Tick, Kitchen!Tick, Kitchen!books, Career!vars, Phase, progress
<1>15. CASE UNCHANGED vars
    BY <1>15 DEF vars, Career!vars, Phase, kitchenVars, progress
<1> QED
    BY <1>1, <1>2, <1>3, <1>4, <1>5, <1>6, <1>7, <1>8, <1>9, <1>10, <1>11, <1>12, <1>13, <1>14,
       <1>15 DEF Next, Handler, AnswerAlert

\* The safety part of what module ChefCareer promises: an accepted order is served or
\* lapses, a served one counts once and decides on the level, and no money is spent that is
\* not there.  (That every order is settled in the end is left to the model checker.)
THEOREM CareerIsKept == Spec => Career!Init /\ [][Career!Next]_(Career!vars)
<1>1. Init => Career!Init
    BY PhaseIs DEF Init, NewGame, StartAt, Kitchen!Init, Career!Init
<1>2. GameInv /\ [Next]_vars => [Career!Next]_(Career!vars)
    BY CareerStep
<1> QED
    BY <1>1, <1>2, GameInvariant, PTL DEF Spec

--------------------------------------------------------------------------------
(* How long an accepted order keeps the program *)

\* What the newest order is for: it is the one that is cooked.
Ordered == orders[Len(orders)].dish[1]

\* The steps that the program and the answers to the stock alerts have left.
StepsLeft == CASE screen = "cooking" -> CookingSteps(Ordered)
               [] screen = "alerts"  -> AlertSteps
               [] screen = "buying"  -> BuyingSteps
               [] OTHER              -> 0

\* The screens on which the player is free, or the program has ended.
Resting == {"menu", "variation", "confirm", "over", "crashed"}

LEMMA OrderedIsKnown ==
    ASSUME GameInv, screen = "cooking"
    PROVE  orders[Len(orders)].dish \in Dishes /\ Ordered \in Recipes
<1>1. Kitchen!TypeOK /\ orders \in Seq(Kitchen!Orders) /\ Len(orders) \in Nat
    BY Known, LenProperties DEF Kitchen!TypeOK
<1>2. current = 0 => Len(orders) # 0
    <2> SUFFICES ASSUME current = 0 PROVE Len(orders) # 0
        OBVIOUS
    <2>1. queue = <<Len(orders)>> /\ queue \in Seq(Kitchen!OrderNumbers)
        BY <1>1 DEF GameInv, Flow, Kitchen!TypeOK
    <2>2. Len(orders) \in Kitchen!OrderNumbers
        BY <2>1
    <2> QED
        BY <2>2 DEF Kitchen!OrderNumbers
<1>3. current # 0 => Len(orders) # 0
    BY <1>1 DEF Kitchen!TypeOK
<1>4. Len(orders) \in 1 .. Len(orders)
    BY <1>1, <1>2, <1>3
<1>5. orders[Len(orders)] \in Kitchen!Orders
    BY <1>1, <1>4, ElementOfSeq
<1> QED
    BY <1>5, DishParts DEF Ordered, Kitchen!Orders

LEMMA StepsLeftIsNatural ==
    ASSUME GameInv
    PROVE  StepsLeft \in Nat /\ (StepsLeft = 0 <=> screen \in Resting)
<1>1. /\ Kitchen!TypeOK /\ cursor \in Nat /\ Len(alerts) \in Nat
      /\ screen \in Resting \cup {"cooking", "alerts", "buying"}
    BY Known DEF OwnTypes, Resting
<1>2. CASE screen = "cooking"
    <2>1. at # "idle" \/ current = 0
        BY <1>2 DEF GameInv, Flow
    <2>2. CookingSteps(Ordered) \in Nat /\ CookingSteps(Ordered) > 0
        BY <1>1, <1>2, <2>1, OrderedIsKnown, CookingIsNatural
    <2>3. StepsLeft = CookingSteps(Ordered)
        BY <1>2 DEF StepsLeft
    <2> QED
        BY <1>2, <2>2, <2>3 DEF Resting
<1>3. CASE screen = "alerts"
    <2>1. cursor <= Len(alerts)
        BY <1>3 DEF GameInv, Flow
    <2>2. AlertSteps \in Nat /\ AlertSteps > 0
        BY <1>1, <2>1 DEF AlertSteps
    <2> QED
        BY <1>3, <2>2 DEF StepsLeft, Resting
<1>4. CASE screen = "buying"
    <2>1. cursor < Len(alerts)
        BY <1>4 DEF GameInv, Flow
    <2>2. BuyingSteps \in Nat /\ BuyingSteps > 0
        BY <1>1, <2>1 DEF BuyingSteps
    <2> QED
        BY <1>4, <2>2 DEF StepsLeft, Resting
<1>5. CASE screen \in Resting
    BY <1>5 DEF StepsLeft, Resting
<1> QED
    BY <1>1, <1>2, <1>3, <1>4, <1>5

LEMMA HandlerShortens ==
    ASSUME GameInv, Kitchen!TypeOK', Handler \/ AnswerAlert
    PROVE  StepsLeft' < StepsLeft
<1>0. Kitchen!TypeOK /\ cursor \in Nat /\ Len(alerts) \in Nat
    BY Known DEF OwnTypes
<1>1. CASE TooLateToCook \/ CookingThrows \/ IterationThrows \/ FinishOrder
    <2>1. screen \notin Resting /\ screen' \in Resting
        BY <1>1 DEF TooLateToCook, CookingThrows, IterationThrows, FinishOrder, Resting
    <2>2. StepsLeft' = 0
        BY <2>1 DEF StepsLeft, Resting
    <2>3. StepsLeft \in Nat /\ StepsLeft # 0
        BY <2>1, StepsLeftIsNatural
    <2> QED
        BY <2>2, <2>3
<1>2. CASE StartCooking
    <2>1. screen = "cooking" /\ screen' = "cooking" /\ Kitchen!TakeUp
        BY <1>2 DEF StartCooking
    <2>2. PICK r \in Recipes : r = Ordered
        BY <2>1, OrderedIsKnown
    <2>3. queue = <<Len(orders)>>
        BY <2>1 DEF GameInv, Flow, Kitchen!TakeUp, Kitchen!Idle
    <2>4. orders[Head(queue)].dish \in Dishes /\ orders[Head(queue)].dish[1] = r
        BY <2>1, <2>2, <2>3, OrderedIsKnown DEF Ordered
    <2>5. CookingSteps(r)' < CookingSteps(r)
        BY <1>0, <2>1, <2>4, TakeUpShortens
    <2>6. current' # 0
        <3>1. Len(orders) # 0
            BY <2>3, <1>0 DEF Kitchen!TypeOK, Kitchen!OrderNumbers
        <3> QED
            BY <2>1, <2>3, <3>1 DEF Kitchen!TakeUp
    <2>7. StepsLeft' = CookingSteps(r)'
        BY <2>1, <2>6 DEF StepsLeft, CookingSteps
    <2> QED
        BY <2>1, <2>2, <2>5, <2>7 DEF StepsLeft
<1>3. CASE Consume
    <2>1. screen = "cooking" /\ screen' = "cooking" /\ Kitchen!Consume /\ Ordered' = Ordered
        BY <1>3 DEF Consume, Kitchen!Consume, Kitchen!orderVars, Ordered
    <2>2. PICK r \in Recipes : r = Ordered
        BY <2>1, OrderedIsKnown
    <2>3. current # 0
        BY <2>1 DEF GameInv, Flow, Kitchen!Consume, Kitchen!Pantry!ConsumeStep,
           Kitchen!Pantry!MissingThrows, Kitchen!Pantry!ExpiredThrows,
           Kitchen!Pantry!FoundFresh, Kitchen!Pantry!Take, Kitchen!Pantry!UnavailableThrows,
           Kitchen!Pantry!Warn
    <2>4. CookingSteps(r)' < CookingSteps(r)
        BY <1>0, <2>1, <2>3, ConsumeShortens
    <2> QED
        BY <2>1, <2>2, <2>4 DEF StepsLeft
<1>4. CASE Serve
    <2>1. /\ screen = "cooking" /\ screen' = "alerts" /\ BeginAlerts
          /\ current # 0 /\ Kitchen!Pantry!ReturnToCaller
        BY <1>4 DEF Serve, Kitchen!ServeTooLate, Kitchen!ServeInTime
    <2>2. PICK r \in Recipes : r = Ordered
        BY <2>1, OrderedIsKnown
    <2>3. AlertSteps' < CookingSteps(r)
        BY <1>0, <2>1, AlertsBegin
    <2> QED
        BY <2>1, <2>2, <2>3 DEF StepsLeft
<1>5. CASE PayForPortion
    <2>1. /\ screen = "alerts" /\ screen' = "buying" /\ ~ListGrew
          /\ UNCHANGED <<alerts, cursor>>
        BY <1>5 DEF PayForPortion, Prompting, Kitchen!SpendFunds, Kitchen!pantryVars, iterator
    <2>2. BuyingSteps' < AlertSteps
        BY <1>0, <2>1, AlertsAnswered
    <2> QED
        BY <2>1, <2>2 DEF StepsLeft
<1>6. CASE RemoveAffectedRecipes
    <2>1. /\ screen = "alerts" /\ screen' = "alerts" /\ ~ListGrew
          /\ alerts' = alerts /\ NextAlert
        BY <1>6 DEF RemoveAffectedRecipes, Prompting, kitchenVars
    <2>2. AlertSteps' < AlertSteps
        BY <1>0, <2>1, AlertsAnswered
    <2> QED
        BY <2>1, <2>2 DEF StepsLeft
<1>7. CASE RestockPortion
    <2>1. /\ screen = "buying" /\ screen' = "alerts" /\ NextAlert
          /\ Kitchen!Restock(Alerted, Required[Alerted])
        BY <1>7 DEF RestockPortion
    <2>2. cursor < Len(alerts) /\ ~ListGrew
        BY <2>1 DEF GameInv, Flow, ListGrew
    <2>3. Alerted \in Ids
        BY <1>0, <2>1, <2>2, AlertedIsKnown DEF HasNext
    <2>4. AlertSteps' < BuyingSteps
        BY <1>0, <2>1, <2>2, <2>3, RestockShortens
    <2> QED
        BY <2>1, <2>4 DEF StepsLeft
<1> QED
    BY <1>1, <1>2, <1>3, <1>4, <1>5, <1>6, <1>7 DEF Handler, AnswerAlert

\* An order that was accepted keeps the program for so many steps and no longer: whatever
\* the pantry holds and whatever the player answers, every step and every answer leaves
\* fewer to come, only the clock goes on besides, and none is left exactly where the player
\* is free again or the program has ended.
THEOREM OrdersRunDown ==
    Spec => /\ [](StepsLeft \in Nat /\ (StepsLeft = 0 <=> screen \in Resting))
            /\ [][screen \notin Resting => \/ StepsLeft' < StepsLeft
                                           \/ (Tick /\ StepsLeft' = StepsLeft)]_vars
<1>1. GameInv /\ [Next]_vars
      => [screen \notin Resting => \/ StepsLeft' < StepsLeft
                                   \/ (Tick /\ StepsLeft' = StepsLeft)]_vars
    <2> SUFFICES ASSUME GameInv, Next, screen \notin Resting
                 PROVE  StepsLeft' < StepsLeft \/ (Tick /\ StepsLeft' = StepsLeft)
        OBVIOUS
    <2>1. Handler \/ AnswerAlert \/ Tick
        BY DEF Next, TakeOrder, ChooseVariation, Skip, Cook, Quit, Resting
    <2>2. CASE Handler \/ AnswerAlert
        BY <2>2, Known, GameOperates, KitchenTypeStep, HandlerShortens
    <2>3. CASE Tick
        <3>1. UNCHANGED <<basket, at, current, alerts, cursor, expected, screen, orders>>
            BY <2>3 DEF Tick, Kitchen!Tick, Kitchen!Pantry!Midnight, Kitchen!pantryVars,
               Kitchen!orderVars, iterator
        <3>2. StepsLeft' = StepsLeft
            BY <3>1, SameSteps DEF StepsLeft, Ordered
        <3> QED
            BY <2>3, <3>2
    <2> QED
        BY <2>1, <2>2, <2>3
<1>2. GameInv => StepsLeft \in Nat /\ (StepsLeft = 0 <=> screen \in Resting)
    BY StepsLeftIsNatural
<1> QED
    BY <1>1, <1>2, GameInvariant, PTL DEF Spec

================================================================================
