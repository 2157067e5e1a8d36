--------------------------- MODULE GameSessionProofs ---------------------------
(* GameManager without a user interface, for every book of recipes, every pantry and *)
(* every order of the calls of its public methods.                                   *)
EXTENDS GameSession, GameManagerProofs

\* Every order is for a recipe as it was in the book, which the player has by now the skill
\* for: the level only rises, and the order keeps its recipe.
Feasible == \A o \in 1 .. Len(orders) :
                \E r \in Recipes : orders[o].dish = Plain(r) /\ Skill[r] <= playerSkillLevel

Unruined == \A o \in 1 .. Len(orders) : orders[o].status # "FAILED"

SessionInv == GameTypeOK /\ KitchenInv /\ NamesUnique /\ Feasible /\ Unruined

\* The part of the type invariant that is not about the kitchen.
OwnTypes == /\ recipes \subseteq Recipes
            /\ playerSkillLevel \in 1 .. MaxLevel
            /\ ordersCompleted \in Nat /\ cursor \in Nat /\ expected \in Nat

LEMMA TypeParts ==
    /\ GameTypeOK <=> Kitchen!TypeOK /\ OwnTypes
    /\ GameTypeOK' <=> Kitchen!TypeOK' /\ OwnTypes'
BY DEF GameTypeOK, OwnTypes

LEMMA Known ==
    ASSUME SessionInv
    PROVE  /\ Kitchen!TypeOK /\ OwnTypes
           /\ orders \in Seq(Kitchen!Orders) /\ Len(orders) \in Nat /\ now \in Nat
<1>1. Kitchen!TypeOK /\ OwnTypes
    BY TypeParts DEF SessionInv
<1>2. orders \in Seq(Kitchen!Orders) /\ now \in Nat
    BY <1>1 DEF Kitchen!TypeOK
<1> QED
    BY <1>1, <1>2, LenProperties

LEMMA Submitting ==
    ASSUME SessionInv, SubmitRandomOrder
    PROVE  \E r \in recipes, p \in UNION {PatienceOf[d] : d \in Dishes} :
               /\ Skill[r] <= playerSkillLevel
               /\ Plain(r) \in Dishes
               /\ Kitchen!EnqueueOrder(Plain(r), now, p)
<1>0. PICK r \in Available : \E t \in NewOrders(Plain(r)) :
          Kitchen!EnqueueOrder(t.dish, t.created, t.patience)
    BY DEF SubmitRandomOrder
<1>1. PICK t \in NewOrders(Plain(r)) : Kitchen!EnqueueOrder(t.dish, t.created, t.patience)
    BY <1>0
<1>2. r \in recipes /\ r \in Recipes /\ Skill[r] <= playerSkillLevel
    BY Known DEF Available, FindByMaxSkillLevel, OwnTypes
<1>3. Plain(r) \in Dishes
    BY <1>2, PlainIsDish
<1>4. t.dish = Plain(r) /\ t.created = now /\ t.patience \in PatienceOf[Plain(r)]
    BY DEF NewOrders
<1> QED
    BY <1>1, <1>2, <1>3, <1>4

LEMMA SessionOperates ==
    ASSUME SessionInv, [Next]_vars PROVE [Kitchen!Operation]_kitchenVars
<1>1. CASE SubmitRandomOrder
    <2>1. now \in 0 .. now
        BY Known
    <2> QED
        BY <1>1, <2>1, Submitting DEF Kitchen!Operation
<1>2. CASE ProcessNextOrder
    BY <1>2, Known DEF ProcessNextOrder, Kitchen!Operation, Kitchen!Processing, OwnTypes
<1>3. CASE LevelUp \/ TendBook
    BY <1>3 DEF LevelUp, TendBook
<1>4. CASE TendPantry
    <2>1. CASE Kitchen!Purge \/ Kitchen!ClearAlerts
        BY <2>1 DEF Kitchen!Operation
    <2>2. CASE \E i \in Ids : Kitchen!Restock(i, Required[i])
        <3>1. PICK i \in Ids : Kitchen!Restock(i, Required[i])
            BY <2>2
        <3>2. Required[i] = 1 * Required[i] /\ 1 \in Portions
            BY GameRequired DEF Portions
        <3>3. Required[i] \in {n * Required[j] : n \in Portions, j \in Ids}
            BY <3>2
        <3> QED
            BY <3>1, <3>3 DEF Kitchen!Operation
    <2> QED
        BY <1>4, <2>1, <2>2 DEF TendPantry
<1>5. CASE Tick
    BY <1>5 DEF Tick, Kitchen!Operation
<1>6. CASE UNCHANGED vars
    BY <1>6 DEF vars
<1> QED
    BY <1>1, <1>2, <1>3, <1>4, <1>5, <1>6 DEF Next

LEMMA SessionEdits == ASSUME [Next]_vars PROVE [EditBook]_recipes
<1>1. CASE SubmitRandomOrder \/ ProcessNextOrder \/ TendPantry \/ Tick
    BY <1>1 DEF SubmitRandomOrder, ProcessNextOrder, TendPantry, Tick, progress
<1>2. CASE LevelUp \/ TendBook
    BY <1>2 DEF LevelUp, TendBook
<1>3. CASE UNCHANGED vars
    BY <1>3 DEF vars, progress
<1> QED
    BY <1>1, <1>2, <1>3 DEF Next

\* The level never drops.
LEMMA OwnTypesStep ==
    ASSUME SessionInv, [Next]_vars
    PROVE  OwnTypes' /\ playerSkillLevel <= playerSkillLevel'
<1>1. OwnTypes
    BY Known
<1>2. CASE UNCHANGED <<progress, iterator>>
    BY <1>1, <1>2 DEF OwnTypes, progress, iterator
<1>3. CASE LevelUp
    BY <1>1, <1>3, GameLevels DEF LevelUp, OwnTypes, iterator
<1>4. CASE TendBook
    <2>1. recipes' \subseteq Recipes
        BY <1>1, <1>4
        DEF TendBook, EditBook, AddRecipe, With, Without, RemoveRecipe,
            RemoveRecipeWithIngredient, OwnTypes
    <2> QED
        BY <1>1, <1>4, <2>1 DEF TendBook, OwnTypes, iterator
<1> QED
    BY <1>2, <1>3, <1>4
    DEF Next, vars, SubmitRandomOrder, ProcessNextOrder, TendPantry, Tick

--------------------------------------------------------------------------------
(* Orders *)

\* What a step that touches at most one order o, and leaves its dish, owes to it.
LEMMA OneOrderStep ==
    ASSUME SessionInv, playerSkillLevel \in Int, playerSkillLevel <= playerSkillLevel', OwnTypes',
           Len(orders') = Len(orders), NEW o \in 1 .. Len(orders),
           orders'[o].status # "FAILED",
           \A p \in 1 .. Len(orders) : /\ orders'[p].dish = orders[p].dish
                                       /\ p # o => orders'[p] = orders[p]
    PROVE  Feasible' /\ Unruined'
<1>1. Unruined'
    BY DEF SessionInv, Unruined
<1>2. \A r \in Recipes : Skill[r] <= playerSkillLevel => Skill[r] <= playerSkillLevel'
    BY GameRecipes DEF OwnTypes
<1>3. Feasible'
    BY <1>2 DEF SessionInv, Feasible, Plain
<1> QED
    BY <1>1, <1>3

\* An order is served with the level of now.
LEMMA Serving ==
    ASSUME SessionInv, NEW t, current # 0,
           \/ Kitchen!ServeTooLate(playerSkillLevel)
           \/ Kitchen!ServeInTime(playerSkillLevel, t)
    PROVE  \E status, score, s : /\ Kitchen!CloseOrder(current, status, score, s)
                                 /\ status # "FAILED"
<1>1. CASE Kitchen!ServeTooLate(playerSkillLevel)
    <2>1. \E score : Kitchen!CloseOrder(current, "EXPIRED", score, 0)
        BY <1>1, Zenon DEF Kitchen!ServeTooLate
    <2> QED
        BY <2>1
<1>2. CASE Kitchen!ServeInTime(playerSkillLevel, t)
    <2>1. current \in 1 .. Len(orders)
        BY Known DEF Kitchen!TypeOK
    <2>2. PICK r \in Recipes : orders[current].dish = Plain(r) /\ Skill[r] <= playerSkillLevel
        BY <2>1 DEF SessionInv, Feasible
    <2>3. playerSkillLevel \in Skill[r] .. MaxLevel
        BY <2>2, Known, GameLevels, GameRecipes DEF OwnTypes
    <2>4. PICK cooked : cooked = <<orders[current].dish, playerSkillLevel>>
        OBVIOUS
    <2>5. Kitchen!Succeeds(CookScore[cooked])
        BY <2>2, <2>3, <2>4, SessionScores
    <2>6. \E s : Kitchen!CloseOrder(current, "COMPLETED", CookScore[cooked], s)
        BY <1>2, <2>4, <2>5 DEF Kitchen!ServeInTime
    <2> QED
        BY <2>6
<1> QED
    BY <1>1, <1>2

LEMMA OrdersStep == ASSUME SessionInv, [Next]_vars PROVE Feasible' /\ Unruined'
<1>1. /\ playerSkillLevel \in Int /\ playerSkillLevel <= playerSkillLevel' /\ OwnTypes'
      /\ orders \in Seq(Kitchen!Orders) /\ Len(orders) \in Nat
    BY Known, OwnTypesStep DEF OwnTypes
<1>2. CASE UNCHANGED orders
    <2>1. \A r \in Recipes : Skill[r] <= playerSkillLevel => Skill[r] <= playerSkillLevel'
        BY <1>1, GameRecipes DEF OwnTypes
    <2> QED
        BY <1>2, <2>1 DEF SessionInv, Feasible, Unruined, Plain
<1>3. CASE SubmitRandomOrder
    <2>1. PICK r \in recipes, p \in UNION {PatienceOf[d] : d \in Dishes} :
              Skill[r] <= playerSkillLevel /\ Kitchen!EnqueueOrder(Plain(r), now, p)
        BY <1>3, Submitting
    <2>2. PICK e : /\ e.dish = Plain(r) /\ e.status = "PENDING"
                   /\ orders' = Append(orders, e)
        BY <2>1 DEF Kitchen!EnqueueOrder
    <2>3. orders \in Seq(Kitchen!Orders \cup {e})
        BY <1>1, SeqMonotonic
    <2>4. /\ Len(orders') = Len(orders) + 1 /\ orders'[Len(orders) + 1] = e
          /\ \A p2 \in 1 .. Len(orders) : orders'[p2] = orders[p2]
        BY <2>2, <2>3, AppendProperties
    <2>5. \A o \in 1 .. Len(orders') : o \in 1 .. Len(orders) \/ orders'[o] = e
        BY <1>1, <2>4
    <2>6. Unruined'
        BY <2>2, <2>4, <2>5 DEF SessionInv, Unruined
    <2>7. r \in Recipes /\ playerSkillLevel' = playerSkillLevel
        BY <1>3, Known DEF OwnTypes, SubmitRandomOrder, progress
    <2>8. Feasible'
        BY <2>1, <2>2, <2>4, <2>5, <2>7 DEF SessionInv, Feasible, Plain
    <2> QED
        BY <2>6, <2>8
<1>4. ASSUME queue # <<>>, Kitchen!CloseOverdue \/ Kitchen!TakeUp PROVE Feasible' /\ Unruined'
    <2>1. PICK o : o = Head(queue)
        OBVIOUS
    <2>2. o \in 1 .. Len(orders)
        BY <1>4, <2>1, Known, HeadTailProperties DEF Kitchen!TypeOK, Kitchen!OrderNumbers
    <2>3. CASE Kitchen!CloseOverdue
        <3>1. Kitchen!CloseOrder(o, "EXPIRED", 0, 0)
            BY <2>1, <2>3 DEF Kitchen!CloseOverdue
        <3> QED
            BY <1>1, <2>2, <3>1, Closing, OneOrderStep
    <2>4. CASE Kitchen!TakeUp
        BY <1>1, <2>1, <2>2, <2>4, TakingUp, OneOrderStep
    <2> QED
        BY <1>4, <2>3, <2>4
<1>5. ASSUME NEW t, current # 0,
             \/ Kitchen!ServeTooLate(playerSkillLevel)
             \/ Kitchen!ServeInTime(playerSkillLevel, t)
      PROVE  Feasible' /\ Unruined'
    <2>1. PICK status, score, s :
              Kitchen!CloseOrder(current, status, score, s) /\ status # "FAILED"
        BY <1>5, Serving
    <2>2. PICK o \in 1 .. Len(orders) : o = current
        BY <1>5, Known DEF Kitchen!TypeOK
    <2>3. Kitchen!CloseOrder(o, status, score, s)
        BY <2>1, <2>2
    <2> QED
        BY <1>1, <2>1, <2>3, Closing, OneOrderStep
<1>6. CASE ProcessNextOrder
    <2>1. CASE Kitchen!CloseOverdue \/ Kitchen!TakeUp
        BY <1>4, <2>1 DEF Kitchen!CloseOverdue, Kitchen!TakeUp
    <2>2. CASE Kitchen!Consume \/ Kitchen!StrandOrder
        BY <1>2, <2>2 DEF Kitchen!Consume, Kitchen!StrandOrder, Kitchen!orderVars
    <2>3. CASE Kitchen!ServeTooLate(playerSkillLevel)
        BY <1>5, <2>3 DEF Kitchen!ServeTooLate
    <2>4. CASE \E t \in {now, now + 1} : Kitchen!ServeInTime(playerSkillLevel, t)
        BY <1>5, <2>4 DEF Kitchen!ServeInTime
    <2> QED
        BY <1>6, <2>1, <2>2, <2>3, <2>4 DEF ProcessNextOrder
<1>7. CASE LevelUp \/ TendBook \/ TendPantry \/ Tick \/ UNCHANGED vars
    <2>1. UNCHANGED orders
        BY <1>7 DEF LevelUp, TendBook, TendPantry, Tick, vars, kitchenVars, Kitchen!Restock,
           Kitchen!Purge, Kitchen!ClearAlerts, Kitchen!Tick, Kitchen!orderVars
    <2> QED
        BY <1>2, <2>1
<1> QED
    BY <1>3, <1>6, <1>7 DEF Next

--------------------------------------------------------------------------------
(* The theorems *)

LEMMA SessionInits == Init => SessionInv
<1> SUFFICES ASSUME Init PROVE SessionInv
    OBVIOUS
<1>1. PICK level \in StartingLevels : StartAt(level)
    BY DEF Init
<1>2. /\ Kitchen!Init /\ recipes = Seeded /\ playerSkillLevel \in 1 .. MaxLevel
      /\ ordersCompleted = 0 /\ cursor = 0 /\ expected = 0
    BY <1>1, SessionLevels DEF StartAt
<1>3. Kitchen!TypeOK /\ KitchenInv
    BY <1>2, KitchenTypeInit, KitchenInvInit
<1>4. OwnTypes
    BY <1>2, GameBook DEF OwnTypes
<1>5. NamesUnique
    BY <1>2, GameBook DEF NamesUnique
<1>6. Len(orders) = 0
    BY <1>2, EmptySeq DEF Kitchen!Init
<1>7. Feasible /\ Unruined
    BY <1>6 DEF Feasible, Unruined
<1> QED
    BY <1>3, <1>4, <1>5, <1>7, TypeParts DEF SessionInv

LEMMA SessionSteps == SessionInv /\ [Next]_vars => SessionInv'
<1> SUFFICES ASSUME SessionInv, [Next]_vars PROVE SessionInv'
    OBVIOUS
<1>1. Kitchen!TypeOK' /\ KitchenInv'
    BY Known, SessionOperates, KitchenTypeStep, KitchenInvStep DEF SessionInv
<1>2. GameTypeOK'
    BY <1>1, OwnTypesStep, TypeParts
<1>3. NamesUnique'
    BY SessionEdits, NamesStep DEF SessionInv
<1> QED
    BY <1>1, <1>2, <1>3, OrdersStep DEF SessionInv

LEMMA SessionInvariant == Spec => []SessionInv
BY SessionInits, SessionSteps, PTL DEF Spec

\* What findByMaxSkillLevel lets the player order never becomes too hard: an order that is
\* cooked in time (OrderService.processNextOrder) is not ruined, whatever happens between
\* its submission and its cooking.
THEOREM NothingIsRuined == Spec => []NothingRuined
<1>1. SessionInv => NothingRuined
    BY DEF SessionInv, Unruined, NothingRuined, Kitchen!OrderNumbers
<1> QED
    BY <1>1, SessionInvariant, PTL

\* RecipeService keeps names apart during a whole session, seeded recipes included.
THEOREM BookStaysTidy == Spec => []NamesUnique
<1>1. SessionInv => NamesUnique
    BY DEF SessionInv
<1> QED
    BY <1>1, SessionInvariant, PTL

\* Several orders may wait while the pantry and the book are tended: what module
\* OrderService promises of orders and ledgers holds all the same.
THEOREM SessionKeepsPromises == Spec => []Promises
<1>1. SessionInv => Promises
    BY PromisesKept DEF SessionInv
<1> QED
    BY <1>1, SessionInvariant, PTL

\* However many orders wait, and whatever is done to the pantry and the book in between,
\* the kitchen of a session goes through the life cycle of module OrderLifecycle.
THEOREM SessionKeepsLifecycle == Spec => Kitchen!ImplementsLifecycle
<1>1. Init => Kitchen!Lifecycle!Init
    BY LifecycleKept DEF Init, StartAt
<1>2. SessionInv /\ [Next]_vars
      => [Kitchen!Lifecycle!Next]_(Kitchen!Lifecycle!lifecycleVars)
    BY SessionOperates, LifecycleKept DEF SessionInv
<1> QED
    BY <1>1, <1>2, SessionInvariant, PTL
    DEF Spec, Kitchen!ImplementsLifecycle, Kitchen!Lifecycle!Safety

--------------------------------------------------------------------------------
(* The queue moves *)

\* The order in place k of the queue after a step that took the first one out of it.
LEMMA MovedUp ==
    ASSUME Kitchen!TypeOK, queue # <<>>, queue' = Tail(queue), NEW k \in DOMAIN queue, k # 1
    PROVE  k - 1 \in DOMAIN queue' /\ queue'[k - 1] = queue[k]
<1>1. queue \in Seq(Kitchen!OrderNumbers) /\ Len(queue) \in Nat /\ DOMAIN queue = 1 .. Len(queue)
    BY LenProperties DEF Kitchen!TypeOK
<1>2. /\ Tail(queue) \in Seq(Kitchen!OrderNumbers)
      /\ Len(Tail(queue)) = Len(queue) - 1
      /\ \A i \in 1 .. Len(Tail(queue)) : Tail(queue)[i] = queue[i + 1]
    BY <1>1, HeadTailProperties
<1>3. DOMAIN Tail(queue) = 1 .. Len(Tail(queue))
    BY <1>2, LenProperties
<1>4. k - 1 \in 1 .. Len(Tail(queue)) /\ (k - 1) + 1 = k
    BY <1>1, <1>2
<1> QED
    BY <1>2, <1>3, <1>4

LEMMA QueueMoves ==
    ASSUME SessionInv, ProcessNextOrder, NEW k \in DOMAIN queue
    PROVE  \/ k = 1 /\ orders'[queue[k]].status # "PENDING"
           \/ k # 1 /\ k - 1 \in DOMAIN queue' /\ queue'[k - 1] = queue[k]
           \/ UNCHANGED queue /\ CallSteps' < CallSteps
<1>0. /\ Kitchen!TypeOK
      /\ queue \in Seq(Kitchen!OrderNumbers) /\ orders \in Seq(Kitchen!Orders)
      /\ DOMAIN orders = 1 .. Len(orders)
    BY Known, LenProperties DEF Kitchen!TypeOK
<1>1. ASSUME queue # <<>>, queue' = Tail(queue), orders'[Head(queue)].status # "PENDING"
      PROVE  \/ k = 1 /\ orders'[queue[k]].status # "PENDING"
             \/ k # 1 /\ k - 1 \in DOMAIN queue' /\ queue'[k - 1] = queue[k]
    <2>1. Head(queue) = queue[1]
        BY <1>1, <1>0
    <2> QED
        BY <1>0, <1>1, <2>1, MovedUp
<1>2. queue # <<>> => Head(queue) \in DOMAIN orders
    BY <1>0, HeadTailProperties DEF Kitchen!OrderNumbers
<1>3. CASE Kitchen!CloseOverdue
    <2>1. /\ queue # <<>> /\ queue' = Tail(queue)
          /\ orders' = [orders EXCEPT ![Head(queue)].status = "EXPIRED",
                                      ![Head(queue)].satisfaction = 0]
        BY <1>3 DEF Kitchen!CloseOverdue, Kitchen!PollFirst, Kitchen!CloseOrder, Kitchen!Fulfil
    <2>2. orders[Head(queue)] \in Kitchen!Orders
        BY <1>0, <1>2, <2>1, ElementOfSeq
    <2>3. orders'[Head(queue)].status = "EXPIRED"
        BY <1>2, <2>1, <2>2 DEF Kitchen!Orders
    <2> QED
        BY <1>1, <2>1, <2>3
<1>4. CASE Kitchen!TakeUp
    <2>1. /\ queue # <<>> /\ queue' = Tail(queue)
          /\ orders' = [orders EXCEPT ![Head(queue)].status = "IN_PROGRESS"]
        BY <1>4 DEF Kitchen!TakeUp, Kitchen!PollFirst
    <2>2. orders[Head(queue)] \in Kitchen!Orders
        BY <1>0, <1>2, <2>1, ElementOfSeq
    <2>3. orders'[Head(queue)].status = "IN_PROGRESS"
        BY <1>2, <2>1, <2>2 DEF Kitchen!Orders
    <2> QED
        BY <1>1, <2>1, <2>3
<1>5. CASE Kitchen!Consume \/ Kitchen!StrandOrder
    BY <1>0, <1>5, CallShortens DEF Kitchen!Consume, Kitchen!StrandOrder, Kitchen!orderVars
<1>6. CASE \/ Kitchen!ServeTooLate(playerSkillLevel)
           \/ \E t \in {now, now + 1} : Kitchen!ServeInTime(playerSkillLevel, t)
    BY <1>0, <1>6, CallShortens DEF Kitchen!ServeTooLate, Kitchen!ServeInTime
<1> QED
    BY <1>3, <1>4, <1>5, <1>6 DEF ProcessNextOrder

LEMMA QueueWaits ==
    ASSUME SessionInv, [Next]_vars, ~ProcessNextOrder, NEW k \in DOMAIN queue
    PROVE  /\ k \in DOMAIN queue' /\ queue'[k] = queue[k]
           /\ CallSteps' = CallSteps
<1>0. /\ queue \in Seq(Kitchen!OrderNumbers) /\ Len(orders) \in Nat
    BY Known, LenProperties DEF Kitchen!TypeOK
<1>1. CASE SubmitRandomOrder
    <2>1. queue' = Append(queue, Len(orders) + 1) /\ UNCHANGED <<at, basket>>
        BY <1>1, Submitting DEF Kitchen!EnqueueOrder, Kitchen!AddLast, Kitchen!pantryVars
    <2>2. queue \in Seq(Nat) /\ Len(orders) + 1 \in Nat
        BY <1>0 DEF Kitchen!OrderNumbers
    <2> QED
        BY <2>1, <2>2, AppendProperties, LenProperties, CallStepsAre, CallStepsWillBe
<1>2. CASE LevelUp \/ TendPantry \/ TendBook \/ Tick \/ UNCHANGED vars
    <2>1. UNCHANGED <<queue, at, basket>>
        BY <1>2 DEF LevelUp, TendPantry, TendBook, Tick, vars, kitchenVars, Kitchen!Restock,
           Kitchen!Purge, Kitchen!ClearAlerts, Kitchen!orderVars, Kitchen!Tick,
           Kitchen!pantryVars, Kitchen!Pantry!Midnight, Kitchen!Pantry!RestockIngredient,
           Kitchen!Pantry!PurgeExpiredIngredients, Kitchen!Pantry!ClearAlerts
    <2> QED
        BY <2>1, CallStepsAre, CallStepsWillBe
<1> QED
    BY <1>1, <1>2 DEF Next

\* What becomes of the order in place k of the queue.
PlaceKept(k) ==
    IF ProcessNextOrder
    THEN \/ k = 1 /\ orders'[queue[k]].status # "PENDING"
         \/ k # 1 /\ k - 1 \in DOMAIN queue' /\ queue'[k - 1] = queue[k]
         \/ UNCHANGED queue /\ CallSteps' < CallSteps
    ELSE /\ k \in DOMAIN queue' /\ queue'[k] = queue[k]
         /\ CallSteps' = CallSteps

\* Nobody is overtaken or held up for ever in the queue: every step of processNextOrder
\* takes the first order out of it, so that the others move up, or brings the call for the
\* one being cooked nearer to its end; nothing else that is done in a session moves an order
\* or makes that call longer.
THEOREM QueueMovesUp ==
    Spec => [](CallSteps \in Nat) /\ [][\A k \in DOMAIN queue : PlaceKept(k)]_vars
<1>1. SessionInv => CallSteps \in Nat
    BY Known, CallStepsAreNatural
<1>2. SessionInv /\ [Next]_vars => [\A k \in DOMAIN queue : PlaceKept(k)]_vars
    BY QueueMoves, QueueWaits DEF PlaceKept
<1> QED
    BY <1>1, <1>2, SessionInvariant, PTL DEF Spec

================================================================================
