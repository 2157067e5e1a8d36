--------------------------- MODULE GameManagerProofs ---------------------------
(* What all users of GameManager rely on: the kitchen keeps its types and its        *)
(* promises in a game as it does by itself, what cooking and shopping do to the       *)
(* stock, what becomes of the orders, and the recipe book.                            *)
EXTENDS GameManager, TLAPS, SequenceTheorems, FiniteSetTheorems

KitchenFacts == INSTANCE OrderServiceProofs WITH
                    Contents <- [d \in Dishes |-> Ingredients[d[1]]],
                    Levels <- 1 .. MaxLevel,
                    Patiences <- UNION {PatienceOf[d] : d \in Dishes},
                    Amounts <- {n * Required[i] : n \in Portions, i \in Ids},
                    Expenses <- {n * Cost[i] : n \in Portions, i \in Ids},
                    MaxQuantity <- Plenty, MaxAlerts <- Plenty, MaxDebt <- Plenty

LEMMA DishParts ==
    /\ \A d \in Dishes : d[1] \in Recipes /\ d = <<d[1], d[2]>>
    /\ [d \in Dishes |-> Ingredients[d[1]]] \in [Dishes -> Seq(Ids)]
BY GameRecipes DEF Dishes

\* A recipe without decorations is a dish.
LEMMA PlainIsDish ==
    \A r \in Recipes : Plain(r) \in Dishes /\ Plain(r)[1] = r /\ Plain(r)[2] = <<>>
<1> DEFINE Wraps == UNION {[1 .. n -> Variations] : n \in 0 .. MaxWraps}
<1>1. <<>> \in [1 .. 0 -> Variations] /\ 0 \in 0 .. MaxWraps
    BY GameBounds
<1>2. <<>> \in Wraps
    BY <1>1
<1> QED
    BY <1>2 DEF Dishes, Plain

\* What module OrderService assumes holds of the constants a game gives it.
LEMMA KitchenConstants ==
    /\ Required \in [Ids -> Nat \ {0}]
    /\ OpeningStock \in [Ids -> Nat] /\ ShelfLife \in [Ids -> Nat \cup {Never}] /\ Never \notin Nat
    /\ {n * Required[i] : n \in Portions, i \in Ids} \subseteq Int
    /\ [d \in Dishes |-> Ingredients[d[1]]] \in [Dishes -> Seq(Ids)]
    /\ Price \in [Dishes -> Nat \ {0}]
    /\ CookScore \in [Dishes \X (1 .. MaxLevel) -> 0 .. 100]
    /\ UNION {PatienceOf[d] : d \in Dishes} \subseteq Nat \ {0}
    /\ {n * Cost[i] : n \in Portions, i \in Ids} \subseteq Nat \ {0}
    /\ MaxNow \in Nat /\ MaxDay \in Nat /\ MaxOrders \in Nat
    /\ Plenty \in Nat /\ Plenty \in Nat /\ Plenty \in Nat
<1>1. \A n \in Portions, i \in Ids : n * Required[i] \in Nat \ {0} /\ n * Cost[i] \in Nat \ {0}
    BY GameRequired, GameCost DEF Portions
<1>2. UNION {PatienceOf[d] : d \in Dishes} \subseteq Nat \ {0}
    BY GameRecipes
<1>3. {n * Required[i] : n \in Portions, i \in Ids} \subseteq Int
    BY <1>1
<1>4. {n * Cost[i] : n \in Portions, i \in Ids} \subseteq Nat \ {0}
    BY <1>1
<1>5. Plenty \in Nat
    BY DEF Plenty
<1> QED
    BY <1>2, <1>3, <1>4, <1>5, DishParts, GameRequired, GameStock, GameRecipes, GameBounds

\* One kitchen under two names: the definitions are the same to the letter.
LEMMA SameKitchen ==
    /\ Kitchen!Operation <=> KitchenFacts!Operation
    /\ Kitchen!Init <=> KitchenFacts!Init
    /\ Kitchen!TypeOK <=> KitchenFacts!TypeOK
<1>1. Kitchen!Operation <=> KitchenFacts!Operation
    BY DEF Kitchen!Operation, KitchenFacts!Operation, Kitchen!EnqueueOrder,
       KitchenFacts!EnqueueOrder, Kitchen!AddLast, KitchenFacts!AddLast, Kitchen!CloseOverdue,
       KitchenFacts!CloseOverdue, Kitchen!PollFirst, KitchenFacts!PollFirst, Kitchen!TakeUp,
       KitchenFacts!TakeUp, Kitchen!Consume, KitchenFacts!Consume, Kitchen!StrandOrder,
       KitchenFacts!StrandOrder, Kitchen!Processing, KitchenFacts!Processing,
       Kitchen!ServeTooLate, KitchenFacts!ServeTooLate, Kitchen!ServeInTime,
       KitchenFacts!ServeInTime, Kitchen!CloseOrder, KitchenFacts!CloseOrder, Kitchen!Fulfil,
       KitchenFacts!Fulfil, Kitchen!Count, KitchenFacts!Count, Kitchen!Earning,
       KitchenFacts!Earning, Kitchen!Earned, KitchenFacts!Earned, Kitchen!Larger,
       KitchenFacts!Larger, Kitchen!IsOverdueAt, KitchenFacts!IsOverdueAt, Kitchen!Satisfaction,
       KitchenFacts!Satisfaction, Kitchen!Succeeds, KitchenFacts!Succeeds, Kitchen!SpendFunds,
       KitchenFacts!SpendFunds, Kitchen!Restock, KitchenFacts!Restock, Kitchen!Purge,
       KitchenFacts!Purge, Kitchen!ClearAlerts, KitchenFacts!ClearAlerts, Kitchen!Tick,
       KitchenFacts!Tick, Kitchen!Idle, KitchenFacts!Idle, Kitchen!pantryVars,
       KitchenFacts!pantryVars, Kitchen!orderVars, KitchenFacts!orderVars, Kitchen!books,
       KitchenFacts!books, Kitchen!Pantry!BeginConsume, KitchenFacts!Pantry!BeginConsume,
       Kitchen!Pantry!ConsumeStep, KitchenFacts!Pantry!ConsumeStep,
       Kitchen!Pantry!MissingThrows, KitchenFacts!Pantry!MissingThrows,
       Kitchen!Pantry!ExpiredThrows, KitchenFacts!Pantry!ExpiredThrows,
       Kitchen!Pantry!FoundFresh, KitchenFacts!Pantry!FoundFresh, Kitchen!Pantry!Take,
       KitchenFacts!Pantry!Take, Kitchen!Pantry!UnavailableThrows,
       KitchenFacts!Pantry!UnavailableThrows, Kitchen!Pantry!Warn, KitchenFacts!Pantry!Warn,
       Kitchen!Pantry!Throw, KitchenFacts!Pantry!Throw, Kitchen!Pantry!ReturnToCaller,
       KitchenFacts!Pantry!ReturnToCaller, Kitchen!Pantry!IsExpired,
       KitchenFacts!Pantry!IsExpired, Kitchen!Pantry!IsAvailable,
       KitchenFacts!Pantry!IsAvailable, Kitchen!Pantry!CheckThresholds,
       KitchenFacts!Pantry!CheckThresholds, Kitchen!Pantry!IsLow, KitchenFacts!Pantry!IsLow,
       Kitchen!Pantry!RestockIngredient, KitchenFacts!Pantry!RestockIngredient,
       Kitchen!Pantry!PurgeExpiredIngredients, KitchenFacts!Pantry!PurgeExpiredIngredients,
       Kitchen!Pantry!ClearAlerts, KitchenFacts!Pantry!ClearAlerts, Kitchen!Pantry!Midnight,
       KitchenFacts!Pantry!Midnight, Kitchen!Pantry!Idle, KitchenFacts!Pantry!Idle
<1>2. Kitchen!Init <=> KitchenFacts!Init
    BY DEF Kitchen!Init, KitchenFacts!Init
<1>3. Kitchen!TypeOK <=> KitchenFacts!TypeOK
    BY DEF Kitchen!TypeOK, KitchenFacts!TypeOK, Kitchen!Pantry!TypeOK, KitchenFacts!Pantry!TypeOK,
       Kitchen!Orders, KitchenFacts!Orders, Kitchen!OrderNumbers, KitchenFacts!OrderNumbers,
       Kitchen!Closed, KitchenFacts!Closed
<1> QED
    BY <1>1, <1>2, <1>3

LEMMA KitchenTypeStep ==
    ASSUME Kitchen!TypeOK, [Kitchen!Operation]_kitchenVars PROVE Kitchen!TypeOK'
<1>1. [KitchenFacts!Operation]_(KitchenFacts!vars)
    BY SameKitchen
    DEF kitchenVars, KitchenFacts!vars, KitchenFacts!pantryVars, KitchenFacts!orderVars,
        KitchenFacts!books
<1>2. KitchenFacts!TypeOK /\ [KitchenFacts!Operation]_(KitchenFacts!vars)
      => KitchenFacts!TypeOK'
    BY KitchenConstants, KitchenFacts!TypeStep
<1>3. KitchenFacts!TypeOK' => Kitchen!TypeOK'
    BY DEF Kitchen!TypeOK, KitchenFacts!TypeOK, Kitchen!Pantry!TypeOK, KitchenFacts!Pantry!TypeOK,
       Kitchen!Orders, KitchenFacts!Orders, Kitchen!OrderNumbers, KitchenFacts!OrderNumbers,
       Kitchen!Closed, KitchenFacts!Closed
<1> QED
    BY <1>1, <1>2, <1>3, SameKitchen

LEMMA KitchenTypeInit == Kitchen!Init => Kitchen!TypeOK
<1>1. KitchenFacts!Init => KitchenFacts!TypeOK
    BY KitchenConstants, KitchenFacts!TypeInit
<1> QED
    BY <1>1, SameKitchen

\* What is proved of the kitchen besides its types.
KitchenInv == /\ KitchenFacts!OrderInv
              /\ KitchenFacts!LedgersAligned
              /\ KitchenFacts!FitInv

Promises == /\ Kitchen!StatusAgrees
            /\ Kitchen!FirstComeFirstServed
            /\ Kitchen!LedgersAligned
            /\ Kitchen!SatisfactionFitsOutcome

LEMMA KitchenInvStep == ASSUME KitchenInv, [Kitchen!Operation]_kitchenVars PROVE KitchenInv'
<1>1. [KitchenFacts!Operation]_(KitchenFacts!vars)
    BY SameKitchen
    DEF kitchenVars, KitchenFacts!vars, KitchenFacts!pantryVars, KitchenFacts!orderVars,
        KitchenFacts!books
<1>2. KitchenFacts!OrderInv /\ [KitchenFacts!Operation]_(KitchenFacts!vars)
      => KitchenFacts!OrderInv'
    BY KitchenConstants, KitchenFacts!OrderInvStep
<1>3. KitchenFacts!OrderInv /\ KitchenFacts!LedgersAligned
      /\ [KitchenFacts!Operation]_(KitchenFacts!vars) => KitchenFacts!LedgersAligned'
    BY KitchenConstants, KitchenFacts!LedgersStep
<1>4. KitchenFacts!OrderInv /\ KitchenFacts!FitInv
      /\ [KitchenFacts!Operation]_(KitchenFacts!vars) => KitchenFacts!FitInv'
    BY KitchenConstants, KitchenFacts!FitsStep
<1> QED
    BY <1>1, <1>2, <1>3, <1>4 DEF KitchenInv

LEMMA KitchenInvInit == Kitchen!Init => KitchenInv
<1>1. KitchenFacts!Init => KitchenFacts!OrderInv
    BY KitchenConstants, KitchenFacts!OrderInvInit
<1>2. KitchenFacts!Init => KitchenFacts!LedgersAligned
    BY DEF KitchenFacts!Init, KitchenFacts!LedgersAligned
<1>3. KitchenFacts!Init => KitchenFacts!FitInv
    BY KitchenConstants, KitchenFacts!FitsInit
<1> QED
    BY <1>1, <1>2, <1>3, SameKitchen DEF KitchenInv

LEMMA PromisesKept == KitchenInv => Promises
<1> SUFFICES ASSUME KitchenInv PROVE Promises
    OBVIOUS
<1>1. Kitchen!StatusAgrees
    BY DEF KitchenInv, KitchenFacts!OrderInv, Kitchen!StatusAgrees, KitchenFacts!StatusAgrees,
       Kitchen!OrderNumbers, KitchenFacts!OrderNumbers, Kitchen!Closed, KitchenFacts!Closed,
       Kitchen!Listed, KitchenFacts!Listed
<1>2. Kitchen!FirstComeFirstServed
    BY DEF KitchenInv, KitchenFacts!OrderInv,
       Kitchen!FirstComeFirstServed, KitchenFacts!FirstComeFirstServed,
       Kitchen!OrderNumbers, KitchenFacts!OrderNumbers,
       Kitchen!Increasing, KitchenFacts!Increasing
<1>3. Kitchen!LedgersAligned
    BY DEF KitchenInv, Kitchen!LedgersAligned, KitchenFacts!LedgersAligned
<1>4. Kitchen!SatisfactionFitsOutcome
    BY DEF KitchenInv, Kitchen!SatisfactionFitsOutcome, KitchenFacts!FitInv, KitchenFacts!Fits,
       Kitchen!OrderNumbers, KitchenFacts!OrderNumbers
<1> QED
    BY <1>1, <1>2, <1>3, <1>4 DEF Promises

\* The abstract kitchen is the same under both names, too.
LEMMA SameLifecycle ==
    /\ Kitchen!Lifecycle!Init <=> KitchenFacts!Lifecycle!Init
    /\ [Kitchen!Lifecycle!Next]_(Kitchen!Lifecycle!lifecycleVars)
       <=> [KitchenFacts!Lifecycle!Next]_(KitchenFacts!Lifecycle!lifecycleVars)
<1>1. Kitchen!Lifecycle!Init <=> KitchenFacts!Lifecycle!Init
    BY DEF Kitchen!Lifecycle!Init, KitchenFacts!Lifecycle!Init, Kitchen!OrderNumbers,
       KitchenFacts!OrderNumbers, Kitchen!Fate, KitchenFacts!Fate
<1>2. Kitchen!Lifecycle!Next <=> KitchenFacts!Lifecycle!Next
    BY DEF Kitchen!Lifecycle!Next, KitchenFacts!Lifecycle!Next, Kitchen!Lifecycle!Arrive,
       KitchenFacts!Lifecycle!Arrive, Kitchen!Lifecycle!NextInLine,
       KitchenFacts!Lifecycle!NextInLine, Kitchen!Lifecycle!TakeUp,
       KitchenFacts!Lifecycle!TakeUp, Kitchen!Lifecycle!Lapse, KitchenFacts!Lifecycle!Lapse,
       Kitchen!Lifecycle!Finish, KitchenFacts!Lifecycle!Finish, Kitchen!Lifecycle!Final,
       KitchenFacts!Lifecycle!Final, Kitchen!Lifecycle!Spend, KitchenFacts!Lifecycle!Spend,
       Kitchen!OrderNumbers, KitchenFacts!OrderNumbers, Kitchen!Fate, KitchenFacts!Fate
<1>3. (UNCHANGED Kitchen!Lifecycle!lifecycleVars)
      <=> UNCHANGED KitchenFacts!Lifecycle!lifecycleVars
    BY DEF Kitchen!Lifecycle!lifecycleVars, KitchenFacts!Lifecycle!lifecycleVars,
       Kitchen!OrderNumbers, KitchenFacts!OrderNumbers, Kitchen!Fate, KitchenFacts!Fate
<1> QED
    BY <1>1, <1>2, <1>3

\* What the operations of its kitchen do to a game is what the abstract kitchen may do.
LEMMA LifecycleKept ==
    /\ Kitchen!Init => Kitchen!Lifecycle!Init
    /\ KitchenInv /\ [Kitchen!Operation]_kitchenVars
       => [Kitchen!Lifecycle!Next]_(Kitchen!Lifecycle!lifecycleVars)
<1>1. Kitchen!Init => Kitchen!Lifecycle!Init
    BY KitchenConstants, KitchenFacts!LifecycleInit, SameKitchen, SameLifecycle
<1>2. [Kitchen!Operation]_kitchenVars => [KitchenFacts!Operation]_(KitchenFacts!vars)
    BY SameKitchen
    DEF kitchenVars, KitchenFacts!vars, KitchenFacts!pantryVars, KitchenFacts!orderVars,
        KitchenFacts!books
<1>3. KitchenFacts!OrderInv /\ [KitchenFacts!Operation]_(KitchenFacts!vars)
      => [KitchenFacts!Lifecycle!Next]_(KitchenFacts!Lifecycle!lifecycleVars)
    BY KitchenConstants, KitchenFacts!LifecycleStep
<1> QED
    BY <1>1, <1>2, <1>3, SameLifecycle DEF KitchenInv

--------------------------------------------------------------------------------
(* What cooking and shopping do to the stock *)

Portion(i) == quantity[i] >= Required[i]
Covered(i) == quantity[i] >= 2 * Required[i]

Spoiled == \E i \in stored : Kitchen!Pantry!IsExpired(i)

\* What a running consumeIngredients has still to take lasts for two portions, and what it
\* has taken or the player is told of lasts for one.
Supplied ==
    /\ \A j, k \in DOMAIN basket : basket[j] = basket[k] => j = k
    /\ \A k \in DOMAIN basket :
           IF k = 1 /\ at = "warn" THEN Portion(basket[k]) ELSE Covered(basket[k])
    /\ \A k \in DOMAIN alerts : Portion(alerts[k])

\* The player is going to be asked about i: it is about to be announced, or announced
\* and not among the alerts the loop has already given.
Announced(i, given) == \/ at = "warn" /\ i = basket[1]
                       \/ \E k \in DOMAIN alerts : k > given /\ alerts[k] = i

Settled(i, given) == Portion(i) /\ (Covered(i) \/ Announced(i, given))

\* Whatever the recipes of the book need is there twice over, or the player will hear of it.
Provided(given) ==
    \A r \in recipes : \A k \in DOMAIN Ingredients[r] : Settled(Ingredients[r][k], given)

LEMMA CoveredIsPortion ==
    ASSUME Kitchen!Pantry!TypeOK, NEW i \in Ids PROVE Covered(i) => Portion(i)
BY GameRequired DEF Covered, Portion, Kitchen!Pantry!TypeOK

\* Only spoiled food makes consumeIngredients throw, as long as everything it has to take
\* is there twice over; and it announces whatever it brings below two portions.
LEMMA Consuming ==
    ASSUME Kitchen!Pantry!TypeOK, stored = Ids, Supplied, Kitchen!Pantry!ConsumeStep
    PROVE  /\ Supplied'
           /\ UNCHANGED <<stored, expiry, today>>
           /\ at' # "idle"
           /\ at' = "threw" => Spoiled
           /\ \A i \in Ids : Settled(i, 0) => Settled(i, 0)'
<1>0. PICK h : h = Head(basket)
    OBVIOUS
<1>1. /\ basket # <<>> /\ h = basket[1] /\ h \in Ids /\ 1 \in DOMAIN basket
      /\ at \in {"check", "take", "warn"}
    BY <1>0, HeadTailProperties, EmptySeq, LenProperties
    DEF Kitchen!Pantry!TypeOK, Kitchen!Pantry!ConsumeStep, Kitchen!Pantry!MissingThrows,
        Kitchen!Pantry!ExpiredThrows, Kitchen!Pantry!FoundFresh, Kitchen!Pantry!Take,
        Kitchen!Pantry!UnavailableThrows, Kitchen!Pantry!Warn
<1>2. /\ alerts \in Seq(Ids) /\ DOMAIN alerts = 1 .. Len(alerts) /\ Len(alerts) \in Nat
      /\ DOMAIN basket = 1 .. Len(basket) /\ Len(basket) \in Nat
      /\ basket \in Seq(Ids)
    BY LenProperties DEF Kitchen!Pantry!TypeOK
<1>3. \A k \in DOMAIN basket : k # 1 => basket[k] # h
    BY <1>1 DEF Supplied
<1>4. ~Kitchen!Pantry!MissingThrows
    BY <1>1 DEF Kitchen!Pantry!MissingThrows
<1>5. CASE Kitchen!Pantry!ExpiredThrows
    <2>1. /\ Kitchen!Pantry!IsExpired(h) /\ alerts' = Append(alerts, h)
          /\ at = "check" /\ at' = "threw" /\ basket' = <<>>
          /\ UNCHANGED <<stored, quantity, expiry, today>>
        BY <1>0, <1>5 DEF Kitchen!Pantry!ExpiredThrows, Kitchen!Pantry!Throw
    <2>2. /\ Len(alerts') = Len(alerts) + 1 /\ DOMAIN alerts' = 1 .. Len(alerts) + 1
          /\ alerts'[Len(alerts) + 1] = h
          /\ \A k \in 1 .. Len(alerts) : alerts'[k] = alerts[k]
        BY <1>1, <1>2, <2>1, AppendProperties, LenProperties
    <2>3. Portion(h)
        BY <1>1, <2>1, CoveredIsPortion DEF Supplied
    <2>4. \A i : Portion(i) <=> Portion(i)'
        BY <2>1 DEF Portion
    <2>5. Supplied'
        BY <1>2, <2>1, <2>2, <2>3, <2>4 DEF Supplied
    <2>6. \A i \in Ids : Settled(i, 0) => Settled(i, 0)'
        BY <1>2, <2>1, <2>2 DEF Settled, Portion, Covered, Announced
    <2> QED
        BY <1>1, <2>1, <2>5, <2>6 DEF Spoiled
<1>6. CASE Kitchen!Pantry!FoundFresh
    <2>1. /\ at = "check" /\ at' = "take"
          /\ UNCHANGED <<stored, quantity, expiry, alerts, today, basket>>
        BY <1>6 DEF Kitchen!Pantry!FoundFresh
    <2> QED
        BY <2>1 DEF Supplied, Settled, Portion, Covered, Announced
<1>7. CASE Kitchen!Pantry!Take
    <2>1. /\ at = "take" /\ at' = "warn"
          /\ quantity' = [quantity EXCEPT ![h] = @ - Required[h]]
          /\ UNCHANGED <<stored, expiry, alerts, today, basket>>
        BY <1>0, <1>7 DEF Kitchen!Pantry!Take
    <2>2. quantity \in [Ids -> Int] /\ Required[h] \in Nat /\ Covered(h)
        BY <1>1, <2>1, GameRequired DEF Supplied, Kitchen!Pantry!TypeOK
    <2>3. /\ \A i \in Ids : i # h => quantity'[i] = quantity[i]
          /\ quantity'[h] >= Required[h]
        BY <1>1, <2>1, <2>2 DEF Covered
    <2>4. \A i \in Ids : Portion(i) => Portion(i)'
        BY <2>3 DEF Portion
    <2>5. \A i \in Ids : i # h /\ Covered(i) => Covered(i)'
        BY <2>3 DEF Covered
    <2>6. (\A k \in DOMAIN alerts : Portion(alerts[k]))'
        BY <1>2, <2>1, <2>4, ElementOfSeq DEF Supplied
    <2>7. ASSUME NEW k \in DOMAIN basket, k # 1 PROVE Covered(basket[k])'
        <3>1. basket[k] \in Ids /\ basket[k] # h /\ Covered(basket[k])
            BY <1>2, <1>3, <2>7, ElementOfSeq DEF Supplied
        <3> QED
            BY <2>1, <2>5, <3>1 DEF Covered
    <2>8. Portion(basket[1])'
        BY <1>1, <2>1, <2>3 DEF Portion
    <2>9. Supplied'
        BY <2>1, <2>6, <2>7, <2>8 DEF Supplied
    <2>10. Announced(h, 0)'
        BY <1>1, <2>1 DEF Announced
    <2>11. \A i \in Ids : Settled(i, 0) => Settled(i, 0)'
        BY <2>1, <2>4, <2>5, <2>10 DEF Settled, Announced
    <2> QED
        BY <2>1, <2>9, <2>11
<1>8. CASE Kitchen!Pantry!UnavailableThrows
    <2>1. /\ at = "take" /\ at' = "threw" /\ basket' = <<>>
          /\ ~Kitchen!Pantry!IsAvailable(h)
          /\ UNCHANGED <<stored, quantity, expiry, alerts, today>>
        BY <1>0, <1>8 DEF Kitchen!Pantry!UnavailableThrows, Kitchen!Pantry!Throw
    <2>2. Kitchen!Pantry!IsExpired(h)
        BY <1>1, <2>1, CoveredIsPortion DEF Kitchen!Pantry!IsAvailable, Supplied, Portion
    <2>3. Supplied'
        BY <2>1 DEF Supplied, Portion
    <2>4. \A i \in Ids : Settled(i, 0) => Settled(i, 0)'
        BY <2>1 DEF Settled, Portion, Covered, Announced
    <2> QED
        BY <1>1, <2>1, <2>2, <2>3, <2>4 DEF Spoiled
<1>9. CASE Kitchen!Pantry!Warn
    <2>1. /\ at = "warn" /\ at' = IF Tail(basket) = <<>> THEN "returned" ELSE "check"
          /\ basket' = Tail(basket)
          /\ alerts' = IF Kitchen!Pantry!IsExpired(h) \/ ~Covered(h)
                       THEN Append(alerts, h) ELSE alerts
          /\ UNCHANGED <<stored, quantity, expiry, today>>
        <3>1. quantity[h] \in Int /\ Required[h] \in Nat
            BY <1>1, GameRequired DEF Kitchen!Pantry!TypeOK
        <3>2. Kitchen!Pantry!IsLow(h, quantity[h]) <=> ~Covered(h)
            BY <3>1 DEF Kitchen!Pantry!IsLow, Covered
        <3> QED
            BY <1>0, <1>9, <3>2 DEF Kitchen!Pantry!Warn, Kitchen!Pantry!CheckThresholds
    <2>2. /\ alerts' = Append(alerts, h) => /\ Len(alerts') = Len(alerts) + 1
                                           /\ alerts'[Len(alerts) + 1] = h
          /\ DOMAIN alerts' = 1 .. Len(alerts') /\ Len(alerts') \in Nat
          /\ \A k \in DOMAIN alerts : k \in DOMAIN alerts' /\ alerts'[k] = alerts[k]
          /\ \A k \in 1 .. Len(alerts') : k \in 1 .. Len(alerts) \/ alerts'[k] = h
        BY <1>1, <1>2, <2>1, AppendProperties, LenProperties
    <2>3. /\ DOMAIN basket' = 1 .. Len(basket) - 1
          /\ \A k \in 1 .. Len(basket) - 1 : /\ basket'[k] = basket[k + 1]
                                             /\ k + 1 \in DOMAIN basket /\ k + 1 # 1
        BY <1>2, <2>1, <1>1, HeadTailProperties, LenProperties
    <2>4. Portion(h)
        BY <1>1, <2>1 DEF Supplied
    <2>5. \A i : (Portion(i) <=> Portion(i)') /\ (Covered(i) <=> Covered(i)')
        BY <2>1 DEF Portion, Covered
    <2>6. \A j, k \in DOMAIN basket' : basket'[j] = basket'[k] => j = k
        BY <2>3 DEF Supplied
    <2>7. \A k \in DOMAIN basket' : Covered(basket'[k])
        BY <2>3 DEF Supplied
    <2>8. \A k \in DOMAIN alerts' : Portion(alerts'[k])
        BY <1>2, <2>2, <2>4 DEF Supplied
    <2>9. Supplied'
        BY <2>1, <2>5, <2>6, <2>7, <2>8 DEF Supplied
    <2>10. ASSUME NEW i \in Ids, Settled(i, 0) PROVE Settled(i, 0)'
        <3>1. CASE i = h
            BY <2>1, <2>2, <2>5, <2>10, <3>1 DEF Settled, Announced
        <3>2. CASE i # h
            <4>1. ASSUME NEW k \in DOMAIN alerts, k > 0, alerts[k] = i
                  PROVE  k \in DOMAIN alerts' /\ alerts'[k] = i
                BY <2>2, <4>1
            <4>2. Announced(i, 0) => Announced(i, 0)'
                BY <1>1, <3>2, <4>1 DEF Announced
            <4> QED
                BY <2>5, <2>10, <4>2 DEF Settled
        <3> QED
            BY <3>1, <3>2
    <2> QED
        BY <2>1, <2>9, <2>10
<1> QED
    BY <1>4, <1>5, <1>6, <1>7, <1>8, <1>9 DEF Kitchen!Pantry!ConsumeStep

\* consumeIngredients is called for a recipe of the book, when nothing is owed.
LEMMA Beginning ==
    ASSUME Kitchen!Pantry!TypeOK, Supplied, recipes \subseteq Seeded, Provided(0),
           alerts = <<>>, NEW r \in recipes, Kitchen!Pantry!BeginConsume(Ingredients[r])
    PROVE  /\ Supplied'
           /\ UNCHANGED <<stored, quantity, expiry, alerts, today>>
           /\ at' \in {"check", "returned"}
           /\ \A i \in Ids : Settled(i, 0) => Settled(i, 0)'
<1>1. /\ at = "idle" /\ basket' = Ingredients[r] /\ at' \in {"check", "returned"}
      /\ UNCHANGED <<stored, quantity, expiry, alerts, today>>
    BY DEF Kitchen!Pantry!BeginConsume, Kitchen!Pantry!Idle
<1>2. \A k \in DOMAIN Ingredients[r] : Covered(Ingredients[r][k])
    BY <1>1, EmptySeq DEF Provided, Settled, Announced
<1>3. \A j, k \in DOMAIN Ingredients[r] : Ingredients[r][j] = Ingredients[r][k] => j = k
    BY GameSeeds
<1>4. Supplied'
    BY <1>1, <1>2, <1>3 DEF Supplied, Covered, Portion
<1>5. \A i : Settled(i, 0) => Settled(i, 0)'
    BY <1>1 DEF Settled, Covered, Portion, Announced
<1> QED
    BY <1>1, <1>4, <1>5

\* What the player is asked about and buys a portion of at least is there twice over; it is
\* announced once more only if it has gone bad.
LEMMA Shopping ==
    ASSUME Kitchen!Pantry!TypeOK, Supplied, stored = Ids,
           NEW given \in Nat, given < Len(alerts),
           NEW amount \in Nat, amount >= Required[alerts[given + 1]],
           Kitchen!Pantry!RestockIngredient(alerts[given + 1], amount)
    PROVE  /\ Supplied'
           /\ UNCHANGED <<stored, expiry, today, basket, at>>
           /\ Len(alerts') \in {Len(alerts), Len(alerts) + 1}
           /\ Len(alerts') # Len(alerts) => Spoiled
           /\ \A i \in Ids : Settled(i, given) => Settled(i, given + 1)'
<1>0. PICK a : a = alerts[given + 1]
    OBVIOUS
<1>1. /\ alerts \in Seq(Ids) /\ Len(alerts) \in Nat /\ DOMAIN alerts = 1 .. Len(alerts)
      /\ given + 1 \in DOMAIN alerts /\ a \in Ids /\ quantity \in [Ids -> Int]
      /\ Required[a] \in Nat
    BY <1>0, LenProperties, ElementOfSeq, GameRequired DEF Kitchen!Pantry!TypeOK
<1>2. /\ at = "idle" /\ basket = <<>>
      /\ quantity' = [quantity EXCEPT ![a] = quantity[a] + amount]
      /\ UNCHANGED <<stored, expiry, today, basket, at>>
    BY <1>0 DEF Kitchen!Pantry!RestockIngredient, Kitchen!Pantry!Idle, Kitchen!Pantry!TypeOK
<1>3. /\ \A i \in Ids : i # a => quantity'[i] = quantity[i]
      /\ quantity'[a] = quantity[a] + amount
      /\ quantity[a] >= Required[a]
    BY <1>0, <1>1, <1>2 DEF Supplied, Portion
<1>4. \A i \in Ids : (Portion(i) => Portion(i)') /\ (Covered(i) => Covered(i)')
    <2>1. quantity[a] \in Int /\ quantity'[a] >= quantity[a]
        BY <1>1, <1>3
    <2>2. ASSUME NEW i \in Ids, i = a
          PROVE  (Portion(i) => Portion(i)') /\ (Covered(i) => Covered(i)')
        BY <1>1, <1>3, <2>1, <2>2 DEF Portion, Covered
    <2>3. ASSUME NEW i \in Ids, i # a
          PROVE  (Portion(i) => Portion(i)') /\ (Covered(i) => Covered(i)')
        BY <1>3, <2>3 DEF Portion, Covered
    <2> QED
        BY <2>2, <2>3
<1>5. Covered(a)' /\ Portion(a)'
    BY <1>0, <1>1, <1>3 DEF Covered, Portion
<1>6. ~Kitchen!Pantry!IsLow(a, quantity[a] + amount)
    BY <1>0, <1>1, <1>3 DEF Kitchen!Pantry!IsLow
<1>7. alerts' = IF Kitchen!Pantry!IsExpired(a) THEN Append(alerts, a) ELSE alerts
    BY <1>0, <1>6 DEF Kitchen!Pantry!RestockIngredient, Kitchen!Pantry!CheckThresholds
<1>8. /\ Len(alerts') \in {Len(alerts), Len(alerts) + 1}
      /\ DOMAIN alerts' = 1 .. Len(alerts')
      /\ \A k \in DOMAIN alerts : k \in DOMAIN alerts' /\ alerts'[k] = alerts[k]
      /\ \A k \in DOMAIN alerts' : k \in DOMAIN alerts \/ alerts'[k] = a
    BY <1>1, <1>7, AppendProperties, LenProperties
<1>9. Len(alerts') # Len(alerts) => Spoiled
    BY <1>1, <1>7 DEF Spoiled
<1>10. \A k \in DOMAIN alerts : alerts[k] \in Ids
    BY <1>1, ElementOfSeq
<1>11. Supplied'
    <2>1. ASSUME NEW k \in DOMAIN alerts' PROVE Portion(alerts[k])'
        <3>1. CASE k \in DOMAIN alerts
            <4>1. Portion(alerts[k]) /\ alerts[k] \in Ids /\ alerts'[k] = alerts[k]
                BY <1>8, <1>10, <3>1 DEF Supplied
            <4> QED
                BY <1>4, <4>1 DEF Portion
        <3>2. CASE alerts'[k] = a
            BY <1>5, <3>2 DEF Portion
        <3> QED
            BY <1>8, <3>1, <3>2
    <2> QED
        BY <1>2, <2>1 DEF Supplied, Portion
<1>12. ASSUME NEW i \in Ids, Settled(i, given) PROVE Settled(i, given + 1)'
    <2>1. CASE i = a
        BY <1>5, <2>1 DEF Settled
    <2>2. CASE i # a
        <3>1. ASSUME NEW k \in DOMAIN alerts, k > given, alerts[k] = i
              PROVE  k > given + 1 /\ k \in DOMAIN alerts' /\ alerts'[k] = i
            <4>1. k # given + 1 /\ k \in Nat
                BY <1>0, <1>1, <2>2, <3>1
            <4>2. k > given + 1
                BY <3>1, <4>1
            <4> QED
                BY <1>8, <3>1, <4>2
        <3> QED
            BY <1>2, <1>4, <1>12, <3>1 DEF Settled, Announced
    <2> QED
        BY <2>1, <2>2
<1> QED
    BY <1>2, <1>8, <1>9, <1>11, <1>12

\* What the player is asked about and does not buy is no longer on the menu.
LEMMA Striking ==
    ASSUME Kitchen!Pantry!TypeOK, NEW given \in Nat, given < Len(alerts), Provided(given),
           RemoveRecipeWithIngredient(alerts[given + 1]), UNCHANGED <<quantity, alerts, at, basket>>
    PROVE  recipes' \subseteq recipes /\ Provided(given + 1)'
<1>1. /\ recipes' = {r \in recipes : ~Lists(r, alerts[given + 1])}
      /\ \A k \in DOMAIN alerts : k \in Nat
    BY LenProperties DEF RemoveRecipeWithIngredient, Kitchen!Pantry!TypeOK
<1>2. ASSUME NEW r \in recipes', NEW k \in DOMAIN Ingredients[r]
      PROVE  Settled(Ingredients[r][k], given + 1)'
    <2>1. Settled(Ingredients[r][k], given) /\ Ingredients[r][k] # alerts[given + 1]
        BY <1>1 DEF Provided, Lists
    <2>2. \A j \in DOMAIN alerts :
              j > given /\ alerts[j] = Ingredients[r][k] => j > given + 1
        BY <1>1, <2>1
    <2> QED
        BY <2>1, <2>2 DEF Settled, Portion, Covered, Announced
<1> QED
    BY <1>1, <1>2 DEF Provided

\* When the loop has given every alert, everything on the menu is there twice over.
LEMMA AllCovered ==
    ASSUME Kitchen!Pantry!TypeOK, NEW given \in Nat, given >= Len(alerts), at # "warn",
           Provided(given)
    PROVE  \A r \in recipes : \A k \in DOMAIN Ingredients[r] : Covered(Ingredients[r][k])
<1>1. \A k \in DOMAIN alerts : ~(k > given)
    BY LenProperties DEF Kitchen!Pantry!TypeOK
<1> QED
    BY <1>1 DEF Provided, Settled, Announced

\* As long as nobody cooks or shops, what is settled stays settled.
LEMMA StockKept ==
    ASSUME UNCHANGED <<quantity, alerts, basket>>, at = "warn" <=> at' = "warn"
    PROVE  /\ Supplied => Supplied'
           /\ \A i, given : Settled(i, given) => Settled(i, given)'
BY DEF Supplied, Settled, Covered, Portion, Announced

\* A calendar that runs on makes nothing fresh again.
LEMMA SpoiledStays ==
    ASSUME Kitchen!Pantry!TypeOK, UNCHANGED <<stored, expiry>>,
           today' = today \/ today' = today + 1
    PROVE  Spoiled => Spoiled'
BY DEF Spoiled, Kitchen!Pantry!IsExpired, Kitchen!Pantry!TypeOK

\* A book that only shrinks needs nothing new.
LEMMA StillProvided ==
    ASSUME recipes \subseteq Recipes, recipes' \subseteq recipes,
           NEW given \in Nat, NEW given2 \in Nat,
           \A i \in Ids : Settled(i, given) => Settled(i, given2)',
           Provided(given)
    PROVE  Provided(given2)'
<1>1. ASSUME NEW r \in recipes', NEW k \in DOMAIN Ingredients[r]
      PROVE  Settled(Ingredients[r][k], given2)'
    <2>1. Ingredients[r][k] \in Ids /\ Settled(Ingredients[r][k], given)
        BY GameRecipes, ElementOfSeq DEF Provided
    <2>2. PICK i : i = Ingredients[r][k]
        OBVIOUS
    <2>3. Settled(i, given2)'
        BY <2>1, <2>2
    <2> QED
        BY <2>2, <2>3 DEF Settled, Covered, Portion, Announced
<1> QED
    BY <1>1 DEF Provided

--------------------------------------------------------------------------------
(* Levels *)

Entitles(n, level) == \A k \in 1 .. MaxLevel - 1 : Thresholds[k] <= n <=> k < level

\* checkLevelUp after every single order keeps up with the thresholds: they are never so
\* close that one order would have to gain two levels.
LEMMA LevelKeepsUp ==
    ASSUME NEW n \in Nat, playerSkillLevel \in 1 .. MaxLevel, Entitles(n, playerSkillLevel)
    PROVE  /\ LevelAfter(n + 1) \in 1 .. MaxLevel
           /\ Entitles(n + 1, LevelAfter(n + 1))
BY GameLevels DEF LevelAfter, Entitles

LEMMA EntitledLevel ==
    ASSUME NEW n \in Nat, NEW level \in 1 .. MaxLevel, Entitles(n, level)
    PROVE  LevelFor(n) = level
<1>1. DOMAIN Thresholds = 1 .. MaxLevel - 1 /\ MaxLevel \in Nat
    BY GameLevels
<1>2. {k \in DOMAIN Thresholds : Thresholds[k] <= n} = 1 .. level - 1
    BY <1>1 DEF Entitles
<1>3. Cardinality(1 .. level - 1) = level - 1
    BY <1>1, FS_Interval
<1>4. Cardinality({k \in DOMAIN Thresholds : Thresholds[k] <= n}) = level - 1
    BY <1>2, <1>3, Zenon
<1> QED
    BY <1>1, <1>4 DEF LevelFor

--------------------------------------------------------------------------------
(* Lists of orders *)

LEMMA Replacing ==
    ASSUME NEW S, NEW seq \in Seq(S), NEW o \in 1 .. Len(seq), NEW e,
           NEW new, new = [seq EXCEPT ![o] = e]
    PROVE  /\ new \in Seq(S \cup {e}) /\ Len(new) = Len(seq)
           /\ \A p \in 1 .. Len(seq) : new[p] = IF p = o THEN e ELSE seq[p]
<1>1. seq \in Seq(S \cup {e}) /\ e \in S \cup {e}
    BY SeqMonotonic
<1> QED
    BY <1>1, ExceptSeq

\* Closing an order leaves the dishes as they were ordered, and the other orders alone.
LEMMA Closing ==
    ASSUME orders \in Seq(Kitchen!Orders), NEW o \in 1 .. Len(orders), NEW status, NEW score,
           NEW s, Kitchen!CloseOrder(o, status, score, s)
    PROVE  /\ Len(orders') = Len(orders)
           /\ orders'[o].satisfaction = s /\ orders'[o].status = status
           /\ \A p \in 1 .. Len(orders) : /\ orders'[p].dish = orders[p].dish
                                          /\ p # o => orders'[p] = orders[p]
<1> DEFINE r == [orders[o] EXCEPT !.status = status, !.satisfaction = s]
<1>1. orders \in Seq(Kitchen!Orders)
    OBVIOUS
<1>2. orders[o] \in Kitchen!Orders /\ orders \in [1 .. Len(orders) -> Kitchen!Orders]
    BY <1>1, LenProperties, ElementOfSeq
<1>3. orders' = [orders EXCEPT ![o] = r]
    BY <1>2 DEF Kitchen!CloseOrder, Kitchen!Fulfil
<1>4. r.satisfaction = s /\ r.status = status /\ r.dish = orders[o].dish
    BY <1>2 DEF Kitchen!Orders
<1> HIDE DEF r
<1>5. /\ Len(orders') = Len(orders)
      /\ \A p \in 1 .. Len(orders) : orders'[p] = IF p = o THEN r ELSE orders[p]
    BY ONLY o \in 1 .. Len(orders), <1>1, <1>3, Replacing
<1> QED
    BY <1>4, <1>5

\* So does taking it up.
LEMMA TakingUp ==
    ASSUME orders \in Seq(Kitchen!Orders), NEW o \in 1 .. Len(orders), o = Head(queue),
           Kitchen!TakeUp
    PROVE  /\ Len(orders') = Len(orders)
           /\ orders'[o].status = "IN_PROGRESS"
           /\ \A p \in 1 .. Len(orders) : /\ orders'[p].dish = orders[p].dish
                                          /\ p # o => orders'[p] = orders[p]
<1> DEFINE r == [orders[o] EXCEPT !.status = "IN_PROGRESS"]
<1>1. orders \in Seq(Kitchen!Orders)
    OBVIOUS
<1>2. orders[o] \in Kitchen!Orders /\ orders \in [1 .. Len(orders) -> Kitchen!Orders]
    BY <1>1, LenProperties, ElementOfSeq
<1>3. orders' = [orders EXCEPT ![o] = r]
    BY <1>2 DEF Kitchen!TakeUp
<1>4. r.dish = orders[o].dish /\ r.status = "IN_PROGRESS"
    BY <1>2 DEF Kitchen!Orders
<1> HIDE DEF r
<1>5. /\ Len(orders') = Len(orders)
      /\ \A p \in 1 .. Len(orders) : orders'[p] = IF p = o THEN r ELSE orders[p]
    BY ONLY o \in 1 .. Len(orders), <1>1, <1>3, Replacing
<1> QED
    BY <1>4, <1>5

--------------------------------------------------------------------------------
(* The recipe book *)

\* addRecipe takes in a recipe only if no recipe of the book shares its name, also when
\* it puts it in the place of another one.
LEMMA AddKeepsNamesApart ==
    ASSUME NamesUnique, NEW r, AddRecipe(r) PROVE NamesUnique'
<1>1. CASE Duplicate(r)
    BY <1>1 DEF AddRecipe, NamesUnique, EqualsIgnoreCase
<1>2. CASE ~Duplicate(r)
    <2>1. recipes' \subseteq recipes \cup {r}
        BY <1>2 DEF AddRecipe, With, Without
    <2>2. \A other \in recipes : ~EqualsIgnoreCase(other, r) /\ ~EqualsIgnoreCase(r, other)
        BY <1>2 DEF Duplicate, EqualsIgnoreCase
    <2> QED
        BY <2>1, <2>2 DEF NamesUnique, EqualsIgnoreCase
<1> QED
    BY <1>1, <1>2

LEMMA FewerKeepNamesApart ==
    ASSUME NamesUnique, recipes' \subseteq recipes PROVE NamesUnique'
BY DEF NamesUnique, EqualsIgnoreCase

LEMMA NamesStep == NamesUnique /\ [EditBook]_recipes => NamesUnique'
<1> SUFFICES ASSUME NamesUnique, [EditBook]_recipes PROVE NamesUnique'
    OBVIOUS
<1>1. ASSUME NEW r \in Recipes, AddRecipe(r) PROVE NamesUnique'
    BY <1>1, AddKeepsNamesApart
<1>2. ASSUME NEW id, RemoveRecipe(id) PROVE NamesUnique'
    <2>1. recipes' \subseteq recipes
        BY <1>2 DEF RemoveRecipe, Without
    <2> QED
        BY <2>1, FewerKeepNamesApart
<1>3. ASSUME NEW i \in IngredientIds, RemoveRecipeWithIngredient(i) PROVE NamesUnique'
    <2>1. recipes' \subseteq recipes
        BY <1>3 DEF RemoveRecipeWithIngredient
    <2> QED
        BY <2>1, FewerKeepNamesApart
<1>4. CASE UNCHANGED recipes
    BY <1>4, FewerKeepNamesApart
<1> QED
    BY <1>1, <1>2, <1>3, <1>4 DEF EditBook

\* No two recipes of the book ever have names that differ in capitals only.
THEOREM NamesStayUnique == BookSpec => []NamesUnique
<1>1. EmptyBook => NamesUnique
    BY DEF EmptyBook, NamesUnique
<1> QED
    BY <1>1, NamesStep, PTL DEF BookSpec

--------------------------------------------------------------------------------
(* How long an order keeps a game busy *)

\* The steps of consumeIngredients that are to come.
CallSteps == KitchenFacts!StepsLeft

LEMMA CallStepsAre ==
    CallSteps = IF at = "idle" THEN 0
                ELSE IF at = "take" THEN 3 * Len(basket)
                ELSE IF at = "warn" THEN 3 * Len(basket) - 1
                ELSE 3 * Len(basket) + 1
BY DEF CallSteps, KitchenFacts!StepsLeft, KitchenFacts!PantryFacts!StepsLeft,
       KitchenFacts!PantryFacts!Idle

LEMMA CallStepsWillBe ==
    CallSteps' = IF at' = "idle" THEN 0
                 ELSE IF at' = "take" THEN 3 * Len(basket')
                 ELSE IF at' = "warn" THEN 3 * Len(basket') - 1
                 ELSE 3 * Len(basket') + 1
BY DEF CallSteps, KitchenFacts!StepsLeft, KitchenFacts!PantryFacts!StepsLeft,
       KitchenFacts!PantryFacts!Idle

LEMMA CallStepsAreNatural ==
    ASSUME Kitchen!TypeOK PROVE CallSteps \in Nat /\ (CallSteps = 0 <=> at = "idle")
<1>1. KitchenFacts!Pantry!TypeOK
      => /\ KitchenFacts!StepsLeft \in Nat
         /\ KitchenFacts!StepsLeft = 0 <=> KitchenFacts!Pantry!Idle
    BY KitchenConstants, KitchenFacts!StepsLeftIsNatural
<1> QED
    BY <1>1, SameKitchen DEF CallSteps, KitchenFacts!TypeOK, KitchenFacts!Pantry!Idle

LEMMA CallShortens ==
    ASSUME Kitchen!TypeOK, Kitchen!Pantry!ConsumeStep \/ Kitchen!Pantry!ReturnToCaller
    PROVE  CallSteps' < CallSteps
<1>1. /\ KitchenFacts!Pantry!TypeOK
      /\ KitchenFacts!Pantry!ConsumeStep \/ KitchenFacts!Pantry!ReturnToCaller
    BY DEF Kitchen!TypeOK, Kitchen!Pantry!TypeOK, KitchenFacts!Pantry!TypeOK,
       Kitchen!Pantry!ConsumeStep, KitchenFacts!Pantry!ConsumeStep,
       Kitchen!Pantry!MissingThrows, KitchenFacts!Pantry!MissingThrows,
       Kitchen!Pantry!ExpiredThrows, KitchenFacts!Pantry!ExpiredThrows,
       Kitchen!Pantry!FoundFresh, KitchenFacts!Pantry!FoundFresh,
       Kitchen!Pantry!Take, KitchenFacts!Pantry!Take,
       Kitchen!Pantry!UnavailableThrows, KitchenFacts!Pantry!UnavailableThrows,
       Kitchen!Pantry!Warn, KitchenFacts!Pantry!Warn,
       Kitchen!Pantry!Throw, KitchenFacts!Pantry!Throw,
       Kitchen!Pantry!ReturnToCaller, KitchenFacts!Pantry!ReturnToCaller,
       Kitchen!Pantry!IsExpired, KitchenFacts!Pantry!IsExpired,
       Kitchen!Pantry!IsAvailable, KitchenFacts!Pantry!IsAvailable,
       Kitchen!Pantry!CheckThresholds, KitchenFacts!Pantry!CheckThresholds,
       Kitchen!Pantry!IsLow, KitchenFacts!Pantry!IsLow
<1> QED
    BY <1>1, KitchenConstants, KitchenFacts!CookingShortens DEF CallSteps

LEMMA AlertsLengthen ==
    ASSUME alerts \in Seq(Ids), NEW i \in Ids, NEW q, Kitchen!Pantry!CheckThresholds(i, q)
    PROVE  Len(alerts') \in {Len(alerts), Len(alerts) + 1}
BY AppendProperties DEF Kitchen!Pantry!CheckThresholds

\* From taking up an order for recipe r to the end of the handler: the loop over the alerts
\* takes two steps for each of them, and every round of consumeIngredients may add one.
CookingSteps(r) == IF current = 0 THEN 9 * Len(Ingredients[r]) + 4 + 2 * Len(alerts)
                                  ELSE 3 * CallSteps + 2 * Len(alerts)

\* In the loop over the alerts, which fails once the list has grown, and while what the
\* player has paid for is being restocked.
AlertSteps == IF ListGrew THEN 1 ELSE 2 * (Len(alerts) - cursor) + 1
BuyingSteps == 2 * (Len(alerts) - cursor)

LEMMA CookingIsNatural ==
    ASSUME Kitchen!TypeOK, NEW r \in Recipes
    PROVE  /\ Len(Ingredients[r]) \in Nat /\ Len(alerts) \in Nat
           /\ CookingSteps(r) \in Nat
           /\ at # "idle" \/ current = 0 => CookingSteps(r) > 0
<1>1. Len(Ingredients[r]) \in Nat
    BY GameRecipes, LenProperties
<1>2. Len(alerts) \in Nat
    BY LenProperties DEF Kitchen!TypeOK, Kitchen!Pantry!TypeOK
<1>3. CallSteps \in Nat /\ (at # "idle" => CallSteps > 0)
    <2>1. CallSteps \in Nat /\ (at # "idle" => CallSteps # 0)
        BY CallStepsAreNatural
    <2> QED
        BY <2>1
<1>4. CASE current = 0
    <2>1. PICK n \in Nat : n = Len(Ingredients[r])
        BY <1>1
    <2>2. CookingSteps(r) = 9 * n + 4 + 2 * Len(alerts)
        BY <1>4, <2>1 DEF CookingSteps
    <2>3. CookingSteps(r) \in Nat /\ CookingSteps(r) > 0
        BY ONLY <1>2, n \in Nat, <2>2
    <2> QED
        BY <1>1, <1>2, <2>3
<1>5. CASE current # 0
    BY <1>2, <1>3, <1>5, <1>1 DEF CookingSteps
<1> QED
    BY <1>4, <1>5

\* The list of what is to be taken is the recipe's.
LEMMA TakeUpShortens ==
    ASSUME Kitchen!TypeOK, Kitchen!TakeUp, NEW r \in Recipes,
           orders[Head(queue)].dish \in Dishes, orders[Head(queue)].dish[1] = r
    PROVE  CookingSteps(r)' < CookingSteps(r)
<1>1. /\ current = 0 /\ current' = Head(queue) /\ current' # 0
      /\ basket' = Ingredients[r] /\ at' \in {"check", "returned"} /\ alerts' = alerts
    <2>1. queue \in Seq(Kitchen!OrderNumbers) /\ queue # <<>>
        BY DEF Kitchen!TypeOK, Kitchen!TakeUp
    <2>2. Head(queue) \in Kitchen!OrderNumbers
        BY <2>1, HeadTailProperties
    <2>3. Head(queue) # 0
        BY <2>2 DEF Kitchen!OrderNumbers
    <2> QED
        BY <2>3 DEF Kitchen!TakeUp, Kitchen!Idle, Kitchen!Pantry!BeginConsume
<1>2. Len(Ingredients[r]) \in Nat /\ Len(alerts) \in Nat
    BY CookingIsNatural
<1>3. CallSteps' = 3 * Len(Ingredients[r]) + 1
    BY <1>1, CallStepsAre, CallStepsWillBe
<1>4. PICK n \in Nat : n = Len(Ingredients[r])
    BY <1>2
<1>5. /\ CookingSteps(r) = 9 * n + 4 + 2 * Len(alerts)
      /\ CookingSteps(r)' = 3 * CallSteps' + 2 * Len(alerts)
    BY <1>1, <1>4 DEF CookingSteps
<1>6. CallSteps' = 3 * n + 1
    BY <1>3, <1>4
<1> QED
    BY ONLY <1>2, n \in Nat, <1>5, <1>6

LEMMA ConsumeShortens ==
    ASSUME Kitchen!TypeOK, Kitchen!TypeOK', Kitchen!Consume, NEW r \in Recipes, current # 0
    PROVE  CookingSteps(r)' < CookingSteps(r)
<1>1. /\ Kitchen!Pantry!TypeOK /\ Kitchen!Pantry!ConsumeStep /\ current' = current
      /\ alerts \in Seq(Ids) /\ basket \in Seq(Ids)
    BY DEF Kitchen!TypeOK, Kitchen!Consume, Kitchen!orderVars, Kitchen!Pantry!TypeOK
<1>2. at \in {"check", "take", "warn"} /\ basket # <<>>
    BY <1>1 DEF Kitchen!Pantry!ConsumeStep, Kitchen!Pantry!MissingThrows,
       Kitchen!Pantry!ExpiredThrows, Kitchen!Pantry!FoundFresh, Kitchen!Pantry!Take,
       Kitchen!Pantry!UnavailableThrows, Kitchen!Pantry!Warn, Kitchen!Pantry!TypeOK
<1>3. /\ Len(basket) \in Nat /\ Len(basket) > 0 /\ Len(alerts) \in Nat
      /\ Head(basket) \in Ids
      /\ Tail(basket) \in Seq(Ids) /\ Len(Tail(basket)) = Len(basket) - 1
    BY <1>1, <1>2, LenProperties, HeadTailProperties, EmptySeq
<1>4. 3 * CallSteps' + 2 * Len(alerts') < 3 * CallSteps + 2 * Len(alerts)
    <2>1. CASE Kitchen!Pantry!MissingThrows \/ Kitchen!Pantry!UnavailableThrows
        <3>1. at' = "threw" /\ Len(basket') = 0 /\ alerts' = alerts
            BY <2>1, EmptySeq DEF Kitchen!Pantry!MissingThrows,
               Kitchen!Pantry!UnavailableThrows, Kitchen!Pantry!Throw
        <3>2. CallSteps' = 1 /\ CallSteps >= 2
            BY <1>2, <1>3, <3>1, CallStepsAre, CallStepsWillBe
        <3>3. CallSteps \in Nat
            BY CallStepsAreNatural
        <3> QED
            BY <1>3, <3>1, <3>2, <3>3
    <2>2. CASE Kitchen!Pantry!ExpiredThrows
        <3>1. /\ at = "check" /\ at' = "threw" /\ Len(basket') = 0
              /\ Len(alerts') = Len(alerts) + 1
            BY <1>1, <1>3, <2>2, EmptySeq, AppendProperties
            DEF Kitchen!Pantry!ExpiredThrows, Kitchen!Pantry!Throw
        <3>2. CallSteps' = 1 /\ CallSteps = 3 * Len(basket) + 1
            BY <3>1, CallStepsAre, CallStepsWillBe
        <3> QED
            BY <1>3, <3>1, <3>2
    <2>3. CASE Kitchen!Pantry!FoundFresh
        <3>1. at = "check" /\ at' = "take" /\ UNCHANGED <<basket, alerts>>
            BY <2>3 DEF Kitchen!Pantry!FoundFresh
        <3>2. CallSteps' = 3 * Len(basket) /\ CallSteps = 3 * Len(basket) + 1
            BY <3>1, CallStepsAre, CallStepsWillBe
        <3> QED
            BY <1>3, <3>1, <3>2
    <2>4. CASE Kitchen!Pantry!Take
        <3>1. at = "take" /\ at' = "warn" /\ UNCHANGED <<basket, alerts>>
            BY <2>4 DEF Kitchen!Pantry!Take
        <3>2. CallSteps' = 3 * Len(basket) - 1 /\ CallSteps = 3 * Len(basket)
            BY <3>1, CallStepsAre, CallStepsWillBe
        <3> QED
            BY <1>3, <3>1, <3>2
    <2>5. CASE Kitchen!Pantry!Warn
        <3>1. /\ at = "warn" /\ at' \in {"check", "returned"} /\ Len(basket') = Len(basket) - 1
              /\ Len(alerts') \in {Len(alerts), Len(alerts) + 1}
            BY <1>1, <1>3, <2>5, AlertsLengthen DEF Kitchen!Pantry!Warn
        <3>2. CallSteps' = 3 * Len(basket) - 2 /\ CallSteps = 3 * Len(basket) - 1
            BY <1>3, <3>1, CallStepsAre, CallStepsWillBe
        <3> QED
            BY <1>3, <3>1, <3>2
    <2> QED
        BY <1>1, <2>1, <2>2, <2>3, <2>4, <2>5 DEF Kitchen!Pantry!ConsumeStep
<1> QED
    BY <1>1, <1>4 DEF CookingSteps

LEMMA AlertsBegin ==
    ASSUME Kitchen!TypeOK, NEW r \in Recipes, current # 0, Kitchen!Pantry!ReturnToCaller,
           BeginAlerts
    PROVE  AlertSteps' < CookingSteps(r)
<1>1. alerts' = alerts /\ cursor' = 0 /\ expected' = Len(alerts) /\ Len(alerts) \in Nat
    BY CookingIsNatural DEF BeginAlerts, Kitchen!Pantry!ReturnToCaller
<1>2. AlertSteps' = 2 * Len(alerts) + 1
    BY <1>1 DEF AlertSteps, ListGrew
<1>3. CallSteps \in Nat /\ CallSteps # 0
    BY CallStepsAreNatural DEF Kitchen!Pantry!ReturnToCaller
<1> QED
    BY <1>1, <1>2, <1>3 DEF CookingSteps

LEMMA AlertsAnswered ==
    ASSUME Kitchen!TypeOK, cursor \in Nat, ~ListGrew
    PROVE  /\ UNCHANGED <<alerts, cursor>> => BuyingSteps' < AlertSteps
           /\ alerts' = alerts /\ NextAlert => AlertSteps' < AlertSteps
<1>1. Len(alerts) \in Nat
    BY LenProperties DEF Kitchen!TypeOK, Kitchen!Pantry!TypeOK
<1> QED
    BY <1>1 DEF AlertSteps, BuyingSteps, ListGrew, NextAlert

LEMMA RestockShortens ==
    ASSUME Kitchen!TypeOK, cursor \in Nat, cursor < Len(alerts), ~ListGrew, NEW i \in Ids,
           NEW amount, Kitchen!Restock(i, amount), NextAlert
    PROVE  AlertSteps' < BuyingSteps
<1>1. Len(alerts) \in Nat /\ alerts \in Seq(Ids)
    BY LenProperties DEF Kitchen!TypeOK, Kitchen!Pantry!TypeOK
<1>2. Len(alerts') \in {Len(alerts), Len(alerts) + 1}
    BY <1>1, AlertsLengthen DEF Kitchen!Restock, Kitchen!Pantry!RestockIngredient
<1> QED
    BY <1>1, <1>2 DEF AlertSteps, BuyingSteps, ListGrew, NextAlert

LEMMA SameSteps ==
    ASSUME UNCHANGED <<basket, at, current, alerts, cursor, expected>>
    PROVE  /\ AlertSteps' = AlertSteps /\ BuyingSteps' = BuyingSteps
           /\ \A r : CookingSteps(r)' = CookingSteps(r)
BY CallStepsAre, CallStepsWillBe DEF AlertSteps, BuyingSteps, CookingSteps, ListGrew

================================================================================
