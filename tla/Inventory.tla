------------------------------- MODULE Inventory -------------------------------
(***************************************************************************)
(* The pantry of Recipe Realm: InventoryRepository (the map of stored       *)
(* ingredients and its threshold checks), Ingredient (quantity, required     *)
(* portion, expiry date), InventoryService (the operations the game calls)   *)
(* and StockAlertObserver (the list of alerts the player is shown).          *)
(*                                                                           *)
(* consumeIngredients is a loop that reads the calendar three times for      *)
(* every ingredient: before taking it, inside Ingredient.consume, and in     *)
(* checkThresholds.  Each reading is a step of its own, so that midnight may *)
(* fall between any two of them and a failure half-way leaves what was       *)
(* already taken out of the pantry, as in the code, which rolls nothing back. *)
(***************************************************************************)
EXTENDS Integers, Sequences, FiniteSets

CONSTANTS
    Ids,           \* ingredient ids, the keys of InventoryRepository.store
    Required,      \* requiredAmount of each ingredient: one portion
    Never,         \* expiryDate = null: the ingredient does not expire
    Baskets,       \* the ingredient lists of the recipes (a list of ids each)
    Opening,       \* quantities an ingredient may be added with
    BestBefore,    \* expiry dates an ingredient may be added with
    Amounts,       \* amounts restockIngredient is called with
    MaxDay,        \* bound on the calendar
    MaxQuantity,   \* bound on the stock of one ingredient
    MaxAlerts      \* bound on the alerts that accumulate between two clearings

ASSUME RequiredAssumption == Required \in [Ids -> Nat \ {0}]
ASSUME BasketsAssumption == Baskets \subseteq Seq(Ids)
ASSUME OpeningAssumption == Opening \subseteq Nat
ASSUME DatesAssumption == /\ BestBefore \subseteq Nat \cup {Never}
                          /\ Never \notin Nat
ASSUME AmountsAssumption == Amounts \subseteq Int
ASSUME BoundsAssumption == MaxDay \in Nat /\ MaxQuantity \in Nat /\ MaxAlerts \in Nat

VARIABLES
    stored,    \* ids that have an entry in InventoryRepository.store
    quantity,  \* Ingredient.quantity of each id (kept after a delete: the
               \* ingredient object outlives its entry in the map)
    expiry,    \* Ingredient.expiryDate of each id
    alerts,    \* StockAlertObserver.alerts
    today,     \* LocalDate.now()
    basket,    \* what consumeIngredients has still to take, in list order
    at         \* where the running call to consumeIngredients is

vars == <<stored, quantity, expiry, alerts, today, basket, at>>

Idle == at = "idle"

Init == /\ stored = {}
        /\ quantity = [i \in Ids |-> 0]
        /\ expiry = [i \in Ids |-> Never]
        /\ alerts = <<>>
        /\ today = 0
        /\ basket = <<>>
        /\ at = "idle"

--------------------------------------------------------------------------------
(* Ingredient *)

IsExpired(i) == expiry[i] # Never /\ today > expiry[i]

\* Slip: any stock will do, be it less than a portion.
IsAvailableIfAny(i) == ~IsExpired(i) /\ quantity[i] > 0

IsAvailable(i) == ~IsExpired(i) /\ quantity[i] >= Required[i]

\* Slip: two portions left count as low too.
IsLowOrEqual(i, q) == q <= 2 * Required[i]

\* LOW_STOCK_MULTIPLIER is 2: fewer than two portions left.
IsLow(i, q) == q < 2 * Required[i]

\* Slip: the multiplier is forgotten.
CheckThresholdsLate(i, q) ==
    alerts' = IF IsExpired(i) \/ q < Required[i] THEN Append(alerts, i) ELSE alerts

\* Slip: only what has expired is announced.
CheckExpiryOnly(i, q) == alerts' = IF IsExpired(i) THEN Append(alerts, i) ELSE alerts

\* checkThresholds: an expired ingredient is announced as such, else a low one
\* is; StockAlertObserver appends the ingredient in both cases.
CheckThresholds(i, q) ==
    alerts' = IF IsExpired(i) \/ IsLow(i, q) THEN Append(alerts, i) ELSE alerts

--------------------------------------------------------------------------------
(* InventoryService *)

\* addIngredient: save replaces the entry and checks no threshold.
AddIngredient(i, q, d) ==
    /\ Idle
    /\ stored' = stored \cup {i}
    /\ quantity' = [quantity EXCEPT ![i] = q]
    /\ expiry' = [expiry EXCEPT ![i] = d]
    /\ UNCHANGED <<alerts, today, basket, at>>

\* restockIngredient: Ingredient.restock, then update with its threshold check.
\* An unknown id and an amount that is not positive throw and change nothing.
\* The expiry date stays what it was.
RestockIngredient(i, amount) ==
    /\ Idle
    /\ i \in stored
    /\ amount > 0
    /\ quantity' = [quantity EXCEPT ![i] = @ + amount]
    /\ CheckThresholds(i, quantity[i] + amount)
    /\ UNCHANGED <<stored, expiry, today, basket, at>>

PurgeExpiredIngredients ==
    /\ Idle
    /\ stored' = {i \in stored : ~IsExpired(i)}
    /\ UNCHANGED <<quantity, expiry, alerts, today, basket, at>>

\* StockAlertObserver.clearAlerts
ClearAlerts ==
    /\ Idle
    /\ alerts' = <<>>
    /\ UNCHANGED <<stored, quantity, expiry, today, basket, at>>

\* Slip: an entry in the store is enough, be it spoiled or short.
HasAllEntries(required) == \A k \in DOMAIN required : required[k] \in stored

\* hasAllIngredients looks at one ingredient after the other and takes nothing: an
\* ingredient that is listed twice is found available twice.
HasAllIngredients(required) ==
    \A k \in DOMAIN required : required[k] \in stored /\ IsAvailable(required[k])

--------------------------------------------------------------------------------
(* InventoryRepository.consumeIngredients *)

BeginConsume(list) ==
    /\ Idle
    /\ basket' = list
    /\ at' = IF list = <<>> THEN "returned" ELSE "check"
    /\ UNCHANGED <<stored, quantity, expiry, alerts, today>>

\* Slip: the list of what is left to take survives the exception.
ThrowKeepsBasket == at' = "threw" /\ UNCHANGED basket

Throw == at' = "threw" /\ basket' = <<>>

\* The ingredient has no entry: NoSuchElementException.
MissingThrows ==
    /\ at = "check"
    /\ Head(basket) \notin stored
    /\ Throw
    /\ UNCHANGED <<stored, quantity, expiry, alerts, today>>

\* The ingredient is expired: announce it, then IllegalStateException.
ExpiredThrows ==
    /\ at = "check"
    /\ Head(basket) \in stored
    /\ IsExpired(Head(basket))
    /\ alerts' = Append(alerts, Head(basket))
    /\ Throw
    /\ UNCHANGED <<stored, quantity, expiry, today>>

FoundFresh ==
    /\ at = "check"
    /\ Head(basket) \in stored
    /\ ~IsExpired(Head(basket))
    /\ at' = "take"
    /\ UNCHANGED <<stored, quantity, expiry, alerts, today, basket>>

\* Ingredient.consume
Take ==
    /\ at = "take"
    /\ IsAvailable(Head(basket))
    /\ quantity' = [quantity EXCEPT ![Head(basket)] = @ - Required[Head(basket)]]
    /\ at' = "warn"
    /\ UNCHANGED <<stored, expiry, alerts, today, basket>>

\* Slip: the exception is caught and the same ingredient tried again.
UnavailableRetries ==
    /\ at = "take"
    /\ ~IsAvailable(Head(basket))
    /\ at' = "check"
    /\ UNCHANGED <<stored, quantity, expiry, alerts, today, basket>>

\* Slip: what there is of the ingredient is used up before the exception.
UnavailableTakesRest ==
    /\ at = "take"
    /\ ~IsAvailable(Head(basket))
    /\ quantity' = [quantity EXCEPT ![Head(basket)] = 0]
    /\ Throw
    /\ UNCHANGED <<stored, expiry, alerts, today>>

\* Ingredient.consume on too little stock, or on stock that expired since the
\* check above: IllegalStateException, and no alert.
UnavailableThrows ==
    /\ at = "take"
    /\ ~IsAvailable(Head(basket))
    /\ Throw
    /\ UNCHANGED <<stored, quantity, expiry, alerts, today>>

Warn ==
    /\ at = "warn"
    /\ CheckThresholds(Head(basket), quantity[Head(basket)])
    /\ basket' = Tail(basket)
    /\ at' = IF Tail(basket) = <<>> THEN "returned" ELSE "check"
    /\ UNCHANGED <<stored, quantity, expiry, today>>

ConsumeStep == \/ MissingThrows
               \/ ExpiredThrows
               \/ FoundFresh
               \/ Take
               \/ UnavailableThrows
               \/ Warn

\* The caller sees the return or the exception.
ReturnToCaller ==
    /\ at \in {"returned", "threw"}
    /\ at' = "idle"
    /\ UNCHANGED <<stored, quantity, expiry, alerts, today, basket>>

--------------------------------------------------------------------------------
Midnight ==
    /\ today < MaxDay
    /\ today' = today + 1
    /\ UNCHANGED <<stored, quantity, expiry, alerts, basket, at>>

Next ==
    \/ \E i \in Ids, q \in Opening, d \in BestBefore : AddIngredient(i, q, d)
    \/ \E i \in Ids, amount \in Amounts :
           /\ quantity[i] + amount <= MaxQuantity
           /\ Len(alerts) < MaxAlerts
           /\ RestockIngredient(i, amount)
    \/ PurgeExpiredIngredients
    \/ ClearAlerts
    \/ \E list \in Baskets : Len(alerts) + Len(list) <= MaxAlerts /\ BeginConsume(list)
    \/ ConsumeStep
    \/ ReturnToCaller
    \/ Midnight

\* The thread that called consumeIngredients runs until the call ends.
Fairness == WF_vars(ConsumeStep) /\ WF_vars(ReturnToCaller)

Spec == Init /\ [][Next]_vars /\ Fairness

--------------------------------------------------------------------------------
(* Properties *)

TypeOK ==
    /\ stored \subseteq Ids
    /\ quantity \in [Ids -> Int]
    /\ expiry \in [Ids -> Nat \cup {Never}]
    /\ alerts \in Seq(Ids)
    /\ today \in Nat
    /\ basket \in Seq(Ids)
    /\ at \in {"idle", "check", "take", "warn", "returned", "threw"}
    /\ at \in {"check", "take", "warn"} <=> basket # <<>>

\* However restocks, failed and successful consumptions follow each other, no
\* ingredient is ever owed: Ingredient.consume never takes more than there is.
NeverOverdrawn == \A i \in Ids : quantity[i] >= 0

\* A call to consumeIngredients ends, with a return or with an exception:
\* the loop drops one ingredient of the recipe in every round.
ConsumeEnds == ~Idle ~> Idle

================================================================================
