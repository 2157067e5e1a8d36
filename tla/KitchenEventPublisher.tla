------------------------- MODULE KitchenEventPublisher --------------------------
(***************************************************************************)
(* The list of observers that hear of every dish.  GameManager relies on its     *)
(* order: OrderFulfillmentObserver, registered first, closes the order whose     *)
(* score SatisfactionObserver, registered second, then reads.                     *)
(* The history variables say who ought to hear: since (when an observer          *)
(* subscribed, 0 if it does not) and owed (the dishes completed meanwhile).      *)
(***************************************************************************)
EXTENDS Integers, SequencesExt

CONSTANTS KitchenObservers, Null,
          MaxDishes, MaxCalls  \* bounds

ASSUME PublisherNull == Null \notin KitchenObservers
ASSUME PublisherBounds == MaxDishes \in Nat /\ MaxCalls \in Nat

VARIABLES
    observers,    \* KitchenEventPublisher.observers
    heard,        \* the dishes each observer was notified of, last one last
    dishes,       \* the number of dishes completed
    calls,        \* the number of registrations so far
    since, owed

history == <<calls, since, owed>>
vars == <<observers, heard, dishes, history>>

Init == /\ observers = <<>>
        /\ heard = [o \in KitchenObservers |-> <<>>]
        /\ dishes = 0
        /\ calls = 0
        /\ since = [o \in KitchenObservers |-> 0]
        /\ owed = [o \in KitchenObservers |-> <<>>]

\* Slip: an observer may be in the list twice.
AddedAgain(o) == IF o # Null THEN Append(observers, o) ELSE observers

\* Slip: the newest observer comes first.
AddedFirst(o) == IF o # Null /\ ~Contains(observers, o) THEN <<o>> \o observers ELSE observers

\* registerObserver ignores null and who is in the list already.
Added(o) == IF o # Null /\ ~Contains(observers, o) THEN Append(observers, o) ELSE observers

RegisterObserver(o) ==
    /\ observers' = Added(o)
    /\ calls' = calls + 1
    /\ since' = [p \in KitchenObservers |->
                     IF p = o /\ since[p] = 0 THEN calls + 1 ELSE since[p]]
    /\ UNCHANGED <<heard, dishes, owed>>

\* removeObserver takes out the first entry that is the observer, if there is one.
RemoveObserver(o) ==
    /\ observers' = RemoveFirst(observers, o)
    /\ since' = [since EXCEPT ![o] = 0]
    /\ UNCHANGED <<heard, dishes, calls, owed>>

\* The turns of the loop over the list at which an observer is called.
Hears(o) == {k \in DOMAIN observers : observers[k] = o}

\* notifyDishCompleted
NotifyDishCompleted ==
    /\ dishes' = dishes + 1
    /\ heard' = [o \in KitchenObservers |->
                     heard[o] \o [k \in 1 .. Cardinality(Hears(o)) |-> dishes + 1]]
    /\ owed' = [o \in KitchenObservers |->
                    IF since[o] = 0 THEN owed[o] ELSE Append(owed[o], dishes + 1)]
    /\ UNCHANGED <<observers, calls, since>>

Next == \/ \E o \in KitchenObservers \cup {Null} : calls < MaxCalls /\ RegisterObserver(o)
        \/ \E o \in KitchenObservers : RemoveObserver(o)
        \/ dishes < MaxDishes /\ NotifyDishCompleted

Spec == Init /\ [][Next]_vars

--------------------------------------------------------------------------------
(* Properties *)

\* However often observers register and leave, each hears of every dish that was
\* completed while it was subscribed, once, and of none after it left.
HearsEachDishOnce == heard = owed

\* They are notified in the order in which they subscribed, also after others left:
\* whoever reads what an earlier observer has set may rely on it.
NotifiedInTurn == \A j, k \in DOMAIN observers : j < k => since[observers[j]] <= since[observers[k]]

================================================================================
