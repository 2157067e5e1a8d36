---------------------------- MODULE InventoryProofs ----------------------------
(* What Inventory guarantees for every set of ingredients, every list of recipes *)
(* and every calendar; then, with the history variables of StockAudit, what a     *)
(* whole call to consumeIngredients takes, and that no shortage is silent.        *)
EXTENDS StockAudit, TLAPS, SequenceTheorems, FiniteSetTheorems

\* The quantity comparisons of the other actions do not concern what
\* consumeIngredients does to the types: its steps keep TypeOK.
LEMMA ConsumeStepType == TypeOK /\ ConsumeStep => TypeOK'
<1> SUFFICES ASSUME TypeOK, ConsumeStep PROVE TypeOK'
    OBVIOUS
<1> USE RequiredAssumption DEF TypeOK
<1>a. basket # <<>> => Head(basket) \in Ids /\ Tail(basket) \in Seq(Ids)
    BY HeadTailProperties
<1>1. CASE MissingThrows
    BY <1>1, EmptySeq DEF MissingThrows, Throw
<1>2. CASE ExpiredThrows
    BY <1>2, <1>a, EmptySeq, AppendProperties DEF ExpiredThrows, Throw
<1>3. CASE FoundFresh
    BY <1>3 DEF FoundFresh
<1>4. CASE Take
    <2>1. Head(basket) \in Ids
        BY <1>4, <1>a DEF Take
    <2>2. quantity' \in [Ids -> Int]
        BY <1>4, <2>1 DEF Take
    <2> QED
        BY <1>4, <2>2 DEF Take
<1>5. CASE UnavailableThrows
    BY <1>5, EmptySeq DEF UnavailableThrows, Throw
<1>6. CASE Warn
    <2>1. Head(basket) \in Ids /\ Tail(basket) \in Seq(Ids)
        BY <1>6, <1>a DEF Warn
    <2>2. alerts' \in Seq(Ids)
        BY <1>6, <2>1, AppendProperties DEF Warn, CheckThresholds
    <2> QED
        BY <1>6, <2>1, <2>2 DEF Warn
<1> QED
    BY <1>1, <1>2, <1>3, <1>4, <1>5, <1>6 DEF ConsumeStep

\* Everything a caller may do with the pantry and the calendar, whatever the arguments:
\* the actions of Next without the bounds of a run.  The kitchen's steps are among these.
Operation ==
    \/ \E i \in Ids, q \in Nat, d \in Nat \cup {Never} : AddIngredient(i, q, d)
    \/ \E i \in Ids, amount \in Int : RestockIngredient(i, amount)
    \/ PurgeExpiredIngredients
    \/ ClearAlerts
    \/ \E ids \in Seq(Ids) : BeginConsume(ids)
    \/ ConsumeStep
    \/ ReturnToCaller
    \/ Midnight

LEMMA NextIsOperation == [Next]_vars => [Operation]_vars
BY BasketsAssumption, OpeningAssumption, DatesAssumption, AmountsAssumption DEF Next, Operation

LEMMA TypeStep == TypeOK /\ [Operation]_vars => TypeOK'
<1> SUFFICES ASSUME TypeOK, [Operation]_vars PROVE TypeOK'
    OBVIOUS
<1> USE DEF TypeOK
<1>1. ASSUME NEW i \in Ids, NEW q \in Nat, NEW d \in Nat \cup {Never},
             AddIngredient(i, q, d)
      PROVE  TypeOK'
    BY <1>1 DEF AddIngredient, Idle
<1>2. ASSUME NEW i \in Ids, NEW amount \in Int, RestockIngredient(i, amount)
      PROVE  TypeOK'
    <2>1. alerts' \in Seq(Ids)
        BY <1>2, AppendProperties DEF RestockIngredient, CheckThresholds
    <2> QED
        BY <1>2, <2>1 DEF RestockIngredient, Idle
<1>3. CASE PurgeExpiredIngredients
    BY <1>3 DEF PurgeExpiredIngredients, Idle
<1>4. CASE ClearAlerts
    BY <1>4, EmptySeq DEF ClearAlerts, Idle
<1>5. ASSUME NEW l \in Seq(Ids), BeginConsume(l) PROVE TypeOK'
    BY <1>5 DEF BeginConsume, Idle
<1>6. CASE ConsumeStep
    BY <1>6, ConsumeStepType
<1>7. CASE ReturnToCaller
    BY <1>7 DEF ReturnToCaller
<1>8. CASE Midnight
    BY <1>8 DEF Midnight
<1>9. CASE UNCHANGED vars
    BY <1>9 DEF vars
<1> QED
    BY <1>1, <1>2, <1>3, <1>4, <1>5, <1>6, <1>7, <1>8, <1>9 DEF Operation

LEMMA TypeInit == Init => TypeOK
BY EmptySeq, DatesAssumption DEF Init, TypeOK

\* Every reachable state of the pantry is well formed; in particular the list of
\* ingredients left to take is non-empty exactly while the loop runs.
THEOREM TypeCorrect == Spec => []TypeOK
BY TypeInit, TypeStep, NextIsOperation, PTL DEF Spec

LEMMA OverdrawnStep == TypeOK /\ NeverOverdrawn /\ [Operation]_vars => NeverOverdrawn'
<1> SUFFICES ASSUME TypeOK, NeverOverdrawn, [Operation]_vars PROVE NeverOverdrawn'
    OBVIOUS
<1> USE DEF NeverOverdrawn, TypeOK
<1>1. ASSUME NEW i \in Ids, NEW q \in Nat, NEW d \in Nat \cup {Never},
             AddIngredient(i, q, d)
      PROVE  NeverOverdrawn'
    BY <1>1 DEF AddIngredient
<1>2. ASSUME NEW i \in Ids, NEW amount \in Int, RestockIngredient(i, amount)
      PROVE  NeverOverdrawn'
    BY <1>2 DEF RestockIngredient
<1>3. CASE Take
    <2>1. Head(basket) \in Ids /\ quantity[Head(basket)] >= Required[Head(basket)]
        BY <1>3, HeadTailProperties DEF Take, IsAvailable
    <2>2. Required[Head(basket)] \in Nat /\ quantity[Head(basket)] \in Int
        BY <2>1, RequiredAssumption
    <2>3. quantity' = [quantity EXCEPT ![Head(basket)] =
                           quantity[Head(basket)] - Required[Head(basket)]]
        BY <1>3 DEF Take
    <2>4. quantity[Head(basket)] - Required[Head(basket)] >= 0
        BY <2>1, <2>2
    <2> QED
        BY <2>1, <2>3, <2>4
<1>4. CASE UNCHANGED quantity
    BY <1>4
<1> QED
    BY <1>1, <1>2, <1>3, <1>4 DEF Operation, vars, PurgeExpiredIngredients, ClearAlerts,
       BeginConsume, ConsumeStep, MissingThrows, ExpiredThrows, FoundFresh,
       UnavailableThrows, Warn, ReturnToCaller, Midnight

\* No ingredient is ever taken below zero: Ingredient.consume compares before it
\* subtracts, and nothing else lowers a quantity.
THEOREM StockNeverOverdrawn == Spec => []NeverOverdrawn
<1>1. Init => NeverOverdrawn
    BY DEF Init, NeverOverdrawn
<1> QED
    BY <1>1, TypeInit, TypeStep, OverdrawnStep, NextIsOperation, PTL DEF Spec

--------------------------------------------------------------------------------
(* How long a call to consumeIngredients may last *)

\* The steps a call has left at most: three for each ingredient still to take, and the
\* return to the caller.
StepsLeft == IF Idle THEN 0
             ELSE IF at = "take" THEN 3 * Len(basket)
             ELSE IF at = "warn" THEN 3 * Len(basket) - 1
             ELSE 3 * Len(basket) + 1

LEMMA StepsLeftIsNatural == TypeOK => StepsLeft \in Nat /\ (StepsLeft = 0 <=> Idle)
<1> SUFFICES ASSUME TypeOK PROVE StepsLeft \in Nat /\ (StepsLeft = 0 <=> Idle)
    OBVIOUS
<1>1. Len(basket) \in Nat /\ (basket # <<>> => Len(basket) > 0)
    BY LenProperties, EmptySeq DEF TypeOK
<1> QED
    BY <1>1 DEF StepsLeft, Idle, TypeOK

LEMMA CallShortens ==
    TypeOK /\ (ConsumeStep \/ ReturnToCaller) => StepsLeft' < StepsLeft
<1>1. ASSUME TypeOK, ConsumeStep PROVE StepsLeft' < StepsLeft
    <2>1. /\ at \in {"check", "take", "warn"} /\ basket # <<>> /\ basket \in Seq(Ids)
        BY <1>1 DEF ConsumeStep, MissingThrows, ExpiredThrows, FoundFresh, Take,
           UnavailableThrows, Warn, TypeOK
    <2>2. /\ Len(basket) \in Nat /\ Len(basket) > 0
          /\ Tail(basket) \in Seq(Ids) /\ Len(Tail(basket)) = Len(basket) - 1
        BY <2>1, LenProperties, HeadTailProperties, EmptySeq
    <2>3. CASE MissingThrows \/ ExpiredThrows \/ UnavailableThrows
        <3>1. at' = "threw" /\ Len(basket') = 0
            BY <2>3, EmptySeq DEF MissingThrows, ExpiredThrows, UnavailableThrows, Throw
        <3> QED
            BY <2>1, <2>2, <3>1 DEF StepsLeft, Idle
    <2>4. CASE FoundFresh \/ Take
        BY <2>1, <2>2, <2>4 DEF FoundFresh, Take, StepsLeft, Idle
    <2>5. CASE Warn
        <3>1. /\ at = "warn" /\ at' \in {"check", "returned"}
              /\ Len(basket') = Len(basket) - 1
            BY <2>2, <2>5 DEF Warn
        <3> QED
            BY <2>2, <3>1 DEF StepsLeft, Idle
    <2> QED
        BY <1>1, <2>3, <2>4, <2>5 DEF ConsumeStep
<1>2. ASSUME TypeOK, ReturnToCaller PROVE StepsLeft' < StepsLeft
    <2>1. at' = "idle" /\ ~Idle
        BY <1>2 DEF ReturnToCaller, Idle
    <2> QED
        BY <1>2, <2>1, StepsLeftIsNatural DEF StepsLeft, Idle
<1> QED
    BY <1>1, <1>2

\* Every call to consumeIngredients is finite: whatever the pantry holds and however often
\* the day ends meanwhile, each step of its loop leaves fewer to come, and nothing else
\* happens to the pantry before the caller is back.
THEOREM CallsRunDown ==
    Spec => /\ [](StepsLeft \in Nat /\ (StepsLeft = 0 <=> Idle))
            /\ [][~Idle => \/ StepsLeft' < StepsLeft
                           \/ (Midnight /\ StepsLeft' = StepsLeft)]_vars
<1>1. TypeOK /\ [Next]_vars
      => [~Idle => StepsLeft' < StepsLeft \/ (Midnight /\ StepsLeft' = StepsLeft)]_vars
    <2> SUFFICES ASSUME TypeOK, Next, ~Idle
                 PROVE  StepsLeft' < StepsLeft \/ (Midnight /\ StepsLeft' = StepsLeft)
        OBVIOUS
    <2>1. ConsumeStep \/ ReturnToCaller \/ Midnight
        BY DEF Next, AddIngredient, RestockIngredient, PurgeExpiredIngredients, ClearAlerts,
           BeginConsume
    <2>2. Midnight => StepsLeft' = StepsLeft
        BY DEF Midnight, StepsLeft, Idle
    <2> QED
        BY <2>1, <2>2, CallShortens
<1> QED
    BY <1>1, TypeCorrect, StepsLeftIsNatural, PTL DEF Spec

--------------------------------------------------------------------------------
(* The audit *)

LEMMA AuditStepIsStep == AuditNext => Next
<1> SUFFICES ASSUME AuditNext PROVE Next
    OBVIOUS
<1>1. CASE Saving
    BY <1>1 DEF Saving, Next
<1>2. CASE Restocking
    BY <1>2 DEF Restocking, Next
<1>3. CASE Calling
    BY <1>3 DEF Calling, Next
<1>4. CASE Stopping \/ Looking \/ Taking \/ Warning
    BY <1>4 DEF Stopping, Looking, Taking, Warning, ConsumeStep, Next
<1>5. CASE Purging \/ Dismissing \/ Returning \/ Dawning
    BY <1>5 DEF Purging, Dismissing, Returning, Dawning, Next
<1> QED
    BY <1>1, <1>2, <1>3, <1>4, <1>5 DEF AuditNext

\* The history variables keep their types.
LEMMA AuditTypeStep == AuditTypeOK /\ [AuditNext]_auditVars => AuditTypeOK'
<1> SUFFICES ASSUME AuditTypeOK, [AuditNext]_auditVars PROVE AuditTypeOK'
    OBVIOUS
<1>1. TypeOK'
    <2>1. [Next]_vars
        BY AuditStepIsStep DEF auditVars
    <2> QED
        BY <2>1, TypeStep, NextIsOperation DEF AuditTypeOK
<1> USE <1>1 DEF AuditTypeOK
<1>2. CASE Calling
    <2>1. PICK l \in Baskets : /\ list' = l /\ before' = quantity /\ excused' = excused
                                /\ entry' = 1 /\ assured' = HasAllIngredients(l)
        BY <1>2 DEF Calling
    <2>2. assured' \in BOOLEAN
        BY <2>1 DEF HasAllIngredients
    <2> QED
        BY <2>1, <2>2, BasketsAssumption DEF TypeOK
<1>3. CASE Saving \/ Restocking
    BY <1>3 DEF Saving, Restocking
<1>4. CASE Dismissing
    BY <1>4 DEF Dismissing, TypeOK
<1>5. CASE Taking
    BY <1>5 DEF Taking
<1>6. CASE Warning
    BY <1>6 DEF Warning
<1>7. CASE UNCHANGED history
    BY <1>7 DEF history
<1> QED
    BY <1>2, <1>3, <1>4, <1>5, <1>6, <1>7
    DEF AuditNext, auditVars, Purging, Stopping, Looking, Returning, Dawning

LEMMA AuditTypeInit == AuditInit => AuditTypeOK
<1> SUFFICES ASSUME AuditInit PROVE AuditTypeOK
    OBVIOUS
<1>1. TypeOK
    BY TypeInit DEF AuditInit
<1>2. list \in Seq(Ids) /\ entry \in Nat \ {0} /\ excused \subseteq Ids
    BY EmptySeq DEF AuditInit
<1>3. before \in [Ids -> Int] /\ assured \in BOOLEAN
    BY <1>1 DEF AuditInit, TypeOK
<1> QED
    BY <1>1, <1>2, <1>3 DEF AuditTypeOK

--------------------------------------------------------------------------------
(* What a call takes *)

\* One more entry of the list is one more portion of the ingredient it names,
\* and of no other.
LEMMA PortionsNext ==
    ASSUME NEW i, NEW n \in Nat
    PROVE  /\ Portions(i, n) \in Nat
           /\ Portions(i, 0) = 0
           /\ Portions(i, n + 1) = Portions(i, n) + IF list[n + 1] = i THEN 1 ELSE 0
<1> DEFINE P(m) == {k \in 1 .. m : list[k] = i}
<1>1. IsFiniteSet(P(n)) /\ Cardinality(P(n)) \in Nat
    <2>1. IsFiniteSet(1 .. n)
        BY FS_Interval
    <2>2. P(n) \in SUBSET (1 .. n)
        OBVIOUS
    <2>3. IsFiniteSet(P(n))
        BY <2>1, <2>2, FS_Subset
    <2> QED
        BY <2>3, FS_CardinalityType
<1>2. P(0) = {}
    OBVIOUS
<1>3. CASE list[n + 1] = i
    <2>1. P(n + 1) = P(n) \cup {n + 1}
        BY <1>3
    <2>2. n + 1 \notin P(n)
        OBVIOUS
    <2>3. Cardinality(P(n + 1)) = Cardinality(P(n)) + 1
        BY <1>1, <2>1, <2>2, FS_AddElement
    <2> QED
        BY <1>1, <1>2, <1>3, <2>3, FS_EmptySet DEF Portions
<1>4. CASE list[n + 1] # i
    <2>1. P(n + 1) = P(n)
        BY <1>4
    <2> QED
        BY <1>1, <1>2, <1>4, <2>1, FS_EmptySet DEF Portions
<1> QED
    BY <1>3, <1>4

\* How many entries of the list the loop has been through.
Done == Len(list) - Len(basket)

\* How many of them have been taken out of the pantry.
Taken == IF at = "warn" THEN Done + 1 ELSE Done

\* Why CallTakesAPrefix is inductive: while the loop runs, what is left to take is
\* the tail of the list, the entry dealt with the first of that tail, and what was
\* taken is the rest of the list, the entry being warned about included.
LoopInv ==
    /\ at \in {"check", "take", "warn"} =>
           /\ Len(basket) <= Len(list)
           /\ entry = Done + 1
           /\ \A k \in 1 .. Len(basket) : basket[k] = list[Done + k]
           /\ LessFirst(Taken)
    /\ CallTakesAPrefix

\* The loop facts in the states where it holds an ingredient.
LEMMA LoopFacts ==
    ASSUME AuditTypeOK, LoopInv, at \in {"check", "take", "warn"}
    PROVE  /\ Head(basket) \in Ids
           /\ Head(basket) = list[Done + 1]
           /\ Done \in Nat /\ Done < Len(list) /\ entry = Done + 1
           /\ Len(Tail(basket)) = Len(basket) - 1
           /\ \A k \in 1 .. Len(Tail(basket)) : Tail(basket)[k] = basket[k + 1]
<1> USE DEF AuditTypeOK, TypeOK
<1>1. basket \in Seq(Ids) /\ basket # <<>> /\ list \in Seq(Ids)
    OBVIOUS
<1>2. Len(basket) \in Nat \ {0} /\ Len(list) \in Nat
    BY <1>1, EmptySeq, LenProperties
<1>3. /\ Head(basket) \in Ids
      /\ Head(basket) = basket[1]
      /\ Len(Tail(basket)) = Len(basket) - 1
      /\ \A k \in 1 .. Len(Tail(basket)) : Tail(basket)[k] = basket[k + 1]
    <2>1. /\ Head(basket) \in Ids
          /\ Len(Tail(basket)) = Len(basket) - 1
          /\ \A k \in 1 .. Len(Tail(basket)) : Tail(basket)[k] = basket[k + 1]
        BY ONLY <1>1, HeadTailProperties
    <2> QED
        BY <1>1, <2>1
<1>4. /\ Len(basket) <= Len(list)
      /\ entry = Done + 1
      /\ \A k \in 1 .. Len(basket) : basket[k] = list[Done + k]
    BY DEF LoopInv
<1>5. Done \in Nat /\ Done < Len(list) /\ 1 \in 1 .. Len(basket)
    BY ONLY <1>2, <1>4 DEF Done
<1>6. basket[1] = list[Done + 1]
    BY ONLY <1>4, <1>5
<1> QED
    BY ONLY <1>3, <1>4, <1>5, <1>6

\* What was taken depends on the quantities and the call alone.
LEMMA SameTaken ==
    ASSUME UNCHANGED <<quantity, before, list>>, NEW n \in Int, LessFirst(n)
    PROVE  LessFirst(n)'
BY DEF LessFirst, Portions

LEMMA TakenNext ==
    ASSUME NEW n \in Int, Taken' = n, LessFirst(n)'
    PROVE  LessFirst(Taken)'
BY DEF LessFirst

LEMMA OneMore == \A a, b \in Int : a * (b + 1) = a * b + a
OBVIOUS

\* Ingredient.consume adds the entry being taken to what was taken.
LEMMA TakeOne ==
    ASSUME AuditTypeOK, LoopInv, Take, UNCHANGED <<list, before>>,
           NEW n \in Nat, n = Done
    PROVE  LessFirst(n + 1)'
<1> USE DEF AuditTypeOK, TypeOK
<1> DEFINE h == Head(basket)
<1>1. h \in Ids /\ h = list[n + 1] /\ LessFirst(n)
    BY LoopFacts DEF Take, LoopInv, Taken
<1>2. quantity' = [quantity EXCEPT ![h] = quantity[h] - Required[h]]
    BY DEF Take
<1> HIDE DEF h
<1>3. ASSUME NEW i \in Ids
      PROVE  quantity'[i] = before[i] - Required[i] * Portions(i, n + 1)
    <2>1. /\ Portions(i, n) \in Nat
          /\ Portions(i, n + 1) = Portions(i, n) + IF h = i THEN 1 ELSE 0
        BY <1>1, PortionsNext
    <2>2. /\ quantity[i] = before[i] - Required[i] * Portions(i, n)
          /\ Required[i] \in Int /\ before[i] \in Int
        BY <1>1, RequiredAssumption DEF LessFirst
    <2>3. CASE h = i
        <3>1. quantity'[i] = quantity[i] - Required[i]
            BY <1>1, <1>2, <2>3
        <3>2. Required[i] * (Portions(i, n) + 1) = Required[i] * Portions(i, n) + Required[i]
            <4>1. Portions(i, n) \in Int
                BY <2>1
            <4> QED
                BY <2>2, <4>1, OneMore, Zenon
        <3>3. Required[i] * Portions(i, n) \in Int
            BY <2>1, <2>2
        <3> QED
            BY <2>1, <2>2, <2>3, <3>1, <3>2, <3>3
    <2>4. CASE h # i
        <3>1. quantity'[i] = quantity[i]
            BY <1>1, <1>2, <2>4
        <3> QED
            BY <2>1, <2>2, <2>4, <3>1
    <2> QED
        BY <2>3, <2>4
<1> QED
    BY <1>3 DEF LessFirst, Portions

LEMMA LoopStep == AuditTypeOK /\ LoopInv /\ [AuditNext]_auditVars => LoopInv'
<1> SUFFICES ASSUME AuditTypeOK, LoopInv, [AuditNext]_auditVars PROVE LoopInv'
    OBVIOUS
<1>1. ASSUME at' = "idle" PROVE LoopInv'
    BY <1>1 DEF LoopInv, CallTakesAPrefix
<1>2. CASE Calling
    <2>1. PICK l \in Baskets :
              /\ basket' = l /\ list' = l
              /\ before' = quantity /\ quantity' = quantity
              /\ entry' = 1
              /\ at' = IF l = <<>> THEN "returned" ELSE "check"
        BY <1>2 DEF Calling, BeginConsume
    <2>2. /\ Len(l) \in Nat /\ Done' = 0 /\ Taken' = 0
          /\ l = <<>> => Len(l) = 0
        BY <2>1, BasketsAssumption DEF Done, Taken
    <2>3. \A i : Portions(i, 0)' = 0
        BY FS_EmptySet DEF Portions
    <2>4. LessFirst(0)'
        BY <2>1, <2>3, RequiredAssumption DEF LessFirst, AuditTypeOK, TypeOK
    <2>5. LessFirst(Taken)' /\ (l = <<>> => LessFirst(Len(list))')
        BY <2>1, <2>2, <2>4 DEF LessFirst
    <2> QED
        BY <2>1, <2>2, <2>5 DEF LoopInv, CallTakesAPrefix
<1>3. CASE Stopping
    <2>1. /\ at \in {"check", "take"} /\ at' = "threw"
          /\ UNCHANGED <<quantity, before, list, entry>>
        BY <1>3 DEF Stopping, MissingThrows, ExpiredThrows, UnavailableThrows, Throw, history
    <2>2. PICK n \in Nat :
              /\ n < Len(list) /\ entry = n + 1
              /\ Head(basket) = list[n + 1] /\ LessFirst(n)
        BY <2>1, LoopFacts DEF LoopInv, Taken
    <2>3. entry \in DOMAIN list /\ entry - 1 = n
        BY <2>2, LenProperties DEF AuditTypeOK
    <2>4. LessFirst(entry - 1)'
        <3>1. LessFirst(n)' /\ (entry - 1)' = n
            BY <2>1, <2>2, <2>3, SameTaken
        <3> QED
            BY <3>1 DEF LessFirst
    <2>5. Refused(list[entry])'
        BY <1>3, <2>1, <2>2
        DEF Stopping, MissingThrows, ExpiredThrows, UnavailableThrows, Refused, IsAvailable,
            IsExpired
    <2> QED
        BY <2>1, <2>3, <2>4, <2>5 DEF LoopInv, CallTakesAPrefix
<1>4. CASE Looking
    <2>1. /\ at = "check" /\ at' = "take"
          /\ UNCHANGED <<quantity, before, list, basket, entry>>
        BY <1>4 DEF Looking, FoundFresh, history
    <2>2. PICK n \in Nat : n = Done /\ LessFirst(n) /\ entry = n + 1
        BY <2>1, LoopFacts DEF LoopInv, Taken
    <2>3. Done' = n /\ Taken' = n
        BY <2>1, <2>2 DEF Done, Taken
    <2>4. LessFirst(Taken)'
        BY <2>1, <2>2, <2>3, SameTaken, TakenNext
    <2> QED
        BY <2>1, <2>2, <2>3, <2>4 DEF LoopInv, CallTakesAPrefix
<1>5. CASE Taking
    <2>1. /\ at = "take" /\ at' = "warn" /\ Take
          /\ UNCHANGED <<list, before, basket, entry>>
        BY <1>5 DEF Taking, Take
    <2>2. PICK n \in Nat : n = Done /\ entry = n + 1
        BY <2>1, LoopFacts
    <2>3. Done' = n /\ Taken' = n + 1
        BY <2>1, <2>2 DEF Done, Taken
    <2>4. LessFirst(Taken)'
        <3>1. LessFirst(n + 1)'
            BY <2>1, <2>2, TakeOne
        <3> QED
            BY <2>3, <3>1, TakenNext
    <2> QED
        BY <2>1, <2>2, <2>3, <2>4 DEF LoopInv, CallTakesAPrefix
<1>6. CASE Warning
    <2>1. /\ at = "warn" /\ UNCHANGED <<quantity, list, before>>
          /\ basket' = Tail(basket) /\ entry' = entry + 1
          /\ at' = IF Tail(basket) = <<>> THEN "returned" ELSE "check"
        BY <1>6 DEF Warning, Warn
    <2>2. PICK n \in Nat :
              /\ n = Done /\ n < Len(list) /\ LessFirst(n + 1) /\ entry = n + 1
              /\ Len(basket') = Len(basket) - 1
              /\ \A k \in 1 .. Len(basket') : basket'[k] = basket[k + 1]
        BY <2>1, LoopFacts DEF LoopInv, Taken
    <2>3. Len(basket) \in Nat /\ Len(list) \in Nat
        BY DEF AuditTypeOK, TypeOK
    <2>4. Done' = n + 1 /\ Taken' = n + 1 /\ Len(basket') <= Len(list')
        <3>1. Done' = Len(list) - (Len(basket) - 1) /\ n = Len(list) - Len(basket)
            BY <2>1, <2>2 DEF Done
        <3>2. Done' = n + 1 /\ Len(basket') <= Len(list')
            BY <2>1, <2>2, <2>3, <3>1
        <3> QED
            BY <2>1, <3>2 DEF Taken
    <2>5. ASSUME NEW k \in 1 .. Len(basket') PROVE basket'[k] = list'[Done' + k]
        <3>1. k + 1 \in 1 .. Len(basket) /\ n + (k + 1) = (n + 1) + k
            BY <2>2, <2>3
        <3>2. basket[k + 1] = list[n + (k + 1)]
            BY <2>1, <2>2, <3>1 DEF LoopInv
        <3> QED
            BY <2>1, <2>2, <2>4, <3>1, <3>2
    <2>6. LessFirst(n + 1)'
        BY <2>1, <2>2, SameTaken
    <2>7. LessFirst(Taken)'
        BY <2>4, <2>6, TakenNext
    <2>8. Tail(basket) = <<>> => LessFirst(Len(list))'
        <3> SUFFICES ASSUME Tail(basket) = <<>> PROVE LessFirst(Len(list))'
            OBVIOUS
        <3>1. n + 1 = Len(list')
            <4>1. Len(basket') = 0
                BY <2>1
            <4>2. Len(basket) = 1
                BY <2>2, <2>3, <4>1
            <4>3. n = Len(list) - Len(basket)
                BY <2>2 DEF Done
            <4> QED
                BY <2>1, <2>3, <4>2, <4>3
        <3> QED
            BY <2>6, <3>1 DEF LessFirst
    <2>9. entry' = Done' + 1
        BY <2>1, <2>2, <2>4
    <2> QED
        BY <2>1, <2>4, <2>5, <2>7, <2>8, <2>9 DEF LoopInv, CallTakesAPrefix
<1>7. CASE Saving \/ Restocking \/ Purging \/ Dismissing \/ Returning
    BY <1>1, <1>7 DEF Saving, Restocking, Purging, Dismissing, Returning, AddIngredient,
       RestockIngredient, PurgeExpiredIngredients, ClearAlerts, ReturnToCaller, Idle
<1>8. CASE Dawning \/ UNCHANGED auditVars
    <2>1. /\ UNCHANGED <<at, stored, quantity, expiry, list, before, basket, entry>>
          /\ today' >= today /\ today' \in Int
        BY <1>8 DEF Dawning, Midnight, auditVars, vars, history, AuditTypeOK, TypeOK
    <2>2. \A n \in Int : LessFirst(n) => LessFirst(n)'
        BY <2>1, SameTaken
    <2>3. Done' = Done /\ Len(list) \in Nat /\ Len(basket) \in Nat
        BY <2>1 DEF Done, AuditTypeOK, TypeOK
    <2>4. /\ at \in {"check", "take", "warn"} => LessFirst(Taken)'
          /\ at = "returned" => LessFirst(Len(list))'
        <3>1. PICK n \in Int, m \in Int : n = Taken /\ m = Len(list)
            <4>1. Taken \in Int /\ Len(list) \in Int
                BY <2>3 DEF Taken, Done
            <4> QED
                BY <4>1
        <3>2. Taken' = n /\ Len(list)' = m
            BY <2>1, <2>3, <3>1 DEF Taken
        <3>3. /\ at \in {"check", "take", "warn"} => LessFirst(n)
              /\ at = "returned" => LessFirst(m)
            BY <3>1 DEF LoopInv, CallTakesAPrefix
        <3>4. /\ at \in {"check", "take", "warn"} => LessFirst(n)'
              /\ at = "returned" => LessFirst(m)'
            BY <2>2, <3>3
        <3> QED
            BY <3>2, <3>4 DEF LessFirst
    <2>5. ASSUME at = "threw"
          PROVE  (entry \in DOMAIN list /\ LessFirst(entry - 1) /\ Refused(list[entry]))'
        <3>1. PICK e \in Int : e = entry
            BY DEF AuditTypeOK
        <3>2. entry \in DOMAIN list /\ LessFirst(e - 1) /\ Refused(list[e])
            BY <2>5, <3>1 DEF LoopInv, CallTakesAPrefix
        <3>3. LessFirst(e - 1)' /\ (entry - 1)' = e - 1
            BY <2>1, <2>2, <3>1, <3>2
        <3>4. LessFirst(entry - 1)'
            BY <3>3 DEF LessFirst
        <3>5. PICK i \in Ids : i = list[e]
            BY <3>1, <3>2, ElementOfSeq, LenProperties DEF AuditTypeOK
        <3>6. IsExpired(list[e]) => IsExpired(list[e])'
            <4>1. /\ IsExpired(list[e]) <=> expiry[i] # Never /\ today > expiry[i]
                  /\ IsExpired(list[e])' <=> expiry[i] # Never /\ today' > expiry[i]
                BY <2>1, <3>5 DEF IsExpired
            <4>2. expiry[i] \in Nat \cup {Never} /\ today \in Nat /\ today' \in Int
                BY <2>1 DEF AuditTypeOK, TypeOK
            <4> QED
                BY <2>1, <4>1, <4>2
        <3>7. Refused(list[entry])'
            BY <2>1, <3>1, <3>2, <3>6 DEF Refused, IsAvailable
        <3> QED
            BY <2>1, <3>2, <3>4, <3>7
    <2> QED
        BY <2>1, <2>2, <2>3, <2>4, <2>5 DEF LoopInv, CallTakesAPrefix
<1> QED
    BY <1>2, <1>3, <1>4, <1>5, <1>6, <1>7, <1>8 DEF AuditNext

LEMMA LoopInit == AuditInit => LoopInv
BY DEF AuditInit, Init, LoopInv, CallTakesAPrefix

\* A call that returns took one portion per entry of the list; one that threw took
\* exactly the entries in front of the one it failed at, which is an entry that could
\* not be had: nothing was put back and nothing of the failing entry taken.
THEOREM CallsTakePrefixes == AuditSpec => []CallTakesAPrefix
<1>1. LoopInv => CallTakesAPrefix
    BY DEF LoopInv
<1> QED
    BY <1>1, AuditTypeInit, AuditTypeStep, LoopInit, LoopStep, PTL DEF AuditSpec

--------------------------------------------------------------------------------
(* The answer of hasAllIngredients *)

\* Why CheckedCallsSucceed is inductive: while a call runs, a yes still means that
\* every ingredient is stored and had its portion when the call began.
AssuredInv ==
    /\ at \in {"check", "take", "warn"} /\ assured =>
           \A k \in DOMAIN list : list[k] \in stored /\ before[list[k]] >= Required[list[k]]
    /\ CheckedCallsSucceed

\* The first entry for an ingredient finds it as the call found it.
LEMMA FirstPortion ==
    ASSUME AuditTypeOK, LoopInv, at \in {"check", "take"}, NoRepeats(list)
    PROVE  quantity[Head(basket)] = before[Head(basket)]
<1> USE DEF AuditTypeOK, TypeOK
<1>1. PICK n \in Nat, h \in Ids : n = Done /\ h = Head(basket)
    BY LoopFacts
<1>2. h = list[n + 1] /\ n < Len(list) /\ Len(list) \in Nat /\ LessFirst(n)
    BY <1>1, LoopFacts, LenProperties DEF LoopInv, Taken
<1>3. {k \in 1 .. n : list[k] = h} = {}
    <2> SUFFICES ASSUME NEW k \in 1 .. n, list[k] = h PROVE FALSE
        OBVIOUS
    <2>0. DOMAIN list = 1 .. Len(list)
        BY LenProperties
    <2>1. k \in DOMAIN list /\ n + 1 \in DOMAIN list /\ k # n + 1
        BY ONLY n \in Nat, k \in 1 .. n, <1>2, <2>0
    <2> QED
        BY <1>2, <2>1 DEF NoRepeats
<1>4. Portions(h, n) = 0
    BY <1>3, FS_EmptySet DEF Portions
<1>5. quantity[h] = before[h] - Required[h] * 0
    BY <1>2, <1>4 DEF LessFirst
<1> QED
    BY <1>1, <1>5, RequiredAssumption

LEMMA AssuredStep == AuditTypeOK /\ LoopInv /\ AssuredInv /\ [AuditNext]_auditVars => AssuredInv'
<1> SUFFICES ASSUME AuditTypeOK, LoopInv, AssuredInv, [AuditNext]_auditVars
             PROVE  AssuredInv'
    OBVIOUS
<1> USE DEF AuditTypeOK, TypeOK
<1>1. ASSUME at' = "idle" PROVE AssuredInv'
    BY <1>1 DEF AssuredInv, CheckedCallsSucceed
<1>2. CASE Calling
    BY <1>2 DEF Calling, BeginConsume, AssuredInv, CheckedCallsSucceed, HasAllIngredients,
       IsAvailable
<1>3. CASE Stopping
    <2>1. UNCHANGED <<expiry, today, list, assured>>
        BY <1>3 DEF Stopping, MissingThrows, ExpiredThrows, UnavailableThrows, history
    <2>2. ASSUME assured, NoRepeats(list) PROVE \E k \in DOMAIN list : IsExpired(list[k])
        <3>1. PICK k \in DOMAIN list : Head(basket) = list[k]
            <4>1. /\ Head(basket) = list[Done + 1]
                  /\ Done \in Nat /\ Done < Len(list)
                BY <1>3, LoopFacts
                DEF Stopping, MissingThrows, ExpiredThrows, UnavailableThrows
            <4> QED
                BY <4>1, LenProperties
        <3>2. list[k] \in stored /\ before[list[k]] >= Required[list[k]]
            BY <1>3, <2>2
            DEF AssuredInv, Stopping, MissingThrows, ExpiredThrows, UnavailableThrows
        <3>3. CASE MissingThrows
            BY <3>1, <3>2, <3>3 DEF MissingThrows
        <3>4. CASE ExpiredThrows
            BY <3>1, <3>4 DEF ExpiredThrows
        <3>5. CASE UnavailableThrows
            <4>1. quantity[list[k]] = before[list[k]]
                BY <2>2, <3>1, <3>5, FirstPortion DEF UnavailableThrows
            <4> QED
                BY <3>1, <3>2, <3>5, <4>1 DEF UnavailableThrows, IsAvailable
        <3> QED
            BY <1>3, <3>3, <3>4, <3>5 DEF Stopping
    <2>3. at' = "threw"
        BY <1>3 DEF Stopping, MissingThrows, ExpiredThrows, UnavailableThrows, Throw
    <2> QED
        BY <2>1, <2>2, <2>3 DEF AssuredInv, CheckedCallsSucceed, NoRepeats, IsExpired
<1>4. CASE Looking \/ Taking \/ Warning
    <2>1. CASE Looking
        BY <2>1 DEF Looking, FoundFresh, history, AssuredInv, CheckedCallsSucceed
    <2>2. CASE Taking
        BY <2>2 DEF Taking, Take, history, AssuredInv, CheckedCallsSucceed
    <2>3. CASE Warning
        BY <2>3 DEF Warning, Warn, history, AssuredInv, CheckedCallsSucceed
    <2> QED
        BY <1>4, <2>1, <2>2, <2>3
<1>5. CASE Saving \/ Restocking \/ Purging \/ Dismissing \/ Returning
    BY <1>1, <1>5 DEF Saving, Restocking, Purging, Dismissing, Returning, AddIngredient,
       RestockIngredient, PurgeExpiredIngredients, ClearAlerts, ReturnToCaller, Idle
<1>6. CASE Dawning \/ UNCHANGED auditVars
    <2>1. /\ UNCHANGED <<at, stored, expiry, list, before, assured>>
          /\ today' \in Nat /\ today' >= today
        BY <1>6 DEF Dawning, Midnight, auditVars, vars, history
    <2>2. \A k \in DOMAIN list : IsExpired(list[k]) => IsExpired(list[k])'
        BY <2>1 DEF IsExpired
    <2> QED
        BY <2>1, <2>2 DEF AssuredInv, CheckedCallsSucceed, NoRepeats
<1> QED
    BY <1>2, <1>3, <1>4, <1>5, <1>6 DEF AuditNext

\* A call made after hasAllIngredients said yes to a list without repetitions fails
\* only if something on the list has gone bad by then.
THEOREM AssuredCallsSucceed == AuditSpec => []CheckedCallsSucceed
<1>1. AuditInit => AssuredInv
    BY DEF AuditInit, Init, AssuredInv, CheckedCallsSucceed
<1>2. AssuredInv => CheckedCallsSucceed
    BY DEF AssuredInv
<1> QED
    BY <1>1, <1>2, AuditTypeInit, AuditTypeStep, LoopInit, LoopStep, AssuredStep, PTL
    DEF AuditSpec

--------------------------------------------------------------------------------
(* No shortage is silent *)

\* Why ShortageWarned is inductive: while a call runs, the shortage it has just
\* caused and not yet announced is that of the ingredient at the head of the loop.
WarningInv ==
    \A i \in stored : Short(i) =>
        \/ Warned(i)
        \/ i \in excused
        \/ at = "warn" /\ i = Head(basket)

\* An alert once in the list stays there while alerts are only appended.
LEMMA AppendKeepsAlerts ==
    ASSUME NEW s \in Seq(Ids), NEW i \in Ids
    PROVE  /\ \A k \in DOMAIN s : k \in DOMAIN Append(s, i) /\ Append(s, i)[k] = s[k]
           /\ \E k \in DOMAIN Append(s, i) : Append(s, i)[k] = i
<1>1. /\ Len(Append(s, i)) = Len(s) + 1
      /\ \A k \in 1 .. Len(s) : Append(s, i)[k] = s[k]
      /\ Append(s, i)[Len(s) + 1] = i
      /\ Append(s, i) \in Seq(Ids)
    BY AppendProperties
<1>2. Len(s) \in Nat /\ DOMAIN s = 1 .. Len(s) /\ DOMAIN Append(s, i) = 1 .. Len(s) + 1
    BY <1>1, LenProperties
<1> QED
    BY <1>1, <1>2

\* checkThresholds forgets no alert and announces the ingredient if it is short.
LEMMA ThresholdsAlert ==
    ASSUME alerts \in Seq(Ids), NEW i \in Ids, NEW q, CheckThresholds(i, q)
    PROVE  /\ \A j : Warned(j) => Warned(j)'
           /\ IsLow(i, q) => Warned(i)'
<1>1. CASE IsExpired(i) \/ IsLow(i, q)
    BY <1>1, AppendKeepsAlerts DEF CheckThresholds, Warned
<1>2. CASE ~(IsExpired(i) \/ IsLow(i, q))
    BY <1>2 DEF CheckThresholds, Warned
<1> QED
    BY <1>1, <1>2

LEMMA WarningStep == AuditTypeOK /\ LoopInv /\ WarningInv /\ [AuditNext]_auditVars => WarningInv'
<1> SUFFICES ASSUME AuditTypeOK, LoopInv, WarningInv, [AuditNext]_auditVars
             PROVE  WarningInv'
    OBVIOUS
<1> USE DEF AuditTypeOK, TypeOK
<1>1. CASE Saving
    <2>1. PICK i \in Ids, q \in Opening, d \in BestBefore :
              AddIngredient(i, q, d) /\ excused' = excused \cup {i}
        BY <1>1 DEF Saving
    <2>2. \A j \in Ids \ {i} : Short(j)' => Short(j)
        BY <2>1 DEF AddIngredient, Short, IsLow
    <2> QED
        BY <2>1, <2>2 DEF AddIngredient, WarningInv, Warned, Idle
<1>2. CASE Restocking
    <2>1. PICK i \in Ids, amount \in Amounts :
              RestockIngredient(i, amount) /\ excused' = excused \ {i}
        BY <1>2 DEF Restocking
    <2>2. \A j \in Ids \ {i} : Short(j)' => Short(j)
        BY <2>1 DEF RestockIngredient, Short, IsLow
    <2>3. quantity'[i] = quantity[i] + amount /\ CheckThresholds(i, quantity'[i])
        BY <2>1 DEF RestockIngredient
    <2>4. (\A j : Warned(j) => Warned(j)') /\ (Short(i)' => Warned(i)')
        BY <2>3, ThresholdsAlert DEF Short, IsLow
    <2> QED
        BY <2>1, <2>2, <2>4 DEF RestockIngredient, WarningInv, Idle
<1>3. CASE Purging \/ Dismissing
    BY <1>3 DEF Purging, Dismissing, PurgeExpiredIngredients, ClearAlerts, history,
       WarningInv, Warned, Short, IsLow, Idle
<1>4. CASE Taking
    <2>1. /\ Take /\ excused' = excused \ {Head(basket)}
          /\ at' = "warn" /\ UNCHANGED <<stored, alerts, basket>>
        BY <1>4 DEF Taking, Take
    <2>2. \A j \in Ids : j # Head(basket) => (Short(j)' => Short(j))
        BY <2>1 DEF Take, Short, IsLow
    <2> QED
        BY <2>1, <2>2 DEF WarningInv, Warned, Take
<1>5. CASE Warning
    <2>1. /\ at = "warn" /\ CheckThresholds(Head(basket), quantity[Head(basket)])
          /\ UNCHANGED <<stored, quantity, excused>>
        BY <1>5 DEF Warning, Warn, history
    <2>2. PICK h \in Ids : h = Head(basket)
        BY <2>1, LoopFacts
    <2>3. (\A j : Warned(j) => Warned(j)') /\ (Short(h) => Warned(h)')
        BY <2>1, <2>2, ThresholdsAlert DEF Short
    <2>4. ASSUME NEW j \in stored, Short(j) PROVE Warned(j)' \/ j \in excused
        BY <2>2, <2>3, <2>4 DEF WarningInv
    <2>5. \A j : Short(j)' => Short(j)
        BY <2>1 DEF Short, IsLow
    <2> QED
        BY <2>1, <2>4, <2>5 DEF WarningInv
<1>6. CASE Stopping
    <2>1. /\ at # "warn" /\ UNCHANGED <<stored, quantity, excused>>
          /\ \A j : Warned(j) => Warned(j)'
        <3>1. CASE MissingThrows \/ UnavailableThrows
            BY <1>6, <3>1 DEF Stopping, MissingThrows, UnavailableThrows, history, Warned
        <3>2. CASE ExpiredThrows
            <4>1. PICK h \in Ids : alerts' = Append(alerts, h)
                BY <3>2, LoopFacts DEF ExpiredThrows
            <4>2. \A k \in DOMAIN alerts : k \in DOMAIN alerts' /\ alerts'[k] = alerts[k]
                BY <4>1, AppendKeepsAlerts
            <4>3. \A j : Warned(j) => Warned(j)'
                BY <4>2 DEF Warned
            <4> QED
                BY <1>6, <3>2, <4>3 DEF Stopping, ExpiredThrows, history
        <3> QED
            BY <1>6, <3>1, <3>2 DEF Stopping
    <2> QED
        BY <2>1 DEF WarningInv, Short, IsLow
<1>7. CASE Calling \/ Looking \/ Returning \/ Dawning \/ UNCHANGED auditVars
    <2>1. UNCHANGED <<stored, quantity, alerts, excused>> /\ (at = "warn" => UNCHANGED <<at, basket>>)
        BY <1>7 DEF Calling, BeginConsume, Looking, FoundFresh, Returning, ReturnToCaller,
           Dawning, Midnight, auditVars, vars, history, Idle
    <2> QED
        BY <2>1 DEF WarningInv, Warned, Short, IsLow
<1> QED
    BY <1>1, <1>2, <1>3, <1>4, <1>5, <1>6, <1>7 DEF AuditNext

\* Between calls every shortage that consuming or restocking caused is in the list
\* of alerts, or was dismissed by the player.
THEOREM ShortagesWarned == AuditSpec => []ShortageWarned
<1>1. AuditInit => WarningInv
    BY DEF AuditInit, Init, WarningInv
<1>2. WarningInv => ShortageWarned
    BY DEF WarningInv, ShortageWarned, Idle
<1> QED
    BY <1>1, <1>2, AuditTypeInit, AuditTypeStep, LoopInit, LoopStep, WarningStep, PTL
    DEF AuditSpec

================================================================================
