----------------------------- MODULE CookingProofs -----------------------------
(* The score arithmetic for every recipe, every decoration and every level. *)
EXTENDS Cooking, TLAPS

LEMMA LargerSmaller ==
    ASSUME NEW a \in Int, NEW b \in Int
    PROVE  /\ Larger(a, b) \in Int /\ Larger(a, b) >= a /\ Larger(a, b) >= b
           /\ Smaller(a, b) \in Int /\ Smaller(a, b) <= a /\ Smaller(a, b) <= b
BY DEF Larger, Smaller

\* The four strategies, each a percentage, and at least 50 from the required skill on.
LEMMA ScoreBounds ==
    ASSUME NEW m \in Methods, NEW r \in SkillLevels, NEW l \in SkillLevels
    PROVE  /\ Score(m, r, l) \in 0 .. 100
           /\ l >= r => Score(m, r, l) >= 50
<1> USE DEF SkillLevels, Larger, Smaller, Gap
<1>1. CASE m = "baking"
    <2>1. Baking(r, l) \in 0 .. 100 /\ (l >= r => Baking(r, l) >= 50)
        BY DEF Baking
    <2> QED
        BY <1>1, <2>1 DEF Score
<1>2. CASE m = "frying"
    <2>1. Frying(r, l) \in 0 .. 100 /\ (l >= r => Frying(r, l) >= 50)
        BY DEF Frying
    <2> QED
        BY <1>2, <2>1 DEF Score
<1>3. CASE m = "grilling"
    <2>1. Grilling(r, l) \in 0 .. 100 /\ (l >= r => Grilling(r, l) >= 50)
        BY DEF Grilling
    <2> QED
        BY <1>3, <2>1 DEF Score
<1>4. CASE m = "steaming"
    <2>1. Steaming(r, l) \in 0 .. 100 /\ (l >= r => Steaming(r, l) >= 50)
        BY DEF Steaming
    <2> QED
        BY <1>4, <2>1 DEF Score
<1> QED
    BY <1>1, <1>2, <1>3, <1>4 DEF Methods

\* One more level never lowers a score.
LEMMA ScoreMonotone ==
    ASSUME NEW m \in Methods, NEW r \in SkillLevels, NEW l \in SkillLevels, l < 10
    PROVE  Score(m, r, l + 1) >= Score(m, r, l)
<1> USE DEF SkillLevels, Larger, Smaller, Gap
<1>1. CASE m = "baking"
    <2>1. Baking(r, l + 1) >= Baking(r, l)
        BY DEF Baking
    <2> QED
        BY <1>1, <2>1 DEF Score
<1>2. CASE m = "frying"
    <2>1. Frying(r, l + 1) >= Frying(r, l)
        BY DEF Frying
    <2> QED
        BY <1>2, <2>1 DEF Score
<1>3. CASE m = "grilling"
    <2>1. Grilling(r, l + 1) >= Grilling(r, l)
        BY DEF Grilling
    <2> QED
        BY <1>3, <2>1 DEF Score
<1>4. CASE m = "steaming"
    <2>1. Steaming(r, l + 1) >= Steaming(r, l)
        BY DEF Steaming
    <2> QED
        BY <1>4, <2>1 DEF Score
<1> QED
    BY <1>1, <1>2, <1>3, <1>4 DEF Methods

\* Decorating a recipe makes a recipe.
LEMMA DecoratorsMakeDishes ==
    ASSUME NEW d \in Dishes
    PROVE  /\ ExtraSpicy(d) \in Dishes
           /\ Premium(d) \in Dishes
           /\ DoubleServing(d) \in Dishes
           /\ GlutenFree(d) \in Dishes
<1>1. /\ d.price + 2 * Dollar \in Nat /\ (3 * d.price) \div 2 \in Nat
      /\ 2 * d.price \in Nat /\ d.price + 3 * Dollar \in Nat
      /\ 2 * d.prep \in Nat /\ d.prep + 10 \in Nat
    BY DEF Dishes, Dollar
<1>2. Smaller(5, d.complexity + 1) \in 1 .. 5 /\ Smaller(10, d.skill + 1) \in SkillLevels
    BY DEF Dishes, SkillLevels, Smaller
<1>3. ExtraSpicy(d) \in Dishes
    BY <1>1, <1>2 DEF ExtraSpicy, Dishes
<1>4. Premium(d) \in Dishes
    BY <1>1, <1>2 DEF Premium, Dishes
<1>5. DoubleServing(d) \in Dishes
    BY <1>1 DEF DoubleServing, Dishes
<1>6. GlutenFree(d) \in Dishes
    BY <1>1 DEF GlutenFree, Dishes
<1> QED
    BY <1>3, <1>4, <1>5, <1>6

LEMMA TypeStep == TypeOK /\ [Next]_cookingVars => TypeOK'
<1> SUFFICES ASSUME TypeOK, [Next]_cookingVars PROVE TypeOK'
    OBVIOUS
<1>1. CASE AddExtraSpicy \/ AddPremium \/ AddDoubleServing \/ AddGlutenFree
    <2>1. dish' \in Dishes
        BY <1>1, DecoratorsMakeDishes
        DEF TypeOK, AddExtraSpicy, AddPremium, AddDoubleServing, AddGlutenFree, Wrap
    <2>2. wraps < MaxWraps /\ wraps' = wraps + 1 /\ level' = level
        BY <1>1 DEF AddExtraSpicy, AddPremium, AddDoubleServing, AddGlutenFree, Wrap
    <2> QED
        BY <2>1, <2>2, MaxWrapsAssumption DEF TypeOK
<1>2. CASE LevelUp
    BY <1>2 DEF LevelUp, TypeOK, SkillLevels
<1>3. CASE UNCHANGED cookingVars
    BY <1>3 DEF cookingVars, TypeOK
<1> QED
    BY <1>1, <1>2, <1>3 DEF Next

LEMMA TypeInit == Init => TypeOK
BY BaseDishesAssumption, MaxWrapsAssumption DEF Init, TypeOK, SkillLevels

\* However many decorators are stacked, the dish stays a recipe with a skill in
\* 1..10 and a complexity in 1..5.
THEOREM TypeCorrect == Spec => []TypeOK
BY TypeInit, TypeStep, PTL DEF Spec

\* The score is a percentage.
THEOREM ScoresArePercentages == Spec => []ScoreIsPercentage
<1>1. TypeOK => ScoreIsPercentage
    BY ScoreBounds DEF TypeOK, Dishes, ScoreIsPercentage, Cooked
<1> QED
    BY <1>1, TypeCorrect, PTL

\* A player with the skill the dish asks for succeeds.
THEOREM QualifiedPlayersSucceed == Spec => []QualifiedSucceeds
<1>1. TypeOK => QualifiedSucceeds
    BY ScoreBounds DEF TypeOK, Dishes, QualifiedSucceeds, Cooked, IsSuccess
<1> QED
    BY <1>1, TypeCorrect, PTL

\* Levelling up never lowers a score.
THEOREM LevellingUpPays == Spec => PracticePays
<1>1. TypeOK /\ [Next]_cookingVars => [level' > level => Cooked' >= Cooked]_cookingVars
    <2> SUFFICES ASSUME TypeOK, Next, level' > level PROVE Cooked' >= Cooked
        OBVIOUS
    <2>1. LevelUp
        BY DEF Next, AddExtraSpicy, AddPremium, AddDoubleServing, AddGlutenFree, Wrap,
           TypeOK, SkillLevels
    <2>2. /\ dish.method \in Methods /\ dish.skill \in SkillLevels
          /\ level \in SkillLevels /\ level < 10
          /\ level' = level + 1 /\ dish' = dish
        BY <2>1 DEF LevelUp, TypeOK, Dishes
    <2> QED
        BY <2>2, ScoreMonotone DEF Cooked
<1> QED
    BY <1>1, TypeInit, TypeStep, PTL DEF Spec, PracticePays

\* A premium dish costs half as much again, which makes up for what one level more of
\* required skill costs in the score (if the dish still succeeds).  A price of 1 would be
\* rounded to 1.
LEMMA PremiumMakesUp ==
    ASSUME NEW m \in Methods, NEW r \in SkillLevels, NEW l \in SkillLevels, l >= r,
           NEW price \in Nat, price >= 2,
           ~(m = "grilling" /\ l = 1 /\ Smaller(10, r + 1) > l)
    PROVE  Payment((3 * price) \div 2, Score(m, Smaller(10, r + 1), l))
             >= Payment(price, Score(m, r, l))
<1> DEFINE q == Smaller(10, r + 1)
           s == Score(m, r, l)
           t == Score(m, q, l)
<1>1. q \in SkillLevels /\ (q = r \/ q = r + 1)
    BY DEF SkillLevels, Smaller
<1>2. /\ s \in 50 .. 100 /\ t \in 0 .. 100
      /\ t >= 50 /\ 5 * t >= 4 * s
    <2>1. s \in 0 .. 100 /\ t \in 0 .. 100 /\ s >= 50
        BY <1>1, ScoreBounds
    <2> USE <1>1 DEF SkillLevels, Larger, Smaller, Gap
    <2>2. CASE m = "baking"
        <3>1. Baking(q, l) >= 50 /\ 5 * Baking(q, l) >= 4 * Baking(r, l)
            BY DEF Baking
        <3> QED
            BY <2>1, <2>2, <3>1 DEF Score
    <2>3. CASE m = "frying"
        <3>1. Frying(q, l) >= 50 /\ 5 * Frying(q, l) >= 4 * Frying(r, l)
            BY DEF Frying
        <3> QED
            BY <2>1, <2>3, <3>1 DEF Score
    <2>4. CASE m = "grilling"
        <3>1. Grilling(q, l) >= 50 /\ 5 * Grilling(q, l) >= 4 * Grilling(r, l)
            BY <2>4 DEF Grilling
        <3> QED
            BY <2>1, <2>4, <3>1 DEF Score
    <2>5. CASE m = "steaming"
        <3>1. Steaming(q, l) >= 50 /\ 5 * Steaming(q, l) >= 4 * Steaming(r, l)
            BY DEF Steaming
        <3> QED
            BY <2>1, <2>5, <3>1 DEF Score
    <2> QED
        BY <2>1, <2>2, <2>3, <2>4, <2>5 DEF Methods
<1> HIDE DEF q, s, t
<1>3. PICK dear \in Nat : dear = (3 * price) \div 2 /\ 2 * dear >= 3 * price - 1
    OBVIOUS
<1>4. 4 * dear >= 5 * price
    BY <1>3
<1>5. dear * t >= price * s
    <2>1. (4 * dear) * (5 * t) >= (5 * price) * (4 * s)
        <3>1. (4 * dear) * (5 * t) >= (5 * price) * (5 * t)
            BY <1>2, <1>3, <1>4
        <3>2. (5 * price) * (5 * t) >= (5 * price) * (4 * s)
            BY <1>2
        <3> QED
            BY <1>2, <1>3, <3>1, <3>2
    <2> QED
        BY <1>2, <1>3, <2>1
<1>6. Payment(dear, t) = dear * t /\ Payment(price, s) = price * s
    BY <1>2 DEF Payment, IsSuccess, Larger
<1> QED
    BY <1>3, <1>5, <1>6 DEF q, s, t

\* What costs more pays more, as long as the score is the same.
LEMMA DearerPaysMore ==
    ASSUME NEW score \in 0 .. 100, NEW low \in Nat, NEW high \in Nat, low <= high
    PROVE  Payment(high, score) >= Payment(low, score)
<1>1. Larger(20, score) \in Nat
    BY DEF Larger
<1>2. high * Larger(20, score) >= low * Larger(20, score)
    BY <1>1
<1> QED
    BY <1>2 DEF Payment

\* No decorator makes a dish cheaper.
DecentPrice == dish.price >= AppetizerPrice(1)

LEMMA PricesStep == TypeOK /\ DecentPrice /\ [Next]_cookingVars => DecentPrice'
<1> SUFFICES ASSUME TypeOK, DecentPrice, [Next]_cookingVars PROVE DecentPrice'
    OBVIOUS
<1> USE DEF DecentPrice
<1>1. dish.price \in Nat
    BY DEF TypeOK, Dishes
<1>2. AppetizerPrice(1) = 960
    BY DEF AppetizerPrice, Dollar
<1>3. CASE AddExtraSpicy
    <2>1. dish'.price = dish.price + 320
        BY <1>3 DEF AddExtraSpicy, Wrap, ExtraSpicy, TypeOK, Dishes, Dollar
    <2> QED
        BY <1>1, <1>2, <2>1
<1>4. CASE AddPremium
    <2>1. dish'.price = (3 * dish.price) \div 2
        BY <1>4 DEF AddPremium, Wrap, Premium, TypeOK, Dishes
    <2> QED
        BY <1>1, <1>2, <2>1
<1>5. CASE AddDoubleServing
    <2>1. dish'.price = 2 * dish.price
        BY <1>5 DEF AddDoubleServing, Wrap, DoubleServing, TypeOK, Dishes
    <2> QED
        BY <1>1, <1>2, <2>1
<1>6. CASE AddGlutenFree
    <2>1. dish'.price = dish.price + 480
        BY <1>6 DEF AddGlutenFree, Wrap, GlutenFree, TypeOK, Dishes, Dollar
    <2> QED
        BY <1>1, <1>2, <2>1
<1>7. CASE LevelUp \/ UNCHANGED cookingVars
    <2>1. dish' = dish
        BY <1>7 DEF LevelUp, cookingVars
    <2> QED
        BY <1>2, <2>1
<1> QED
    BY <1>3, <1>4, <1>5, <1>6, <1>7 DEF Next

\* A variation pays, but for the premium that makes a beginner grill above his level.
THEOREM VariationsPay == Spec => VariationPays
<1>1. Init => DecentPrice
    BY PricesAssumption DEF Init, DecentPrice
<1>2. TypeOK /\ DecentPrice /\ [Next]_cookingVars
      => [(dish' # dish /\ level >= dish.skill)
          => \/ Payment(dish'.price, Cooked') >= Payment(dish.price, Cooked)
             \/ dish.method = "grilling" /\ level = 1 /\ dish'.skill > level]_cookingVars
    <2> SUFFICES ASSUME TypeOK, DecentPrice, Next, dish' # dish, level >= dish.skill,
                        ~(dish.method = "grilling" /\ level = 1 /\ dish'.skill > level)
                 PROVE  Payment(dish'.price, Cooked') >= Payment(dish.price, Cooked)
        OBVIOUS
    <2>1. /\ dish.method \in Methods /\ dish.skill \in SkillLevels /\ level \in SkillLevels
          /\ dish.price \in Nat /\ dish.price >= 2
          /\ Cooked \in 0 .. 100
        BY ScoreBounds DEF TypeOK, Dishes, DecentPrice, AppetizerPrice, Dollar, Cooked
    <2>2. CASE AddExtraSpicy \/ AddDoubleServing \/ AddGlutenFree
        <3>1. /\ dish'.price \in Nat /\ dish.price <= dish'.price
              /\ dish'.method = dish.method /\ dish'.skill = dish.skill /\ level' = level
            <4>1. CASE AddExtraSpicy
                BY <4>1, <2>1 DEF AddExtraSpicy, Wrap, ExtraSpicy, TypeOK, Dishes, Dollar
            <4>2. CASE AddDoubleServing
                BY <4>2, <2>1 DEF AddDoubleServing, Wrap, DoubleServing, TypeOK, Dishes
            <4>3. CASE AddGlutenFree
                BY <4>3, <2>1 DEF AddGlutenFree, Wrap, GlutenFree, TypeOK, Dishes, Dollar
            <4> QED
                BY <2>2, <4>1, <4>2, <4>3
        <3>2. Cooked' = Cooked
            BY <3>1 DEF Cooked
        <3> QED
            BY <2>1, <3>1, <3>2, DearerPaysMore
    <2>3. CASE AddPremium
        <3>1. /\ dish'.price = (3 * dish.price) \div 2
              /\ dish'.method = dish.method /\ dish'.skill = Smaller(10, dish.skill + 1)
              /\ level' = level
            BY <2>3 DEF AddPremium, Wrap, Premium, TypeOK, Dishes
        <3>2. Cooked' = Score(dish.method, Smaller(10, dish.skill + 1), level)
            BY <3>1 DEF Cooked
        <3> QED
            BY <2>1, <3>1, <3>2, PremiumMakesUp DEF Cooked
    <2>4. ~LevelUp
        BY DEF LevelUp
    <2> QED
        BY <2>2, <2>3, <2>4 DEF Next
<1>3. Spec => []DecentPrice
    BY <1>1, PricesStep, TypeCorrect, PTL DEF Spec
<1> QED
    BY <1>2, <1>3, TypeCorrect, PTL DEF Spec, VariationPays
================================================================================
