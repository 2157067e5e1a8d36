-------------------------------- MODULE Cooking --------------------------------
(***************************************************************************)
(* The arithmetic of a dish: what the four CookingStrategy classes score for *)
(* a recipe's required skill and the player's level, what a recipe of each    *)
(* category costs, what each RecipeDecorator changes, and what                *)
(* OrderFulfillmentObserver pays.  The state machine is the counter: a dish    *)
(* is wrapped in decorators one after the other (both games do it with one    *)
(* `new ...Decorator(r)` each) and the player's level grows between dishes.    *)
(*                                                                           *)
(* The strategies compute in double.  For every skill gap of the game (0 to 9) *)
(* the integers below are what the casts to int yield, the one place where     *)
(* truncation loses a point included (a gap of 7: 1 - 7 * 0.05 and             *)
(* 1 - 7 * 0.08 are stored just under 0.65 and 0.44).                          *)
(***************************************************************************)
EXTENDS Integers

CONSTANTS
    BaseDishes,  \* the undecorated recipes: records as Dishes describes
    MaxWraps     \* bound on the decorators around one dish

VARIABLES dish, level, wraps

cookingVars == <<dish, level, wraps>>

Methods == {"baking", "frying", "grilling", "steaming"}

SkillLevels == 1 .. 10

\* What of a Recipe the arithmetic depends on.
Dishes == [method : Methods, skill : SkillLevels, complexity : 1 .. 5, price : Nat, prep : Nat]

ASSUME BaseDishesAssumption == BaseDishes \subseteq Dishes
ASSUME MaxWrapsAssumption == MaxWraps \in Nat

Larger(a, b) == IF a >= b THEN a ELSE b
Smaller(a, b) == IF a <= b THEN a ELSE b

--------------------------------------------------------------------------------
(* CookingStrategy.cook: the score *)

Gap(required, l) == Larger(0, required - l)

Baking(required, l) ==
    IF Gap(required, l) = 7 THEN 64 ELSE Larger(0, 100 - 5 * Gap(required, l))

\* Slip: the bonus for a skilled player is not capped.
FryingUncapped(required, l) ==
    IF Gap(required, l) = 7 THEN 43
    ELSE Larger(0, 100 - 8 * Gap(required, l)) + (IF l >= required THEN 10 ELSE 0)

Frying(required, l) ==
    IF Gap(required, l) = 7 THEN 43
    ELSE Smaller(100, Larger(0, 100 - 8 * Gap(required, l))
                      + (IF l >= required THEN 10 ELSE 0))

\* Slip: the bonus is given at level 8 and not above.
GrillingBonusOnce(required, l) ==
    Smaller(100, Larger(0, Smaller(85, 50 + 5 * l - 3 * required))
                 + (IF l = 8 THEN 15 ELSE 0))

\* GRILL_MARKS_BONUS from level 8 on, after the clamp to 0..85.
Grilling(required, l) ==
    Smaller(100, Larger(0, Smaller(85, 50 + 5 * l - 3 * required))
                 + (IF l >= 8 THEN 15 ELSE 0))

\* PRECISION_BONUS for a player who has the required skill.
Steaming(required, l) ==
    Smaller(100, Larger(0, Smaller(85, 65 - 4 * Gap(required, l)))
                 + (IF l >= required THEN 10 ELSE 0))

Score(method, required, l) ==
    CASE method = "baking"   -> Baking(required, l)
      [] method = "frying"   -> Frying(required, l)
      [] method = "grilling" -> Grilling(required, l)
      [] method = "steaming" -> Steaming(required, l)

\* Slip: success asks for three stars.
IsSuccessFromThreeStars(score) == score >= 60

\* CookingResult.success, computed in the same way by all four strategies.
IsSuccess(score) == score >= 50

--------------------------------------------------------------------------------
(* Prices and payment *)

\* One dollar in units of a price: prices are whole tenths of a dollar before
\* decoration, and four PremiumDecorators (each * 1.5) keep them whole.
Dollar == 160

AppetizerPrice(complexity)  == Dollar * (5 + complexity)
MainCoursePrice(complexity) == Dollar * 12 + 400 * complexity
DessertPrice(complexity)    == Dollar * 7 + 288 * complexity

\* No category charges less than an appetizer of complexity 1.
ASSUME PricesAssumption == \A d \in BaseDishes : d.price >= AppetizerPrice(1)

AppetizerPrep(complexity)  == 30 + 10 * complexity
MainCoursePrep(complexity) == 60 + 15 * complexity
DessertPrep(complexity)    == 45 + 20 * complexity

\* OrderFulfillmentObserver: the share max(0.2, score / 100) of the price for an
\* order that is COMPLETED, which a dish served in time is if it succeeded.  In
\* hundredths of a price unit.
Payment(price, score) == IF IsSuccess(score) THEN price * Larger(20, score) ELSE 0

--------------------------------------------------------------------------------
(* RecipeDecorator *)

ExtraSpicy(d) == [d EXCEPT !.price = @ + 2 * Dollar, !.complexity = Smaller(5, @ + 1)]

\* Slip: the skill is not capped at 10.
PremiumUncapped(d) == [d EXCEPT !.price = (3 * @) \div 2, !.skill = @ + 1]

\* Slip: the decorator raises the skill and forgets the price.
PremiumUnpriced(d) == [d EXCEPT !.skill = Smaller(10, @ + 1)]

Premium(d) == [d EXCEPT !.price = (3 * @) \div 2, !.skill = Smaller(10, @ + 1)]

DoubleServing(d) == [d EXCEPT !.price = 2 * @, !.prep = 2 * @]

GlutenFree(d) == [d EXCEPT !.price = @ + 3 * Dollar, !.prep = @ + 10]

--------------------------------------------------------------------------------
Init == /\ dish \in BaseDishes
        /\ level = 1
        /\ wraps = 0

Wrap(d) == /\ wraps < MaxWraps
           /\ dish' = d
           /\ wraps' = wraps + 1
           /\ UNCHANGED level

AddExtraSpicy    == Wrap(ExtraSpicy(dish))
AddPremium       == Wrap(Premium(dish))
AddDoubleServing == Wrap(DoubleServing(dish))
AddGlutenFree    == Wrap(GlutenFree(dish))

\* GameManager.levelUp stops at 10.
LevelUp == /\ level < 10
           /\ level' = level + 1
           /\ UNCHANGED <<dish, wraps>>

Next == \/ AddExtraSpicy
        \/ AddPremium
        \/ AddDoubleServing
        \/ AddGlutenFree
        \/ LevelUp

Spec == Init /\ [][Next]_cookingVars

--------------------------------------------------------------------------------
(* Properties *)

TypeOK == /\ dish \in Dishes
          /\ level \in SkillLevels
          /\ wraps \in 0 .. MaxWraps

Cooked == Score(dish.method, dish.skill, level)

\* Whatever decorators are stacked and whatever the level, the score is a
\* percentage: the display, the rating and the payment ratio rely on it.
ScoreIsPercentage == Cooked \in 0 .. 100

\* A player who has the skill the (decorated) dish asks for never ruins it:
\* failure is the risk of cooking above one's level only.
QualifiedSucceeds == level >= dish.skill => IsSuccess(Cooked)

\* Levelling up never makes the player cook any dish worse: neither the clamps
\* and bonuses of the strategies nor their truncation to int break monotonicity.
PracticePays == [][level' > level => Cooked' >= Cooked]_cookingVars

\* Taking a variation the menu offers on a dish the player is skilled enough for
\* never lowers what the dish pays, except that PremiumDecorator makes a level-1
\* player grill above his level, which fails and pays nothing.
VariationPays ==
    [][ (dish' # dish /\ level >= dish.skill)
        => \/ Payment(dish'.price, Cooked') >= Payment(dish.price, Cooked)
           \/ dish.method = "grilling" /\ level = 1 /\ dish'.skill > level ]_cookingVars

================================================================================
