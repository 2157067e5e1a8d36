----------------------------- MODULE MCGameSession ------------------------------
(* A grilled and a fried recipe, for levels 1 and 2, with the scores of module      *)
(* Cooking; grilled food is ruined if it is one level above the player's.  Of two     *)
(* recipes that are not seeded, one differs from the first in the capitals of its     *)
(* name, the other is the first in a PremiumDecorator: it has its id, another name,   *)
(* and asks for one level more.  Chicken goes bad at the first midnight, and there is *)
(* stock for little more than an order.                                               *)
EXTENDS GameSession

CONSTANTS chicken, oil, wings, ribeye, bigWings, premiumWings

Strategies == INSTANCE Cooking WITH BaseDishes <- {}, dish <- 0, level <- 0, wraps <- 0

MCIds == {chicken, oil}
MCRequired == [i \in MCIds |-> IF i = chicken THEN 2 ELSE 1]
MCOpeningStock == [i \in MCIds |-> IF i = chicken THEN 4 ELSE 2]
MCShelfLife == [i \in MCIds |-> IF i = chicken THEN 0 ELSE Never]
MCCost == [i \in MCIds |-> 1]
MCRecipes == {wings, ribeye, bigWings, premiumWings}
MCSeeded == {wings, ribeye}
MCRecipeId == [r \in MCRecipes |-> IF r = premiumWings THEN wings ELSE r]
MCName == [r \in MCRecipes |-> CASE r = wings        -> "Wings"
                                 [] r = bigWings     -> "WINGS"
                                 [] r = premiumWings -> "Premium Wings"
                                 [] r = ribeye       -> "Ribeye"]
MCLower == [n \in Names |-> CASE n \in {"Wings", "WINGS"} -> "wings"
                              [] n = "Premium Wings"      -> "premium wings"
                              [] n = "Ribeye"             -> "ribeye"]
MCIngredients == [r \in MCRecipes |-> IF r = ribeye THEN <<oil, chicken>> ELSE <<oil>>]
MCSkill == [r \in MCRecipes |-> IF r \in {ribeye, premiumWings} THEN 2 ELSE 1]
MCPrice == [d \in Dishes |-> 1]
MCCookScore == [p \in Dishes \X (1 .. MaxLevel) |->
                    Strategies!Score(IF p[1][1] = ribeye THEN "grilling" ELSE "frying",
                                     MCSkill[p[1][1]], p[2])]
MCPatienceOf == [d \in Dishes |-> {1}]
MCThresholds == <<1>>
MCStartingLevels == {1, 2}
================================================================================
