---------------------------- MODULE MCTerminalGame -----------------------------
(* A recipe for beginners and one for level 2 that share oil.  Salad is ruined at   *)
(* level 1 when taken with the variation, and chips are perfect.  The game opens     *)
(* with two portions of tomato, the smallest stock it may start with, so that every  *)
(* salad ends in the alert dialogue, and with three of oil: chips can be served once  *)
(* without an alert.                                                                 *)
EXTENDS TerminalGame

CONSTANTS tomato, oil, salad, chips, premium

MCIds == {tomato, oil}
MCRequired == [i \in MCIds |-> IF i = tomato THEN 2 ELSE 1]
MCOpeningStock == [i \in MCIds |-> IF i = tomato THEN 4 ELSE 3]
MCShelfLife == [i \in MCIds |-> IF i = tomato THEN 0 ELSE Never]
MCCost == [i \in MCIds |-> IF i = tomato THEN 100 ELSE 50]
MCRecipes == {salad, chips}
MCIngredients == [r \in MCRecipes |-> IF r = salad THEN <<tomato, oil>> ELSE <<oil>>]
MCRecipeId == [r \in MCRecipes |-> r]
MCName == [r \in MCRecipes |-> r]
MCSkill == [r \in MCRecipes |-> IF r = salad THEN 1 ELSE 2]
MCVariations == {premium}
MCPrice == [d \in Dishes |-> IF d[2] # <<>> THEN 3 ELSE 2]
MCCookScore == [p \in Dishes \X (1 .. MaxLevel) |->
                    IF p[1][1] = chips THEN 100
                    ELSE IF p[1][2] # <<>> /\ p[2] = 1 THEN 49 ELSE 52]
MCPatienceOf == [d \in Dishes |-> IF d[2] # <<>> THEN {1, 2} ELSE {1}]
MCThresholds == <<2, 3>>
================================================================================
