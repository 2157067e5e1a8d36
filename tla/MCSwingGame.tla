------------------------------ MODULE MCSwingGame ------------------------------
(* Salad for beginners and chips for level 2, which share oil; the second result   *)
(* gains the level.  Tomato goes bad at the first midnight.  The opening stock is   *)
(* the smallest the game may start with, so that every order ends in the dialogue.  *)
(* Two of the toggle buttons, so that none, one or both may be set.                  *)
EXTENDS SwingGame

CONSTANTS tomato, oil, salad, chips, premium, double

MCIds == {tomato, oil}
MCRequired == [i \in MCIds |-> IF i = tomato THEN 2 ELSE 1]
MCOpeningStock == [i \in MCIds |-> IF i = tomato THEN 4 ELSE 2]
MCShelfLife == [i \in MCIds |-> IF i = tomato THEN 0 ELSE Never]
MCCost == [i \in MCIds |-> IF i = tomato THEN 2 ELSE 1]
MCRecipes == {salad, chips}
MCIngredients == [r \in MCRecipes |-> IF r = salad THEN <<tomato, oil>> ELSE <<oil>>]
MCRecipeId == [r \in MCRecipes |-> r]
MCName == [r \in MCRecipes |-> r]
MCSkill == [r \in MCRecipes |-> IF r = salad THEN 1 ELSE 2]
MCVariations == {premium, double}
MCToggles == <<premium, double>>
MCPrice == [d \in Dishes |-> 2 + Len(d[2])]
MCCookScore == [p \in Dishes \X (1 .. MaxLevel) |-> IF Len(p[1][2]) > p[2] THEN 49 ELSE 100]
MCPatienceOf == [d \in Dishes |-> {1}]
MCThresholds == <<2>>
================================================================================
