------------------------------ MODULE MCInventory ------------------------------
(* Two ingredients.  A portion of tomato is 2 units and of oil 1, so that a     *)
(* restock by 1 can leave tomato short and oil not.  One recipe lists tomato    *)
(* twice: consumeIngredients must not depend on the entries being distinct.     *)
EXTENDS Inventory

CONSTANTS tomato, oil

MCIds == {tomato, oil}
MCRequired == [i \in MCIds |-> IF i = tomato THEN 2 ELSE 1]
MCBaskets == {<<tomato, oil>>, <<tomato, tomato>>, <<>>}
MCOpening == {1, 4}
MCBestBefore == {0, Never}
MCAmounts == {-1, 0, 1, 2}
================================================================================
