---------------------------- MODULE MCOrderService -----------------------------
(* Two dishes that share an ingredient.  The scores straddle the limit between a   *)
(* ruined dish and a success (49, 50) and include a perfect one; a patience of two *)
(* seconds and a clock of three make an order overdue when it is polled, overdue   *)
(* when it is served, and served with the whole, half or nothing of its patience   *)
(* left.  Tomato goes bad at the first midnight and oil never does; a second salad *)
(* finds less than a portion of tomato, unless tomato is restocked.                *)
EXTENDS OrderService

CONSTANTS tomato, oil, salad, chips

MCIds == {tomato, oil}
MCRequired == [i \in MCIds |-> IF i = tomato THEN 2 ELSE 1]
MCOpeningStock == [i \in MCIds |-> IF i = tomato THEN 3 ELSE 2]
MCShelfLife == [i \in MCIds |-> IF i = tomato THEN 0 ELSE Never]
MCDishes == {salad, chips}
MCContents == [d \in MCDishes |-> IF d = salad THEN <<tomato, oil>> ELSE <<oil>>]
MCPrice == [d \in MCDishes |-> IF d = salad THEN 2 ELSE 1]
MCLevels == {1, 2}
MCCookScore == [p \in MCDishes \X MCLevels |->
                    IF p[1] = salad THEN (IF p[2] = 1 THEN 49 ELSE 50) ELSE 100]
================================================================================
