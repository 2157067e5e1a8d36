------------------------------- MODULE ChefCareer -------------------------------
(***************************************************************************)
(* What the terminal game promises its player, with kitchen, pantry and recipe  *)
(* book left out: guests come one at a time; an order that was accepted is       *)
(* served or lapses; what the player spends afterwards he has; every order that  *)
(* was served counts once, when its business is settled, and the level is the     *)
(* one that so many orders entitle to.                                            *)
(***************************************************************************)
EXTENDS Integers, FiniteSets

CONSTANTS Earnings,   \* what a dish may bring in
          Expenses,   \* what an ingredient may cost
          Thresholds  \* the orders needed for each level after the first

VARIABLES phase, purse, served, level

vars == <<phase, purse, served, level>>

Entitled(n) == 1 + Cardinality({k \in DOMAIN Thresholds : Thresholds[k] <= n})

Init == phase = "open" /\ purse = 0 /\ served = 0 /\ level = 1

Move(from, to) == phase = from /\ phase' = to

Welcome == Move("open", "guest") /\ UNCHANGED <<purse, served, level>>

TurnAway == Move("guest", "open") /\ UNCHANGED <<purse, served, level>>

Accept == Move("guest", "cooking") /\ UNCHANGED <<purse, served, level>>

\* The guest's patience was at an end before the cooking began.
Lapse == Move("cooking", "open") /\ UNCHANGED <<purse, served, level>>

Serve == /\ Move("cooking", "bills")
         /\ \E earned \in Earnings : purse' = purse + earned
         /\ UNCHANGED <<served, level>>

Pay == /\ phase = "bills"
       /\ \E cost \in Expenses : cost <= purse /\ purse' = purse - cost
       /\ UNCHANGED <<phase, served, level>>

Settle == /\ Move("bills", "open")
          /\ served' = served + 1
          /\ level' = Entitled(served + 1)
          /\ UNCHANGED purse

\* Spoiled food puts an end to the game; so does the player.
Fail == /\ \/ Move("cooking", "closed")
           \/ Move("bills", "closed")
        /\ UNCHANGED <<purse, served, level>>

Close == Move("open", "closed") /\ UNCHANGED <<purse, served, level>>

Next == Welcome \/ TurnAway \/ Accept \/ Lapse \/ Serve \/ Pay \/ Settle \/ Fail \/ Close

\* Nobody who was accepted waits for ever.
OrdersSettle == phase \in {"cooking", "bills"} ~> phase \in {"open", "closed"}

Spec == Init /\ [][Next]_vars /\ OrdersSettle
================================================================================
