---------------------------- MODULE OrderLifecycle -----------------------------
(***************************************************************************)
(* What the kitchen promises about orders, without queue, observers, pantry  *)
(* or clock.  Orders are numbered as they arrive.  The kitchen takes them up  *)
(* strictly in that order and one at a time; each meets exactly one fate and   *)
(* keeps it; and the till gains something when an order is completed and at    *)
(* no other time.                                                             *)
(***************************************************************************)
EXTENDS Integers, Sequences

VARIABLES
    fate,  \* fate[o]: what became of order o so far
    till   \* the money in the till

lifecycleVars == <<fate, till>>

Final == {"COMPLETED", "FAILED", "EXPIRED", "lost"}

Fates == {"waiting", "cooking"} \cup Final

Init == fate = <<>> /\ till = 0

Arrive == /\ fate' = Append(fate, "waiting")
          /\ UNCHANGED till

\* The kitchen is free and o is the order that has waited longest.
NextInLine(o) ==
    /\ fate[o] = "waiting"
    /\ \A p \in DOMAIN fate : fate[p] # "cooking" /\ (fate[p] = "waiting" => o <= p)

TakeUp == \E o \in DOMAIN fate : /\ NextInLine(o)
                                 /\ fate' = [fate EXCEPT ![o] = "cooking"]
                                 /\ UNCHANGED till

\* The customer had left before the order was taken up.
Lapse == \E o \in DOMAIN fate : /\ NextInLine(o)
                                /\ fate' = [fate EXCEPT ![o] = "EXPIRED"]
                                /\ UNCHANGED till

Finish == \E o \in DOMAIN fate, f \in Final :
              /\ fate[o] = "cooking"
              /\ fate' = [fate EXCEPT ![o] = f]
              /\ IF f = "COMPLETED" THEN till' > till ELSE till' = till

\* Money spent on ingredients.
Spend == /\ till' < till
         /\ UNCHANGED fate

Next == Arrive \/ TakeUp \/ Lapse \/ Finish \/ Spend

Safety == Init /\ [][Next]_lifecycleVars

================================================================================
