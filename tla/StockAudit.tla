------------------------------ MODULE StockAudit -------------------------------
(***************************************************************************)
(* Inventory with history variables, to say what a whole call does and what *)
(* the player has been told:                                                 *)
(*   list     the ingredient list the last consumeIngredients was called with *)
(*   before   the quantities when that call began                            *)
(*   entry    the position in the list of the entry it deals with, counted     *)
(*            round by round, and where a call that threw has stopped          *)
(*   assured  whether hasAllIngredients said yes to that list at that moment  *)
(*   excused  the ingredients whose shortage nobody owes a warning for: those *)
(*            saved with little stock (addIngredient checks no threshold) and *)
(*            those whose warning was dismissed by clearAlerts                *)
(* The history variables restrict no step of Inventory.                      *)
(***************************************************************************)
EXTENDS Inventory

VARIABLES list, before, entry, assured, excused

history == <<list, before, entry, assured, excused>>
auditVars == <<vars, history>>

AuditInit == /\ Init
             /\ list = <<>>
             /\ before = quantity
             /\ entry = 1
             /\ assured = FALSE
             /\ excused = {}

Short(i) == IsLow(i, quantity[i])

Saving == \E i \in Ids, q \in Opening, d \in BestBefore :
              /\ AddIngredient(i, q, d)
              /\ excused' = excused \cup {i}
              /\ UNCHANGED <<list, before, entry, assured>>

\* A restock checks the threshold again: from here on a warning is owed.
Restocking == \E i \in Ids, amount \in Amounts :
                  /\ quantity[i] + amount <= MaxQuantity
                  /\ Len(alerts) < MaxAlerts
                  /\ RestockIngredient(i, amount)
                  /\ excused' = excused \ {i}
                  /\ UNCHANGED <<list, before, entry, assured>>

Purging == PurgeExpiredIngredients /\ UNCHANGED history

Dismissing == /\ ClearAlerts
              /\ excused' = excused \cup {i \in stored : Short(i)}
              /\ UNCHANGED <<list, before, entry, assured>>

Calling == \E l \in Baskets :
               /\ Len(alerts) + Len(l) <= MaxAlerts
               /\ BeginConsume(l)
               /\ list' = l
               /\ before' = quantity
               /\ entry' = 1
               /\ assured' = HasAllIngredients(l)
               /\ UNCHANGED excused

Stopping == (MissingThrows \/ ExpiredThrows \/ UnavailableThrows) /\ UNCHANGED history

Looking == FoundFresh /\ UNCHANGED history

\* What is consumed is checked again: from here on a warning is owed.
Taking == /\ Take
          /\ excused' = excused \ {Head(basket)}
          /\ UNCHANGED <<list, before, entry, assured>>

\* The round is over.
Warning == /\ Warn
           /\ entry' = entry + 1
           /\ UNCHANGED <<list, before, assured, excused>>

Returning == ReturnToCaller /\ UNCHANGED history

Dawning == Midnight /\ UNCHANGED history

AuditNext == \/ Saving
             \/ Restocking
             \/ Purging
             \/ Dismissing
             \/ Calling
             \/ Stopping
             \/ Looking
             \/ Taking
             \/ Warning
             \/ Returning
             \/ Dawning

AuditSpec == AuditInit /\ [][AuditNext]_auditVars

--------------------------------------------------------------------------------
(* Properties *)

AuditTypeOK == /\ TypeOK
               /\ list \in Seq(Ids)
               /\ before \in [Ids -> Int]
               /\ entry \in Nat \ {0}
               /\ assured \in BOOLEAN
               /\ excused \subseteq Ids

\* Portions of ingredient i among the first n entries of the list.
Portions(i, n) == Cardinality({k \in 1 .. n : list[k] = i})

\* The pantry is what it was before the call, less the first n entries.
LessFirst(n) == \A i \in Ids : quantity[i] = before[i] - Required[i] * Portions(i, n)

\* What consumeIngredients and Ingredient.consume have against an ingredient.
Refused(i) == i \notin stored \/ ~IsAvailable(i)

\* A call that returns has taken one portion for every entry of the recipe's
\* list.  One that throws has taken the entries in front of the one it failed at
\* and neither that one nor any behind it: it puts nothing back and takes no part
\* of a portion.  And it fails at an entry that cannot be had, be it that the
\* portions of the same ingredient in front of it were the last.
CallTakesAPrefix ==
    /\ at = "returned" => LessFirst(Len(list))
    /\ at = "threw" => /\ entry \in DOMAIN list
                       /\ LessFirst(entry - 1)
                       /\ Refused(list[entry])

NoRepeats(l) == \A j, k \in DOMAIN l : l[j] = l[k] => j = k

\* Whoever asks hasAllIngredients before cooking can rely on the answer: a call made
\* after a yes, for a list without repetitions, fails only if the calendar has turned
\* and something on the list has gone bad.  (Each entry is judged against the stock
\* before the call: with repetitions the answer proves nothing.)
CheckedCallsSucceed ==
    at = "threw" /\ assured /\ NoRepeats(list) => \E k \in DOMAIN list : IsExpired(list[k])

Warned(i) == \E k \in DOMAIN alerts : alerts[k] = i

\* Between calls, every stored ingredient that consuming or restocking left with
\* less than two portions is in the list of alerts the player will be shown,
\* unless the player dismissed it: no shortage is silent, also when the call
\* that caused it failed at a later ingredient.
ShortageWarned ==
    Idle => \A i \in stored : Short(i) => Warned(i) \/ i \in excused

\* What README.md:42 says of the inventory: it lets the alert observer know
\* whenever an ingredient is low or going bad.
KnowsOfLowOrBad ==
    Idle => \A i \in stored \ excused : Short(i) \/ IsExpired(i) => Warned(i)

================================================================================
