------------------------------- MODULE MCCooking -------------------------------
(* Every method, every required skill, the cheapest and the dearest recipe of    *)
(* each category, up to three decorators in any order.                            *)
EXTENDS Cooking

MCBaseDishes ==
    LET Base(m, s, c, p, t) == [method |-> m, skill |-> s, complexity |-> c, price |-> p, prep |-> t]
    IN  {Base(m, s, c, AppetizerPrice(c), AppetizerPrep(c)) :
            m \in Methods, s \in SkillLevels, c \in {1, 5}}
        \cup {Base(m, s, c, MainCoursePrice(c), MainCoursePrep(c)) :
            m \in Methods, s \in SkillLevels, c \in {1, 5}}
        \cup {Base(m, s, c, DessertPrice(c), DessertPrep(c)) :
            m \in Methods, s \in SkillLevels, c \in {1, 5}}
================================================================================
