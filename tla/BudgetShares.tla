----------------------------- MODULE BudgetShares -----------------------------
(***************************************************************************)
(* How enforce_result_budget (rpc.cpp) divides --max-result-bytes between  *)
(* the text block and the two payload fields of a result.  Sizes are       *)
(* encoded sizes in bytes; a payload field that a result does not have     *)
(* counts as one of size 0.                                                *)
(***************************************************************************)
EXTENDS Integers

CONSTANT SlackMax             \* kResultBudgetSlack

ASSUME SlackAssumption == SlackMax \in Nat

Least(a, b) == IF a <= b THEN a ELSE b

(* budget - base minus the slack, when there is room for it (base < budget *)
(* here: the other case has returned).                                     *)
SlackOf(budget) == Least(SlackMax, budget \div 8)
Available(budget, base) ==
    IF budget - base > SlackOf(budget) THEN budget - base - SlackOf(budget)
                                       ELSE budget - base

(* The text keeps up to a quarter before the payloads compete.             *)
TextKeep(avail, e) == Least(e, avail \div 4)

(* Small payloads, at most an eighth of the rest each, are kept whole.     *)
Small(rest, e) == e <= rest \div 8
SmallKept(rest, e) == IF Small(rest, e) THEN e ELSE 0

(* The part of the pool in proportion to the size.  The code multiplies    *)
(* the pool by the quotient e / total in double precision and truncates:   *)
(* for the sizes of a message (64 MiB) that is this number, or one less    *)
(* where the division leaves no remainder (100 * (29 / 100) gives 28).     *)
(* The shares then add up to less, so what is shown of them still holds.   *)
Portion(pool, e, total) == IF total = 0 THEN 0 ELSE (pool * e) \div total

(* The shares of text (et), of the first and of the second payload (e1,    *)
(* e2), in encoded bytes.  The code's fallback for "everything small,      *)
(* still too much" is the first branch of small.                           *)
Shares(avail, et, e1, e2) ==
    LET text  == TextKeep(avail, et)
        rest  == avail - text
        sums  == text + SmallKept(rest, e1) + SmallKept(rest, e2)
        small(e) == sums <= avail /\ Small(rest, e)
        keep(e)  == IF small(e) THEN e ELSE 0
        big      == (e1 - keep(e1)) + (e2 - keep(e2))
        pool     == avail - (text + keep(e1) + keep(e2))
        share(e) == IF small(e) THEN e ELSE Portion(pool, e, big)
    IN  [text |-> text, first |-> share(e1), second |-> share(e2)]
=============================================================================
