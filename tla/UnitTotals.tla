----------------------------- MODULE UnitTotals -----------------------------
(***************************************************************************)
(* Totals of natural-valued weights over a finite set, as the number of    *)
(* units the weights stand for.  The definition needs no recursion, so the *)
(* ledger's sums can be reasoned about with the facts on Cardinality.      *)
(***************************************************************************)
EXTENDS Naturals, FiniteSets

\* One pair <<s, i>> for each unit of weight of each member of S.
Units(S, w) == UNION {{s} \X (1 .. w[s]) : s \in S}

\* The sum of w[s] over the members s of S.
Total(S, w) == Cardinality(Units(S, w))
=============================================================================
