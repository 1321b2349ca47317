--------------------------- MODULE MCBudgetLedger ---------------------------
(***************************************************************************)
(* Instances of BudgetLedger for TLC.                                      *)
(***************************************************************************)
EXTENDS BudgetLedger, TLC

CONSTANTS r1, r2, r3, rk1, rk2, rk3, sk1, sk2, p1, p2

MCReservation == {r1, r2, r3}
MCReserveKey == {rk1, rk2, rk3}
MCSettlementKey == {sk1, sk2}
MCProcess == {p1, p2}

MCDim == {"cost", "tokens"}
Vector(c, t) == [d \in MCDim |-> IF d = "cost" THEN c ELSE t]

\* An estimate that fits twice, one that takes the whole cost, and a usage
\* that overruns the smaller one.
MCAmount == {Vector(1, 1), Vector(2, 1), Vector(1, 2)}

\* A limit tight in cost, and one that caps nothing but the tokens.
MCLimit == {Vector(3, 3), [Vector(0, 3) EXCEPT !["cost"] = Unlimited]}

MCSymmetry == Permutations(MCReservation) \cup Permutations(MCReserveKey)
              \cup Permutations(MCSettlementKey) \cup Permutations(MCProcess)
=============================================================================
