--------------------------- MODULE BudgetEnvelope ---------------------------
(***************************************************************************)
(* What a Run's budget promises, without the machinery of the ledger: each *)
(* reservation is taken at most once, is closed at most once, and at every *)
(* moment the weights of all reservations fit the envelope the first of    *)
(* them pinned.                                                            *)
(***************************************************************************)
EXTENDS Naturals, FiniteSets, UnitTotals

CONSTANTS
  Reservation,   \* reservation identities of one Run
  Dim,           \* the dimensions of the envelope: cost, tokens, token classes
  Limit,         \* the envelopes a Run may be given, functions on Dim
  Unlimited,     \* the value of a dimension an envelope does not cap
  None           \* no envelope yet

VARIABLES
  phase,    \* phase[r] \in {"free", "held", "closed"}
  weight,   \* weight[d][r]: what r takes of dimension d
  pinned    \* the envelope, None until the first reservation

vars == <<phase, weight, pinned>>

Within(limit, w) ==
  \A d \in Dim : limit[d] # Unlimited => Total(Reservation, w[d]) <= limit[d]

Init ==
  /\ phase = [r \in Reservation |-> "free"]
  /\ weight = [d \in Dim |-> [r \in Reservation |-> 0]]
  /\ pinned = None

\* Only the weight of r changes, and the new weights fit the envelope.
Reweigh(r) ==
  /\ \A d \in Dim : weight'[d] = [weight[d] EXCEPT ![r] = weight'[d][r]]
  /\ Within(pinned', weight')

\* A free reservation takes a hold; the first hold pins the envelope.
Hold(r) ==
  /\ phase[r] = "free"
  /\ phase' = [phase EXCEPT ![r] = "held"]
  /\ pinned' \in IF pinned = None THEN Limit ELSE {pinned}
  /\ Reweigh(r)

\* A held reservation is exchanged, once, for what it really cost.
Close(r) ==
  /\ phase[r] = "held"
  /\ phase' = [phase EXCEPT ![r] = "closed"]
  /\ pinned' = pinned
  /\ Reweigh(r)

Next == \E r \in Reservation : Hold(r) \/ Close(r)

Spec == Init /\ [][Next]_vars
=============================================================================
