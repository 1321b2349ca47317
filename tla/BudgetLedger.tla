---------------------------- MODULE BudgetLedger ----------------------------
(***************************************************************************)
(* The budget ledger of one Run (budget/ledger.py): every operation is one *)
(* locked read-modify-append on the Run's budget stream, so it is one      *)
(* action here.  Several processes open the same stream, each with the     *)
(* RunLimit it was configured with, and callers retry with the idempotency *)
(* keys they already used.  A call the code refuses appends nothing and is *)
(* not a step.                                                             *)
(***************************************************************************)
EXTENDS Naturals, FiniteSets, UnitTotals

CONSTANTS
  Process,        \* processes holding a BudgetLedger on the stream
  Reservation,    \* reservation identities
  ReserveKey,     \* idempotency keys of reserve
  SettlementKey,  \* settlement keys of commit_usage and reconcile_unknown
  Dim,            \* cost, total tokens and the four token classes
  Amount,         \* estimates and usages: functions from Dim to Nat
  Limit,          \* RunLimits: functions from Dim to Nat or Unlimited
  Unlimited,      \* a dimension the RunLimit leaves uncapped
  None            \* no limit, no key, no reservation

ASSUME DomainAssumption ==
  /\ IsFiniteSet(Reservation)
  /\ Amount \subseteq [Dim -> Nat]
  /\ Limit \subseteq [Dim -> Nat \cup {Unlimited}]
  /\ Unlimited \notin Nat
  /\ None \notin Limit \cup Reservation \cup SettlementKey

VARIABLES
  ledger,      \* ledger[r]: r as the replay of the stream shows it
  booking,     \* booking[k]: the reservation first reserved under key k
  envelope,    \* the limit in the first BudgetReserved event, or None
  configured,  \* configured[p]: the RunLimit process p was given, or None
  answer       \* the last call answered without an error

vars == <<ledger, booking, envelope, configured, answer>>

Statuses == {"absent", "reserved", "unknown", "committed", "released"}
Held == {"reserved", "unknown"}
Nothing == [d \in Dim |-> 0]

Entries ==
  [status : Statuses, hold : Amount \cup {Nothing},
   charge : Amount \cup {Nothing}, settledBy : SettlementKey \cup {None},
   reconciled : BOOLEAN]

Answers ==
  [call : {"none", "reserve", "unknown", "commit", "reconcile", "release"},
   reservation : Reservation \cup {None},
   key : ReserveKey \cup SettlementKey \cup {None},
   amount : Amount \cup {Nothing}]

Silent == [call |-> "none", reservation |-> None, key |-> None, amount |-> Nothing]

Answered(call, r, k, a) ==
  answer' = [call |-> call, reservation |-> r, key |-> k, amount |-> a]

Init ==
  /\ ledger = [r \in Reservation |->
                 [status |-> "absent", hold |-> Nothing, charge |-> Nothing,
                  settledBy |-> None, reconciled |-> FALSE]]
  /\ booking = [k \in ReserveKey |-> None]
  /\ envelope = None
  /\ configured \in [Process -> Limit \cup {None}]
  /\ answer = Silent

-----------------------------------------------------------------------------
\* The balance computed from the replayed states (_balance_from_events).
UsedWeight(d) ==
  [r \in Reservation |->
     IF ledger[r].status = "committed" THEN ledger[r].charge[d] ELSE 0]
HeldWeight(d) ==
  [r \in Reservation |->
     IF ledger[r].status \in Held THEN ledger[r].hold[d] ELSE 0]
UsedTotal(d) == Total(Reservation, UsedWeight(d))
HeldTotal(d) == Total(Reservation, HeldWeight(d))

\* a less b, but not below zero.
Remainder(a, b) == IF a > b THEN a - b ELSE 0

\* The limit in force for a call made through process p (_limit_for).
EffectiveLimit(p) == IF envelope # None THEN envelope ELSE configured[p]
CompatibleLimit(p) == configured[p] # None => envelope \in {None, configured[p]}
LimitKnown(p) == CompatibleLimit(p) /\ EffectiveLimit(p) # None

\* Variant: a reservation that looks at the charges but not at open holds.
FitsIgnoringHolds(limit, a) ==
  \A d \in Dim : limit[d] # Unlimited => a[d] <= Remainder(limit[d], UsedTotal(d))

\* The new hold fits what is left of every capped dimension (_ensure_fits).
Fits(limit, a) ==
  \A d \in Dim : limit[d] # Unlimited =>
     a[d] <= Remainder(limit[d], UsedTotal(d) + HeldTotal(d))

\* The actual usage fits beside the other holds (_ensure_actual_fits).
ActualFits(limit, r, u) ==
  \A d \in Dim : limit[d] # Unlimited =>
     UsedTotal(d) + Remainder(HeldTotal(d), ledger[r].hold[d]) + u[d] <= limit[d]

\* No settlement event of any reservation carries key k (_settlement_events).
SettlementKeyFree(k) == \A q \in Reservation : ledger[q].settledBy # k

-----------------------------------------------------------------------------
\* A process opens the ledger; the constructor refuses a limit that differs
\* from the persisted one.
Reopen(p, limit) ==
  /\ limit # None => envelope \in {None, limit}
  /\ configured' = [configured EXCEPT ![p] = limit]
  /\ UNCHANGED <<ledger, booking, envelope, answer>>

\* The limit every BudgetReserved event carries (_reservation_payload), of
\* which the first is the Run's envelope (_persisted_limit).
PersistedLimit(p) == EffectiveLimit(p)

\* reserve with a key and an identity the stream has not seen.
Reserve(p, k, r, a) ==
  /\ LimitKnown(p)
  /\ booking[k] = None
  /\ ledger[r].status = "absent"
  /\ Fits(EffectiveLimit(p), a)
  /\ ledger' = [ledger EXCEPT ![r] = [@ EXCEPT !.status = "reserved", !.hold = a]]
  /\ booking' = [booking EXCEPT ![k] = r]
  /\ envelope' = PersistedLimit(p)
  /\ Answered("reserve", r, k, a)
  /\ UNCHANGED configured

\* reserve repeated: the key answers with the original reservation, provided
\* the request is the one that was recorded.
ReserveAgain(p, k, r, a) ==
  /\ LimitKnown(p)
  /\ booking[k] = r
  /\ ledger[r].hold = a
  /\ Answered("reserve", r, k, a)
  /\ UNCHANGED <<ledger, booking, envelope, configured>>

\* mark_unknown: the whole worst-case hold stays.  The marker's key is seen
\* exactly when the status is "unknown" or was once.
MarkUnknown(r) ==
  /\ ledger[r].status = "reserved"
  /\ ledger' = [ledger EXCEPT ![r].status = "unknown"]
  /\ Answered("unknown", r, None, Nothing)
  /\ UNCHANGED <<booking, envelope, configured>>

\* mark_unknown repeated with its reason while the result is still unknown.
MarkUnknownAgain(r) ==
  /\ ledger[r].status = "unknown"
  /\ Answered("unknown", r, None, Nothing)
  /\ UNCHANGED <<ledger, booking, envelope, configured>>

\* Variant: commit_usage accepts whatever is still held.
SettleableWhileHeld(r, reconciling) ==
  IF reconciling THEN ledger[r].status = "unknown" ELSE ledger[r].status \in Held

\* What _settle_usage requires of the status: commit_usage settles a reserved
\* hold, reconcile_unknown an unknown one.
Settleable(r, reconciling) ==
  ledger[r].status = IF reconciling THEN "unknown" ELSE "reserved"

\* commit_usage / reconcile_unknown with a key the stream has not seen.
Settle(p, r, k, u, reconciling) ==
  /\ SettlementKeyFree(k)
  /\ Settleable(r, reconciling)
  /\ LimitKnown(p)
  /\ ActualFits(EffectiveLimit(p), r, u)
  /\ ledger' = [ledger EXCEPT ![r] =
                   [@ EXCEPT !.status = "committed", !.charge = u,
                             !.settledBy = k, !.reconciled = reconciling]]
  /\ Answered(IF reconciling THEN "reconcile" ELSE "commit", r, k, u)
  /\ UNCHANGED <<booking, envelope, configured>>

\* Variant: a repeated settlement is recognised by its key alone.
SameSettlementKey(r, k, u, reconciling) ==
  ledger[r].settledBy = k /\ ledger[r].reconciled = reconciling

\* The fingerprint a repeated settlement must match
\* (_check_settlement_fingerprint and the reconciliation marker).
SameSettlement(r, k, u, reconciling) ==
  /\ ledger[r].settledBy = k
  /\ ledger[r].charge = u
  /\ ledger[r].reconciled = reconciling

\* A settlement repeated under its own key appends nothing.
SettleAgain(r, k, u, reconciling) ==
  /\ SameSettlement(r, k, u, reconciling)
  /\ Answered(IF reconciling THEN "reconcile" ELSE "commit", r, k, u)
  /\ UNCHANGED <<ledger, booking, envelope, configured>>

\* release of a hold that was never dispatched.
Release(r) ==
  /\ ledger[r].status = "reserved"
  /\ ledger' = [ledger EXCEPT ![r].status = "released"]
  /\ Answered("release", r, None, Nothing)
  /\ UNCHANGED <<booking, envelope, configured>>

\* release after a release, or after a settlement that won the race.
ReleaseAgain(r) ==
  /\ ledger[r].status \in {"released", "committed"}
  /\ Answered("release", r, None, Nothing)
  /\ UNCHANGED <<ledger, booking, envelope, configured>>

Next ==
  \/ \E p \in Process, limit \in Limit \cup {None} : Reopen(p, limit)
  \/ \E p \in Process, k \in ReserveKey, r \in Reservation, a \in Amount :
       Reserve(p, k, r, a) \/ ReserveAgain(p, k, r, a)
  \/ \E p \in Process, r \in Reservation, k \in SettlementKey, u \in Amount,
        reconciling \in BOOLEAN :
       Settle(p, r, k, u, reconciling)
  \/ \E r \in Reservation, k \in SettlementKey, u \in Amount, reconciling \in BOOLEAN :
       SettleAgain(r, k, u, reconciling)
  \/ \E r \in Reservation :
       MarkUnknown(r) \/ MarkUnknownAgain(r) \/ Release(r) \/ ReleaseAgain(r)

Spec == Init /\ [][Next]_vars

-----------------------------------------------------------------------------
\* Every variable keeps the shape the events can give it, and a hold exists
\* only under a pinned envelope.
TypeOK ==
  /\ ledger \in [Reservation -> Entries]
  /\ booking \in [ReserveKey -> Reservation \cup {None}]
  /\ envelope \in Limit \cup {None}
  /\ configured \in [Process -> Limit \cup {None}]
  /\ answer \in Answers
  /\ envelope = None => \A r \in Reservation : ledger[r].status = "absent"

\* Whatever order calls, retries, unknown results and overruns come in, the
\* charges settled so far plus every open hold fit the persisted RunLimit
\* (_ensure_fits, _ensure_actual_fits).
WithinEnvelope ==
  envelope # None =>
    \A d \in Dim : envelope[d] # Unlimited =>
       UsedTotal(d) + HeldTotal(d) <= envelope[d]

\* A key settles one reservation and a key reserves one reservation: two
\* settled reservations never share a key, and every reservation that exists
\* was made under exactly one key (_settlement_events, reserve).
OneChargePerKey ==
  /\ \A q, r \in Reservation :
       q # r /\ ledger[q].settledBy # None => ledger[q].settledBy # ledger[r].settledBy
  /\ \A r \in Reservation :
       ledger[r].status # "absent" => \E k \in ReserveKey :
         \A j \in ReserveKey : booking[j] = r <=> j = k

\* A call answered without an error is true of the ledger: the amount it
\* names is the amount recorded under its key, so a retry with other figures
\* is never told that it succeeded (the fingerprint checks).
AnswersAreTrue ==
  LET e == ledger[answer.reservation] IN
  CASE answer.call = "reserve" ->
         booking[answer.key] = answer.reservation /\ e.hold = answer.amount
    [] answer.call \in {"commit", "reconcile"} ->
         /\ e.status = "committed" /\ e.settledBy = answer.key
         /\ e.charge = answer.amount
         /\ e.reconciled = (answer.call = "reconcile")
    [] answer.call = "release" -> e.status \in {"released", "committed"}
    [] answer.call = "unknown" -> e.status = "unknown"
    [] OTHER -> TRUE

\* An unknown result keeps its worst-case hold until an explicit
\* reconciliation replaces it; nothing releases or commits it by the
\* ordinary path (release, commit_usage).
UnknownStaysHeld ==
  [][\A r \in Reservation : ledger[r].status = "unknown" =>
       \/ ledger'[r] = ledger[r]
       \/ ledger'[r].status = "committed" /\ ledger'[r].reconciled]_vars

\* A settled or released reservation never changes again, and neither does
\* the envelope once pinned, whatever a process was configured with.
ClosedForever ==
  [][/\ \A r \in Reservation :
          ledger[r].status \in {"committed", "released"} => ledger'[r] = ledger[r]
     /\ envelope # None => envelope' = envelope]_vars

\* The ledger implements the envelope: its entries are the phases, and the
\* weights are the charge of a settled and the hold of an open reservation.
PhaseOf(r) ==
  CASE ledger[r].status = "absent" -> "free"
    [] ledger[r].status \in Held -> "held"
    [] OTHER -> "closed"
WeightOf(d) ==
  [r \in Reservation |->
     CASE ledger[r].status \in Held -> ledger[r].hold[d]
       [] ledger[r].status = "committed" -> ledger[r].charge[d]
       [] OTHER -> 0]

Abstract == INSTANCE BudgetEnvelope WITH
  phase  <- [r \in Reservation |-> PhaseOf(r)],
  weight <- [d \in Dim |-> WeightOf(d)],
  pinned <- envelope

\* Every step of the ledger takes, closes or leaves alone one reservation of
\* the abstract envelope.
ImplementsEnvelope == Abstract!Spec
=============================================================================
