------------------------- MODULE BudgetLedgerProofs -------------------------
(***************************************************************************)
(* Proofs about the budget ledger of a Run, for every set of processes,    *)
(* reservations, keys, amounts and limits.  The first part is about Total: *)
(* it is a natural number, it depends only on the weights of its members,  *)
(* and changing one weight changes the total by the difference.            *)
(***************************************************************************)
EXTENDS BudgetLedger, FiniteSetTheorems, TLAPS

\* A weight is the number of its units.
LEMMA UnitsOfOne ==
  ASSUME NEW n \in Nat
  PROVE  IsFiniteSet(1 .. n) /\ Cardinality(1 .. n) = n
<1>1. 1 \in Int /\ n \in Int
  OBVIOUS
<1>2. IsFiniteSet(1 .. n) /\ Cardinality(1 .. n) = IF 1 > n THEN 0 ELSE n - 1 + 1
  BY <1>1, FS_Interval, Zenon
<1>3. (IF 1 > n THEN 0 ELSE n - 1 + 1) = n
  OBVIOUS
<1> QED
  BY <1>2, <1>3

\* The units of finitely many members are finitely many.
LEMMA UnitsFinite ==
  ASSUME NEW S, IsFiniteSet(S), NEW w, \A s \in S : w[s] \in Nat
  PROVE  IsFiniteSet(Units(S, w))
<1> DEFINE f == [s \in S |-> {s} \X (1 .. w[s])]
           U == {f[s] : s \in S}
<1>1. IsFiniteSet(U)
  <2>1. f \in Surjection(S, U)
    BY DEF Surjection
  <2> QED
    BY <2>1, FS_Surjection, Zenon
<1>2. ASSUME NEW T \in U PROVE IsFiniteSet(T)
  <2>1. PICK s \in S : T = {s} \X (1 .. w[s])
    OBVIOUS
  <2>2. IsFiniteSet({s})
    BY FS_Singleton
  <2>3. IsFiniteSet(1 .. w[s])
    BY UnitsOfOne
  <2> QED
    BY <2>1, <2>2, <2>3, FS_Product
<1>3. Units(S, w) = UNION U
  BY DEF Units
<1> QED
  BY <1>1, <1>2, <1>3, FS_UNION

\* A total is a natural number.
LEMMA TotalType ==
  ASSUME NEW S, IsFiniteSet(S), NEW w, \A s \in S : w[s] \in Nat
  PROVE  Total(S, w) \in Nat
BY UnitsFinite, FS_CardinalityType DEF Total

\* A total looks at nothing but the weights of its members.
LEMMA TotalCongruence ==
  ASSUME NEW S, NEW v, NEW w, \A s \in S : v[s] = w[s]
  PROVE  Total(S, v) = Total(S, w)
BY Zenon DEF Total, Units

\* A total of zeros is zero.
LEMMA TotalZero ==
  ASSUME NEW S, NEW w, \A s \in S : w[s] = 0
  PROVE  Total(S, w) = 0
<1>1. Units(S, w) = {}
  BY DEF Units
<1> QED
  BY <1>1, FS_EmptySet DEF Total

\* The total is one member's weight plus the total of the others.
LEMMA TotalSplit ==
  ASSUME NEW S, IsFiniteSet(S), NEW r \in S, NEW w, \A s \in S : w[s] \in Nat
  PROVE  Total(S, w) = w[r] + Total(S \ {r}, w)
<1> DEFINE A == {r} \X (1 .. w[r])
           B == Units(S \ {r}, w)
<1>1. Units(S, w) = A \cup B
  BY DEF Units
<1>2. A \cap B = {}
  BY DEF Units
<1>3. IsFiniteSet({r}) /\ Cardinality({r}) = 1
  BY FS_Singleton
<1>4. IsFiniteSet(1 .. w[r]) /\ Cardinality(1 .. w[r]) = w[r]
  BY UnitsOfOne
<1>5. IsFiniteSet(A) /\ Cardinality(A) = w[r]
  <2>1. IsFiniteSet(A) /\ Cardinality(A) = Cardinality({r}) * Cardinality(1 .. w[r])
    BY <1>3, <1>4, FS_Product
  <2> QED
    BY <2>1, <1>3, <1>4
<1>6. IsFiniteSet(S \ {r})
  BY FS_Subset, S \ {r} \subseteq S
<1>7. IsFiniteSet(B)
  BY <1>6, UnitsFinite
<1>8. Cardinality(A \cap B) = 0
  BY <1>2, FS_EmptySet
<1>9. Cardinality(A \cup B) = Cardinality(A) + Cardinality(B) - Cardinality(A \cap B)
  BY <1>5, <1>7, FS_Union
<1>10. Cardinality(A) \in Nat /\ Cardinality(B) \in Nat
  BY <1>5, <1>7, FS_CardinalityType
<1> QED
  BY <1>1, <1>5, <1>8, <1>9, <1>10 DEF Total

\* Changing the weight of r alone changes the total by the difference.
LEMMA TotalChange ==
  ASSUME NEW S, IsFiniteSet(S), NEW r \in S, NEW v, NEW w,
         \A s \in S : v[s] \in Nat /\ w[s] \in Nat,
         \A s \in S \ {r} : v[s] = w[s]
  PROVE  Total(S, v) = (Total(S, w) - w[r]) + v[r]
<1>1. Total(S, v) = v[r] + Total(S \ {r}, v)
  BY TotalSplit
<1>2. Total(S, w) = w[r] + Total(S \ {r}, w)
  BY TotalSplit
<1>3. Total(S \ {r}, v) = Total(S \ {r}, w)
  BY TotalCongruence
<1>4. IsFiniteSet(S \ {r})
  BY FS_Subset, S \ {r} \subseteq S
<1>5. Total(S \ {r}, w) \in Nat
  BY <1>4, TotalType
<1> QED
  BY <1>1, <1>2, <1>3, <1>5

\* One member weighs no more than the whole.
LEMMA TotalMember ==
  ASSUME NEW S, IsFiniteSet(S), NEW r \in S, NEW w, \A s \in S : w[s] \in Nat
  PROVE  w[r] <= Total(S, w)
<1>1. IsFiniteSet(S \ {r})
  BY FS_Subset, S \ {r} \subseteq S
<1>2. Total(S \ {r}, w) \in Nat
  BY <1>1, TotalType
<1> QED
  BY <1>2, TotalSplit

\* Two weightings that never weigh the same member add up to their total.
LEMMA TotalSum ==
  ASSUME NEW S, IsFiniteSet(S), NEW u, NEW v, NEW w,
         \A s \in S : /\ u[s] \in Nat /\ v[s] \in Nat
                      /\ \/ u[s] = 0 /\ w[s] = v[s]
                         \/ v[s] = 0 /\ w[s] = u[s]
  PROVE  Total(S, w) = Total(S, u) + Total(S, v)
<1>1. Units(S, w) = Units(S, u) \cup Units(S, v)
  BY DEF Units
<1>2. Units(S, u) \cap Units(S, v) = {}
  BY DEF Units
<1>3. IsFiniteSet(Units(S, u)) /\ IsFiniteSet(Units(S, v))
  BY UnitsFinite
<1>4. Cardinality(Units(S, u) \cap Units(S, v)) = 0
  BY <1>2, FS_EmptySet
<1>5. Cardinality(Units(S, u) \cup Units(S, v)) =
        Cardinality(Units(S, u)) + Cardinality(Units(S, v))
          - Cardinality(Units(S, u) \cap Units(S, v))
  BY <1>3, FS_Union
<1>6. Cardinality(Units(S, u)) \in Nat /\ Cardinality(Units(S, v)) \in Nat
  BY <1>3, FS_CardinalityType
<1> QED
  BY <1>1, <1>4, <1>5, <1>6 DEF Total

-----------------------------------------------------------------------------
\* The amounts of the ledger.

\* An amount that was held or charged has a natural number in each dimension.
LEMMA AmountType ==
  ASSUME NEW a \in Amount \cup {Nothing}, NEW d \in Dim
  PROVE  a[d] \in Nat
BY DomainAssumption DEF Nothing

\* So have the charge and the hold of every entry.
LEMMA EntryType ==
  ASSUME NEW e \in Entries, NEW d \in Dim
  PROVE  e.charge[d] \in Nat /\ e.hold[d] \in Nat
<1>1. e.charge \in Amount \cup {Nothing} /\ e.hold \in Amount \cup {Nothing}
  BY DEF Entries
<1> QED
  BY <1>1, AmountType

\* The weights behind the balance are natural numbers.
LEMMA WeightType ==
  ASSUME TypeOK, NEW d \in Dim
  PROVE  \A r \in Reservation : UsedWeight(d)[r] \in Nat /\ HeldWeight(d)[r] \in Nat
BY EntryType DEF TypeOK, UsedWeight, HeldWeight

\* The balance consists of natural numbers.
LEMMA BalanceType ==
  ASSUME TypeOK, NEW d \in Dim
  PROVE  UsedTotal(d) \in Nat /\ HeldTotal(d) \in Nat
BY WeightType, TotalType, DomainAssumption DEF UsedTotal, HeldTotal

\* A step that changes one entry changes the balance by that entry's weights.
LEMMA BalanceStep ==
  ASSUME TypeOK, TypeOK', NEW d \in Dim, NEW r \in Reservation,
         \A q \in Reservation \ {r} : ledger'[q] = ledger[q]
  PROVE  /\ UsedTotal(d)' = (UsedTotal(d) - UsedWeight(d)[r]) + UsedWeight(d)'[r]
         /\ HeldTotal(d)' = (HeldTotal(d) - HeldWeight(d)[r]) + HeldWeight(d)'[r]
<1>1. \A q \in Reservation : UsedWeight(d)[q] \in Nat /\ HeldWeight(d)[q] \in Nat
  BY WeightType
<1>2. \A q \in Reservation : UsedWeight(d)'[q] \in Nat /\ HeldWeight(d)'[q] \in Nat
  BY EntryType DEF TypeOK, UsedWeight, HeldWeight
<1>3. \A q \in Reservation \ {r} : /\ UsedWeight(d)'[q] = UsedWeight(d)[q]
                                   /\ HeldWeight(d)'[q] = HeldWeight(d)[q]
  BY DEF UsedWeight, HeldWeight
<1> QED
  BY <1>1, <1>2, <1>3, TotalChange, DomainAssumption DEF UsedTotal, HeldTotal

-----------------------------------------------------------------------------
\* Type correctness: no call can leave a variable outside what its events
\* can encode, and nothing is held before the envelope is pinned.
LEMMA TypeStep ==
  TypeOK /\ [Next]_vars => TypeOK'
<1> SUFFICES ASSUME TypeOK, [Next]_vars PROVE TypeOK'
  OBVIOUS
<1> USE DEF TypeOK, Entries, Answers, Statuses, Answered
<1>1. ASSUME NEW p \in Process, NEW limit \in Limit \cup {None}, Reopen(p, limit)
      PROVE  TypeOK'
  BY <1>1 DEF Reopen
<1>2. ASSUME NEW p \in Process, NEW k \in ReserveKey, NEW r \in Reservation,
             NEW a \in Amount, Reserve(p, k, r, a)
      PROVE  TypeOK'
  <2>1. EffectiveLimit(p) \in Limit /\ EffectiveLimit(p) # None
    BY <1>2, DomainAssumption DEF Reserve, LimitKnown, EffectiveLimit
  <2>2. ledger' \in [Reservation -> Entries]
    <3>1. [ledger[r] EXCEPT !.status = "reserved", !.hold = a] \in Entries
      OBVIOUS
    <3>2. ledger' = [ledger EXCEPT ![r] = [@ EXCEPT !.status = "reserved", !.hold = a]]
      BY <1>2 DEF Reserve
    <3> QED
      BY <3>1, <3>2
  <2>3. booking' \in [ReserveKey -> Reservation \cup {None}]
    BY <1>2 DEF Reserve
  <2>4. answer' \in Answers
    BY <1>2 DEF Reserve
  <2>5. envelope' \in Limit /\ envelope' # None
    BY <1>2, <2>1 DEF Reserve, PersistedLimit
  <2>6. configured' = configured
    BY <1>2 DEF Reserve
  <2> QED
    BY <2>2, <2>3, <2>4, <2>5, <2>6
<1>3. ASSUME NEW p \in Process, NEW k \in ReserveKey, NEW r \in Reservation,
             NEW a \in Amount, ReserveAgain(p, k, r, a)
      PROVE  TypeOK'
  BY <1>3 DEF ReserveAgain
<1>4. ASSUME NEW p \in Process, NEW r \in Reservation, NEW k \in SettlementKey,
             NEW u \in Amount, NEW b \in BOOLEAN, Settle(p, r, k, u, b)
      PROVE  TypeOK'
  <2>1. ledger[r].status # "absent"
    BY <1>4 DEF Settle, Settleable
  <2>2. ledger' \in [Reservation -> Entries]
    BY ZenonT(60), <1>4 DEF Settle
  <2>3. answer' \in Answers
    BY <1>4 DEF Settle
  <2>4. UNCHANGED <<booking, envelope, configured>> /\ envelope # None
    BY <1>4, <2>1 DEF Settle
  <2> QED
    BY <2>2, <2>3, <2>4
<1>5. ASSUME NEW r \in Reservation, NEW k \in SettlementKey, NEW u \in Amount,
             NEW b \in BOOLEAN, SettleAgain(r, k, u, b)
      PROVE  TypeOK'
  BY <1>5 DEF SettleAgain
<1>6. ASSUME NEW r \in Reservation, MarkUnknown(r) PROVE TypeOK'
  BY <1>6 DEF MarkUnknown
<1>7. ASSUME NEW r \in Reservation, MarkUnknownAgain(r) PROVE TypeOK'
  BY <1>7 DEF MarkUnknownAgain
<1>8. ASSUME NEW r \in Reservation, Release(r) PROVE TypeOK'
  BY <1>8 DEF Release
<1>9. ASSUME NEW r \in Reservation, ReleaseAgain(r) PROVE TypeOK'
  BY <1>9 DEF ReleaseAgain
<1>10. CASE UNCHANGED vars
  BY <1>10 DEF vars
<1> QED
  BY <1>1, <1>2, <1>3, <1>4, <1>5, <1>6, <1>7, <1>8, <1>9, <1>10 DEF Next

\* An envelope's cap in a capped dimension is a natural number.
LEMMA CapType ==
  ASSUME NEW limit \in Limit, NEW d \in Dim, limit[d] # Unlimited
  PROVE  limit[d] \in Nat
BY DomainAssumption

\* Before the first reservation nothing is used and nothing is held.
LEMMA BalanceBeforeFirst ==
  ASSUME TypeOK, envelope = None, NEW d \in Dim
  PROVE  UsedTotal(d) = 0 /\ HeldTotal(d) = 0
<1>1. \A r \in Reservation : ledger[r].status = "absent"
  BY DEF TypeOK
<1>2. \A r \in Reservation : UsedWeight(d)[r] = 0 /\ HeldWeight(d)[r] = 0
  BY <1>1 DEF UsedWeight, HeldWeight, Held
<1> QED
  BY <1>2, TotalZero DEF UsedTotal, HeldTotal

\* A hold that fits keeps the balance within the envelope.
LEMMA ReserveWithin ==
  ASSUME TypeOK, TypeOK', WithinEnvelope,
         NEW p \in Process, NEW k \in ReserveKey, NEW r \in Reservation,
         NEW a \in Amount, Reserve(p, k, r, a)
  PROVE  WithinEnvelope'
<1>1. SUFFICES ASSUME NEW d \in Dim, envelope'[d] # Unlimited
               PROVE  UsedTotal(d)' + HeldTotal(d)' <= envelope'[d]
  BY DEF WithinEnvelope
<1>2. envelope' = EffectiveLimit(p) /\ envelope' \in Limit
  BY DEF Reserve, PersistedLimit, TypeOK, LimitKnown
<1>3. envelope'[d] \in Nat
  BY <1>1, <1>2, CapType
<1>4. UsedTotal(d) \in Nat /\ HeldTotal(d) \in Nat /\ a[d] \in Nat
  BY BalanceType, AmountType
<1>5. a[d] <= Remainder(envelope'[d], UsedTotal(d) + HeldTotal(d))
  BY <1>1, <1>2 DEF Reserve, Fits
<1>6. UsedTotal(d) + HeldTotal(d) <= envelope'[d]
  <2>1. CASE envelope = None
    BY <2>1, <1>3, BalanceBeforeFirst
  <2>2. CASE envelope # None
    <3>1. envelope' = envelope
      BY <1>2, <2>2 DEF EffectiveLimit
    <3> QED
      BY <3>1, <2>2, <1>1 DEF WithinEnvelope
  <2> QED
    BY <2>1, <2>2
<1>7. UsedTotal(d)' = UsedTotal(d) /\ HeldTotal(d)' = HeldTotal(d) + a[d]
  <2>1. \A q \in Reservation \ {r} : ledger'[q] = ledger[q]
    BY DEF Reserve, TypeOK
  <2>2. /\ ledger[r].status = "absent" /\ ledger'[r].status = "reserved"
        /\ ledger'[r].hold = a
    BY DEF Reserve, TypeOK, Entries
  <2>3. UsedWeight(d)[r] = 0 /\ HeldWeight(d)[r] = 0
    BY <2>2 DEF UsedWeight, HeldWeight, Held
  <2>4. UsedWeight(d)'[r] = 0 /\ HeldWeight(d)'[r] = a[d]
    BY <2>2 DEF UsedWeight, HeldWeight, Held
  <2> QED
    BY <2>1, <2>3, <2>4, <1>4, BalanceStep
<1> QED
  BY <1>3, <1>4, <1>5, <1>6, <1>7 DEF Remainder

\* A settlement that fits beside the other holds does so too, even when it
\* is larger than its own hold.
LEMMA SettleWithin ==
  ASSUME TypeOK, TypeOK', WithinEnvelope,
         NEW p \in Process, NEW r \in Reservation, NEW k \in SettlementKey,
         NEW u \in Amount, NEW b \in BOOLEAN, Settle(p, r, k, u, b)
  PROVE  WithinEnvelope'
<1>1. SUFFICES ASSUME NEW d \in Dim, envelope'[d] # Unlimited
               PROVE  UsedTotal(d)' + HeldTotal(d)' <= envelope'[d]
  BY DEF WithinEnvelope
<1>2. ledger[r].status \in Held /\ ledger[r].status # "absent"
  BY DEF Settle, Settleable, Held
<1>3. envelope' = envelope /\ EffectiveLimit(p) = envelope /\ envelope \in Limit
  BY <1>2 DEF Settle, EffectiveLimit, TypeOK
<1>4. envelope[d] \in Nat
  BY <1>1, <1>3, CapType
<1>5. UsedTotal(d) \in Nat /\ HeldTotal(d) \in Nat /\ u[d] \in Nat
  BY BalanceType, AmountType
<1>6. HeldWeight(d)[r] = ledger[r].hold[d] /\ UsedWeight(d)[r] = 0
  BY <1>2 DEF HeldWeight, UsedWeight, Held
<1>7. ledger[r].hold[d] \in Nat /\ ledger[r].hold[d] <= HeldTotal(d)
  BY <1>6, WeightType, TotalMember, DomainAssumption DEF HeldTotal
<1>8. UsedTotal(d) + Remainder(HeldTotal(d), ledger[r].hold[d]) + u[d] <= envelope[d]
  BY <1>1, <1>3 DEF Settle, ActualFits
<1>9. /\ UsedTotal(d)' = UsedTotal(d) + u[d]
      /\ HeldTotal(d)' = HeldTotal(d) - ledger[r].hold[d]
  <2>1. \A q \in Reservation \ {r} : ledger'[q] = ledger[q]
    BY DEF Settle, TypeOK
  <2>2. ledger'[r].status = "committed" /\ ledger'[r].charge = u
    BY DEF Settle, TypeOK, Entries
  <2>3. UsedWeight(d)'[r] = u[d] /\ HeldWeight(d)'[r] = 0
    BY <2>2 DEF UsedWeight, HeldWeight, Held
  <2> QED
    BY <2>1, <2>3, <1>5, <1>6, <1>7, BalanceStep
<1> QED
  BY <1>3, <1>4, <1>5, <1>7, <1>8, <1>9 DEF Remainder

\* Turning a hold unknown moves it, and releasing it drops it: neither
\* raises what is used and held.
LEMMA LetGoWithin ==
  ASSUME TypeOK, TypeOK', WithinEnvelope,
         NEW r \in Reservation, MarkUnknown(r) \/ Release(r)
  PROVE  WithinEnvelope'
<1>1. SUFFICES ASSUME NEW d \in Dim, envelope'[d] # Unlimited
               PROVE  UsedTotal(d)' + HeldTotal(d)' <= envelope'[d]
  BY DEF WithinEnvelope
<1>2. ledger[r].status = "reserved"
  BY DEF MarkUnknown, Release
<1>3. envelope' = envelope /\ envelope \in Limit
  BY <1>2 DEF MarkUnknown, Release, TypeOK
<1>4. envelope[d] \in Nat
  BY <1>1, <1>3, CapType
<1>5. UsedTotal(d) \in Nat /\ HeldTotal(d) \in Nat /\ UsedWeight(d)[r] = 0
  BY <1>2, BalanceType DEF UsedWeight
<1>6. UsedTotal(d) + HeldTotal(d) <= envelope[d]
  BY <1>1, <1>2, <1>3 DEF WithinEnvelope, TypeOK
<1>7. HeldWeight(d)[r] \in Nat /\ HeldWeight(d)'[r] \in {0, HeldWeight(d)[r]}
  <2>1. HeldWeight(d)[r] \in Nat
    BY WeightType
  <2>2. CASE MarkUnknown(r)
    BY <1>2, <2>1, <2>2 DEF MarkUnknown, TypeOK, Entries, HeldWeight, Held
  <2>3. CASE Release(r)
    BY <1>2, <2>1, <2>3 DEF Release, TypeOK, Entries, HeldWeight, Held
  <2> QED
    BY <2>1, <2>2, <2>3
<1>8. UsedWeight(d)'[r] = 0
  BY DEF MarkUnknown, Release, TypeOK, Entries, UsedWeight
<1>9. \A q \in Reservation \ {r} : ledger'[q] = ledger[q]
  BY DEF MarkUnknown, Release, TypeOK
<1>10. /\ UsedTotal(d)' = (UsedTotal(d) - UsedWeight(d)[r]) + UsedWeight(d)'[r]
       /\ HeldTotal(d)' = (HeldTotal(d) - HeldWeight(d)[r]) + HeldWeight(d)'[r]
  BY <1>9, BalanceStep
<1> QED
  BY <1>3, <1>4, <1>5, <1>6, <1>7, <1>8, <1>10

\* Steps that leave the entries and the envelope alone keep the balance.
LEMMA QuietWithin ==
  ASSUME WithinEnvelope, UNCHANGED <<ledger, envelope>>
  PROVE  WithinEnvelope'
BY DEF WithinEnvelope, UsedTotal, HeldTotal, UsedWeight, HeldWeight

\* The inductive invariant: the balance argument needs the types, and the
\* type invariant's last part (no entry before the envelope is pinned) is
\* what makes the first reservation's check the right one.
IInv == TypeOK /\ WithinEnvelope

\* The initial states satisfy the inductive invariant.
LEMMA InitIInv ==
  Init => IInv
<1> SUFFICES ASSUME Init PROVE IInv
  OBVIOUS
<1>1. TypeOK
  <2>1. answer \in Answers
    BY DEF Init, Silent, Answers
  <2> QED
    BY <2>1 DEF Init, TypeOK, Entries, Statuses
<1>2. WithinEnvelope
  BY DEF Init, WithinEnvelope
<1> QED
  BY <1>1, <1>2 DEF IInv

\* Every step keeps it.
LEMMA StepIInv ==
  IInv /\ [Next]_vars => IInv'
<1> SUFFICES ASSUME IInv, [Next]_vars PROVE IInv'
  OBVIOUS
<1> USE DEF IInv
<1>1. TypeOK'
  BY TypeStep
<1>2. ASSUME NEW p \in Process, NEW limit \in Limit \cup {None}, Reopen(p, limit)
      PROVE  WithinEnvelope'
  BY <1>2, QuietWithin DEF Reopen
<1>3. ASSUME NEW p \in Process, NEW k \in ReserveKey, NEW r \in Reservation,
             NEW a \in Amount, Reserve(p, k, r, a)
      PROVE  WithinEnvelope'
  BY <1>1, <1>3, ReserveWithin
<1>4. ASSUME NEW p \in Process, NEW k \in ReserveKey, NEW r \in Reservation,
             NEW a \in Amount, ReserveAgain(p, k, r, a)
      PROVE  WithinEnvelope'
  BY <1>4, QuietWithin DEF ReserveAgain
<1>5. ASSUME NEW p \in Process, NEW r \in Reservation, NEW k \in SettlementKey,
             NEW u \in Amount, NEW b \in BOOLEAN, Settle(p, r, k, u, b)
      PROVE  WithinEnvelope'
  BY <1>1, <1>5, SettleWithin
<1>6. ASSUME NEW r \in Reservation, NEW k \in SettlementKey, NEW u \in Amount,
             NEW b \in BOOLEAN, SettleAgain(r, k, u, b)
      PROVE  WithinEnvelope'
  BY <1>6, QuietWithin DEF SettleAgain
<1>7. ASSUME NEW r \in Reservation, MarkUnknown(r) \/ Release(r)
      PROVE  WithinEnvelope'
  BY <1>1, <1>7, LetGoWithin
<1>8. ASSUME NEW r \in Reservation, MarkUnknownAgain(r) \/ ReleaseAgain(r)
      PROVE  WithinEnvelope'
  BY <1>8, QuietWithin DEF MarkUnknownAgain, ReleaseAgain
<1>9. ASSUME UNCHANGED vars PROVE WithinEnvelope'
  BY <1>9, QuietWithin DEF vars
<1>10. WithinEnvelope'
  BY <1>2, <1>3, <1>4, <1>5, <1>6, <1>7, <1>8, <1>9 DEF Next
<1> QED
  BY <1>1, <1>10

\* Every variable keeps its type in every reachable state.
THEOREM TypeCorrect == Spec => []TypeOK
<1>1. Init => TypeOK
  BY InitIInv DEF IInv
<1> QED
  BY <1>1, TypeStep, PTL DEF Spec

\* The Run never commits itself to more than its persisted RunLimit: charges
\* and holds fit in every capped dimension, in every reachable state.
THEOREM EnvelopeKept == Spec => []WithinEnvelope
<1>1. IInv => WithinEnvelope
  BY DEF IInv
<1> QED
  BY <1>1, InitIInv, StepIInv, PTL DEF Spec

-----------------------------------------------------------------------------
\* What a step may do to one entry: the status moves along reserve,
\* mark_unknown, settle and release only, one entry at a time.
LEMMA EntryStep ==
  ASSUME TypeOK, [Next]_vars, NEW r \in Reservation
  PROVE  \/ ledger'[r] = ledger[r]
         \/ ledger[r].status = "absent" /\ ledger'[r].status = "reserved"
         \/ ledger[r].status = "reserved"
            /\ ledger'[r].status \in {"unknown", "committed", "released"}
         \/ /\ ledger[r].status = "unknown" /\ ledger'[r].status = "committed"
            /\ ledger'[r].reconciled
<1> DEFINE Moves == \/ ledger'[r] = ledger[r]
                    \/ ledger[r].status = "absent" /\ ledger'[r].status = "reserved"
                    \/ ledger[r].status = "reserved"
                       /\ ledger'[r].status \in {"unknown", "committed", "released"}
                    \/ /\ ledger[r].status = "unknown"
                       /\ ledger'[r].status = "committed"
                       /\ ledger'[r].reconciled
<1> USE DEF TypeOK, Entries
<1>1. ASSUME NEW p \in Process, NEW k \in ReserveKey, NEW q \in Reservation,
             NEW a \in Amount, Reserve(p, k, q, a)
      PROVE  Moves
  BY <1>1 DEF Reserve
<1>2. ASSUME NEW p \in Process, NEW q \in Reservation, NEW k \in SettlementKey,
             NEW u \in Amount, NEW b \in BOOLEAN, Settle(p, q, k, u, b)
      PROVE  Moves
  <2>1. CASE q = r
    <3>1. ledger'[r].status = "committed" /\ ledger'[r].reconciled = b
      BY <1>2, <2>1 DEF Settle
    <3>2. ledger[r].status = IF b THEN "unknown" ELSE "reserved"
      BY <1>2, <2>1 DEF Settle, Settleable
    <3> QED
      BY <3>1, <3>2
  <2>2. CASE q # r
    BY <1>2, <2>2 DEF Settle
  <2> QED
    BY <2>1, <2>2
<1>3. ASSUME NEW q \in Reservation, MarkUnknown(q) \/ Release(q)
      PROVE  Moves
  BY <1>3 DEF MarkUnknown, Release
<1>4. ASSUME UNCHANGED ledger PROVE Moves
  BY <1>4
<1> HIDE DEF Moves
<1>5. Moves
  BY <1>1, <1>2, <1>3, <1>4
  DEF Next, vars, Reopen, ReserveAgain, MarkUnknownAgain, SettleAgain, ReleaseAgain
<1> QED
  BY <1>5 DEF Moves

\* No step lets an unknown result go but an explicit reconciliation.
THEOREM UnknownHeld == Spec => UnknownStaysHeld
<1>1. TypeOK /\ [Next]_vars =>
        [\A r \in Reservation : ledger[r].status = "unknown" =>
           \/ ledger'[r] = ledger[r]
           \/ ledger'[r].status = "committed" /\ ledger'[r].reconciled]_vars
  BY EntryStep
<1> QED
  BY <1>1, TypeCorrect, PTL DEF Spec, UnknownStaysHeld

\* A pinned envelope outlives every step of every process.
LEMMA EnvelopeStep ==
  ASSUME TypeOK, [Next]_vars, envelope # None
  PROVE  envelope' = envelope
BY DEF Next, vars, Reopen, Reserve, ReserveAgain, MarkUnknown, MarkUnknownAgain,
       Settle, SettleAgain, Release, ReleaseAgain, PersistedLimit, EffectiveLimit

\* Settled and released reservations, and the envelope, never change again.
THEOREM ClosedStays == Spec => ClosedForever
<1>1. TypeOK /\ [Next]_vars =>
        [/\ \A r \in Reservation :
              ledger[r].status \in {"committed", "released"} => ledger'[r] = ledger[r]
         /\ envelope # None => envelope' = envelope]_vars
  BY EntryStep, EnvelopeStep
<1> QED
  BY <1>1, TypeCorrect, PTL DEF Spec, ClosedForever

-----------------------------------------------------------------------------
\* What the keys say: a reservation has a settlement key exactly when it is
\* committed, and whatever a reserve key names exists.
Keyed ==
  /\ \A r \in Reservation : ledger[r].settledBy # None <=> ledger[r].status = "committed"
  /\ \A k \in ReserveKey, r \in Reservation :
       booking[k] = r => ledger[r].status # "absent"

KeysHold == Keyed /\ OneChargePerKey /\ AnswersAreTrue
KeyInv == TypeOK /\ KeysHold

\* A new reservation comes under a key of its own and is not settled.
LEMMA ReserveKeyed ==
  ASSUME KeyInv, NEW p \in Process, NEW k \in ReserveKey, NEW r \in Reservation,
         NEW a \in Amount, Reserve(p, k, r, a)
  PROVE  KeysHold'
<1>1. /\ ledger'[r].status = "reserved" /\ ledger'[r].hold = a
      /\ ledger'[r].settledBy = None /\ ledger[r].settledBy = None
      /\ \A q \in Reservation \ {r} : ledger'[q] = ledger[q]
  BY DEF Reserve, KeyInv, KeysHold, Keyed, TypeOK, Entries
<1>2. /\ booking'[k] = r /\ booking[k] = None /\ None \notin Reservation
      /\ \A j \in ReserveKey \ {k} : booking'[j] = booking[j]
      /\ \A j \in ReserveKey : booking[j] # r
  BY DomainAssumption DEF Reserve, KeyInv, KeysHold, Keyed, TypeOK
<1>3. \A q \in Reservation : ledger'[q].settledBy = ledger[q].settledBy
  BY <1>1
<1>4. Keyed'
  BY <1>1, <1>2 DEF KeyInv, KeysHold, Keyed
<1>5. \A q \in Reservation : ledger'[q].status # "absent" =>
        \E i \in ReserveKey : \A j \in ReserveKey : booking'[j] = q <=> j = i
  <2>1. \A j \in ReserveKey : booking'[j] = r <=> j = k
    BY <1>2
  <2>2. ASSUME NEW q \in Reservation \ {r}, ledger'[q].status # "absent"
        PROVE  \E i \in ReserveKey : \A j \in ReserveKey : booking'[j] = q <=> j = i
    <3>1. PICK i \in ReserveKey : \A j \in ReserveKey : booking[j] = q <=> j = i
      BY <1>1, <2>2 DEF KeyInv, KeysHold, OneChargePerKey
    <3>2. i # k
      BY <1>2, <3>1
    <3> QED
      BY <1>2, <3>1, <3>2
  <2> QED
    BY <2>1, <2>2
<1>6. OneChargePerKey'
  BY <1>3, <1>5 DEF KeyInv, KeysHold, OneChargePerKey
<1>7. AnswersAreTrue'
  BY <1>1, <1>2 DEF Reserve, Answered, AnswersAreTrue
<1> QED
  BY <1>4, <1>6, <1>7 DEF KeysHold

\* A settlement uses a key that no reservation was settled with.
LEMMA SettleKeyed ==
  ASSUME KeyInv, NEW p \in Process, NEW r \in Reservation, NEW k \in SettlementKey,
         NEW u \in Amount, NEW b \in BOOLEAN, Settle(p, r, k, u, b)
  PROVE  KeysHold'
<1>1. /\ ledger'[r].status = "committed" /\ ledger'[r].settledBy = k
      /\ ledger'[r].charge = u /\ ledger'[r].reconciled = b
      /\ \A q \in Reservation \ {r} : ledger'[q] = ledger[q]
  BY DEF Settle, KeyInv, TypeOK, Entries
<1>2. /\ k # None /\ ledger[r].status # "absent" /\ booking' = booking
      /\ \A q \in Reservation : ledger[q].settledBy # k
  BY DomainAssumption DEF Settle, Settleable, SettlementKeyFree
<1>3. Keyed'
  BY <1>1, <1>2 DEF KeyInv, KeysHold, Keyed
<1>4. \A q \in Reservation : ledger'[q].status # "absent" => ledger[q].status # "absent"
  BY <1>1, <1>2
<1>5. ASSUME NEW x \in Reservation, NEW y \in Reservation, x # y,
             ledger'[x].settledBy # None
      PROVE  ledger'[x].settledBy # ledger'[y].settledBy
  BY <1>1, <1>2, <1>5 DEF KeyInv, KeysHold, OneChargePerKey
<1>6. OneChargePerKey'
  BY <1>2, <1>4, <1>5 DEF KeyInv, KeysHold, OneChargePerKey
<1>7. AnswersAreTrue'
  BY <1>1 DEF Settle, Answered, AnswersAreTrue
<1> QED
  BY <1>3, <1>6, <1>7 DEF KeysHold

\* The steps that move one reservation without a key.
LEMMA UnkeyedKeyed ==
  ASSUME KeyInv, NEW r \in Reservation, MarkUnknown(r) \/ Release(r)
  PROVE  KeysHold'
<1>1. /\ ledger[r].status = "reserved" /\ booking' = booking
      /\ ledger'[r].status \in {"unknown", "released"}
      /\ \A q \in Reservation \ {r} : ledger'[q] = ledger[q]
  BY DEF MarkUnknown, Release, KeyInv, TypeOK, Entries
<1>2. \A q \in Reservation : ledger'[q].settledBy = ledger[q].settledBy
  BY DEF MarkUnknown, Release, KeyInv, TypeOK, Entries
<1>3. Keyed'
  BY <1>1, <1>2 DEF KeyInv, KeysHold, Keyed
<1>4. \A q \in Reservation : ledger'[q].status # "absent" => ledger[q].status # "absent"
  BY <1>1
<1>5. OneChargePerKey'
  BY <1>1, <1>2, <1>4 DEF KeyInv, KeysHold, OneChargePerKey
<1>6. AnswersAreTrue'
  <2>1. CASE MarkUnknown(r)
    BY <2>1 DEF MarkUnknown, Answered, AnswersAreTrue, KeyInv, TypeOK, Entries
  <2>2. CASE Release(r)
    BY <2>2 DEF Release, Answered, AnswersAreTrue, KeyInv, TypeOK, Entries
  <2> QED
    BY <2>1, <2>2
<1> QED
  BY <1>3, <1>5, <1>6 DEF KeysHold

\* A repeated call changes no record, and its answer is read from one.
LEMMA RepeatKeyed ==
  ASSUME KeyInv, UNCHANGED <<ledger, booking>>,
         \/ answer' = answer
         \/ \E p \in Process, k \in ReserveKey, r \in Reservation, a \in Amount :
              ReserveAgain(p, k, r, a)
         \/ \E r \in Reservation, k \in SettlementKey, u \in Amount, b \in BOOLEAN :
              SettleAgain(r, k, u, b)
         \/ \E r \in Reservation : MarkUnknownAgain(r) \/ ReleaseAgain(r)
  PROVE  KeysHold'
<1>1. Keyed' /\ OneChargePerKey'
  BY DEF KeyInv, KeysHold, Keyed, OneChargePerKey
<1>2. ASSUME answer' = answer PROVE AnswersAreTrue'
  BY <1>2 DEF KeyInv, KeysHold, AnswersAreTrue
<1>3. ASSUME NEW p \in Process, NEW k \in ReserveKey, NEW r \in Reservation,
             NEW a \in Amount, ReserveAgain(p, k, r, a)
      PROVE  AnswersAreTrue'
  BY <1>3 DEF ReserveAgain, Answered, AnswersAreTrue
<1>4. ASSUME NEW r \in Reservation, NEW k \in SettlementKey, NEW u \in Amount,
             NEW b \in BOOLEAN, SettleAgain(r, k, u, b)
      PROVE  AnswersAreTrue'
  <2>1. /\ ledger[r].settledBy = k /\ ledger[r].charge = u /\ ledger[r].reconciled = b
        /\ answer' = [call |-> IF b THEN "reconcile" ELSE "commit",
                      reservation |-> r, key |-> k, amount |-> u]
    BY <1>4 DEF SettleAgain, SameSettlement, Answered
  <2>2. k # None
    BY DomainAssumption
  <2>3. ledger[r].status = "committed"
    BY <2>1, <2>2 DEF KeyInv, KeysHold, Keyed
  <2> QED
    BY <2>1, <2>3 DEF AnswersAreTrue
<1>5. ASSUME NEW r \in Reservation, MarkUnknownAgain(r) \/ ReleaseAgain(r)
      PROVE  AnswersAreTrue'
  BY <1>5 DEF MarkUnknownAgain, ReleaseAgain, Answered, AnswersAreTrue
<1> QED
  BY <1>1, <1>2, <1>3, <1>4, <1>5 DEF KeysHold

\* The invariant of the keys and the answers is inductive.
LEMMA KeysKept == Spec => []KeyInv
<1>1. Init => KeyInv
  <2> SUFFICES ASSUME Init PROVE KeyInv
    OBVIOUS
  <2>1. TypeOK
    BY InitIInv DEF IInv
  <2>2. \A r \in Reservation : ledger[r].status = "absent" /\ ledger[r].settledBy = None
    BY DEF Init
  <2>3. \A k \in ReserveKey : booking[k] = None
    BY DEF Init
  <2>4. Keyed /\ OneChargePerKey
    BY <2>2, <2>3, DomainAssumption DEF Keyed, OneChargePerKey
  <2>5. AnswersAreTrue
    BY DEF Init, Silent, AnswersAreTrue
  <2> QED
    BY <2>1, <2>4, <2>5 DEF KeyInv, KeysHold
<1>2. KeyInv /\ [Next]_vars => KeyInv'
  <2> SUFFICES ASSUME KeyInv, [Next]_vars PROVE KeyInv'
    OBVIOUS
  <2>1. TypeOK'
    BY TypeStep DEF KeyInv
  <2>2. ASSUME NEW p \in Process, NEW limit \in Limit \cup {None}, Reopen(p, limit)
        PROVE  KeysHold'
    BY <2>2, RepeatKeyed DEF Reopen
  <2>3. ASSUME NEW p \in Process, NEW k \in ReserveKey, NEW r \in Reservation,
               NEW a \in Amount, ReserveAgain(p, k, r, a)
        PROVE  KeysHold'
    <3>1. UNCHANGED <<ledger, booking>>
      BY <2>3 DEF ReserveAgain
    <3> QED
      BY <2>3, <3>1, RepeatKeyed
  <2>4. ASSUME NEW r \in Reservation, NEW k \in SettlementKey, NEW u \in Amount,
               NEW b \in BOOLEAN, SettleAgain(r, k, u, b)
        PROVE  KeysHold'
    <3>1. UNCHANGED <<ledger, booking>>
      BY <2>4 DEF SettleAgain
    <3> QED
      BY <2>4, <3>1, RepeatKeyed
  <2>5. ASSUME NEW r \in Reservation, MarkUnknownAgain(r) \/ ReleaseAgain(r)
        PROVE  KeysHold'
    <3>1. UNCHANGED <<ledger, booking>>
      BY <2>5 DEF MarkUnknownAgain, ReleaseAgain
    <3> QED
      BY <2>5, <3>1, RepeatKeyed
  <2>6. ASSUME UNCHANGED vars PROVE KeysHold'
    BY <2>6, RepeatKeyed DEF vars
  <2>7. KeysHold'
    BY <2>2, <2>3, <2>4, <2>5, <2>6, ReserveKeyed, SettleKeyed, UnkeyedKeyed DEF Next
  <2> QED
    BY <2>1, <2>7 DEF KeyInv
<1> QED
  BY <1>1, <1>2, PTL DEF Spec

\* A settlement key charges one reservation, and every reservation was made
\* under exactly one key (_settlement_events, reserve).
THEOREM OneCharge == Spec => []OneChargePerKey
<1>1. KeyInv => OneChargePerKey
  BY DEF KeyInv, KeysHold
<1> QED
  BY <1>1, KeysKept, PTL

\* Whatever is retried, with the same figures or with others, a call that is
\* answered without an error is true of the ledger (the fingerprint checks).
THEOREM AnswersTrue == Spec => []AnswersAreTrue
<1>1. KeyInv => AnswersAreTrue
  BY DEF KeyInv, KeysHold
<1> QED
  BY <1>1, KeysKept, PTL

-----------------------------------------------------------------------------
\* The abstract weights are the ledger's used and held weights together.
LEMMA WeightSum ==
  ASSUME TypeOK, NEW d \in Dim
  PROVE  Total(Reservation, WeightOf(d)) = UsedTotal(d) + HeldTotal(d)
<1>1. \A r \in Reservation :
        /\ UsedWeight(d)[r] \in Nat /\ HeldWeight(d)[r] \in Nat
        /\ \/ UsedWeight(d)[r] = 0 /\ WeightOf(d)[r] = HeldWeight(d)[r]
           \/ HeldWeight(d)[r] = 0 /\ WeightOf(d)[r] = UsedWeight(d)[r]
  <2>1. \A r \in Reservation : UsedWeight(d)[r] \in Nat /\ HeldWeight(d)[r] \in Nat
    BY WeightType
  <2>2. ASSUME NEW r \in Reservation
        PROVE  \/ UsedWeight(d)[r] = 0 /\ WeightOf(d)[r] = HeldWeight(d)[r]
               \/ HeldWeight(d)[r] = 0 /\ WeightOf(d)[r] = UsedWeight(d)[r]
    BY DEF UsedWeight, HeldWeight, WeightOf, Held
  <2> QED
    BY <2>1, <2>2
<1> QED
  BY <1>1, TotalSum, DomainAssumption DEF UsedTotal, HeldTotal

\* The totals of the abstract module are the ledger's.
LEMMA AbstractTotal ==
  ASSUME NEW S, NEW w
  PROVE  Abstract!Total(S, w) = Total(S, w)
BY DEF Abstract!Total, Abstract!Units, Abstract!Cardinality, Abstract!IsFiniteSet,
       Total, Units, Cardinality, IsFiniteSet

\* In the ledger's terms, the abstract envelope's bound is WithinEnvelope.
LEMMA AbstractWithin ==
  ASSUME TypeOK, WithinEnvelope, envelope # None
  PROVE  Abstract!Within(envelope, [d \in Dim |-> WeightOf(d)])
<1>1. SUFFICES ASSUME NEW d \in Dim, envelope[d] # Unlimited
               PROVE  Abstract!Total(Reservation, WeightOf(d)) <= envelope[d]
  BY DEF Abstract!Within
<1>2. UsedTotal(d) + HeldTotal(d) <= envelope[d]
  BY <1>1 DEF WithinEnvelope
<1> QED
  BY <1>2, WeightSum, AbstractTotal

\* The initial ledger is an initial envelope.
LEMMA InitRefines ==
  Init => Abstract!Init
<1> SUFFICES ASSUME Init PROVE Abstract!Init
  OBVIOUS
<1>1. \A r \in Reservation : ledger[r].status = "absent"
  BY DEF Init
<1>2. \A r \in Reservation : PhaseOf(r) = "free"
  BY <1>1 DEF PhaseOf, Held
<1>3. \A d \in Dim : WeightOf(d) = [r \in Reservation |-> 0]
  BY <1>1 DEF WeightOf, Held
<1>4. envelope = None
  BY DEF Init
<1> QED
  BY <1>2, <1>3, <1>4 DEF Abstract!Init

\* The same sum in the next state.
LEMMA WeightSumNext ==
  TypeOK' => \A d \in Dim :
    Total(Reservation, WeightOf(d))' = UsedTotal(d)' + HeldTotal(d)'
<1>1. TypeOK => \A d \in Dim :
        Total(Reservation, WeightOf(d)) = UsedTotal(d) + HeldTotal(d)
  BY WeightSum
<1>2. TypeOK' => (\A d \in Dim :
        Total(Reservation, WeightOf(d)) = UsedTotal(d) + HeldTotal(d))'
  BY <1>1, PTL
<1> QED
  BY <1>2

\* A step that changes the entry of r alone reweighs r alone.
LEMMA ReweighStep ==
  ASSUME IInv', envelope' # None, NEW r \in Reservation,
         \A q \in Reservation \ {r} : ledger'[q] = ledger[q]
  PROVE  Abstract!Reweigh(r)
<1>1. ASSUME NEW d \in Dim
      PROVE  WeightOf(d)' = [WeightOf(d) EXCEPT ![r] = WeightOf(d)'[r]]
  <2> DEFINE v == WeightOf(d)
             w == WeightOf(d)'
  <2>1. v = [q \in Reservation |-> v[q]] /\ w = [q \in Reservation |-> w[q]]
    BY DEF WeightOf
  <2>2. \A q \in Reservation \ {r} : w[q] = v[q]
    BY DEF WeightOf
  <2> HIDE DEF v, w
  <2>3. w = [v EXCEPT ![r] = w[r]]
    BY <2>1, <2>2
  <2> QED
    BY <2>3 DEF v, w
<1>2. Abstract!Within(envelope, [d \in Dim |-> WeightOf(d)])'
  <2>1. SUFFICES ASSUME NEW d \in Dim, envelope'[d] # Unlimited
                 PROVE  Abstract!Total(Reservation, WeightOf(d)') <= envelope'[d]
    BY DEF Abstract!Within
  <2>2. UsedTotal(d)' + HeldTotal(d)' <= envelope'[d]
    BY <2>1 DEF IInv, WithinEnvelope
  <2>3. Total(Reservation, WeightOf(d))' = UsedTotal(d)' + HeldTotal(d)'
    BY WeightSumNext DEF IInv
  <2> QED
    BY <2>2, <2>3, AbstractTotal
<1> QED
  BY <1>1, <1>2 DEF Abstract!Reweigh

\* Every step of the ledger is a step of the envelope or leaves it alone.
LEMMA StepRefines ==
  IInv /\ IInv' /\ [Next]_vars => [Abstract!Next]_(Abstract!vars)
<1> SUFFICES ASSUME IInv, IInv', [Next]_vars
             PROVE  Abstract!Next \/ UNCHANGED Abstract!vars
  OBVIOUS
<1> USE DEF IInv
<1> DEFINE Phase == [r \in Reservation |-> PhaseOf(r)]
<1>1. ASSUME UNCHANGED <<ledger, envelope>> PROVE UNCHANGED Abstract!vars
  BY <1>1 DEF Abstract!vars, PhaseOf, WeightOf
<1>2. ASSUME NEW r \in Reservation, NEW x, Phase[r] = x,
             \A q \in Reservation \ {r} : ledger'[q] = ledger[q],
             NEW y, Phase'[r] = y
      PROVE  Phase' = [Phase EXCEPT ![r] = y]
  <2>1. \A q \in Reservation \ {r} : Phase'[q] = Phase[q]
    BY <1>2 DEF PhaseOf
  <2>2. /\ Phase = [q \in Reservation |-> Phase[q]]
        /\ Phase' = [q \in Reservation |-> Phase'[q]]
    OBVIOUS
  <2> HIDE DEF Phase
  <2> QED
    BY <1>2, <2>1, <2>2
<1>3. ASSUME NEW p \in Process, NEW k \in ReserveKey, NEW r \in Reservation,
             NEW a \in Amount, Reserve(p, k, r, a)
      PROVE  Abstract!Hold(r)
  <2>1. ledger[r].status = "absent" /\ ledger'[r].status = "reserved"
    BY <1>3 DEF Reserve, TypeOK, Entries
  <2>2. \A q \in Reservation \ {r} : ledger'[q] = ledger[q]
    BY <1>3 DEF Reserve, TypeOK
  <2>3. Phase[r] = "free" /\ Phase'[r] = "held"
    BY <2>1 DEF PhaseOf, Held
  <2>4. Phase' = [Phase EXCEPT ![r] = "held"]
    BY <1>2, <2>2, <2>3
  <2>5. /\ envelope' # None
        /\ envelope' \in IF envelope = None THEN Limit ELSE {envelope}
    BY <1>3 DEF Reserve, PersistedLimit, EffectiveLimit, LimitKnown, TypeOK
  <2>6. Abstract!Reweigh(r)
    BY <2>2, <2>5, ReweighStep
  <2> QED
    BY <2>3, <2>4, <2>5, <2>6 DEF Abstract!Hold
<1>4. ASSUME NEW r \in Reservation, envelope' = envelope,
             \A q \in Reservation \ {r} : ledger'[q] = ledger[q],
             ledger[r].status \in Held, ledger'[r].status \in {"committed", "released"}
      PROVE  Abstract!Close(r)
  <2>1. Phase[r] = "held" /\ Phase'[r] = "closed"
    BY <1>4 DEF PhaseOf, Held
  <2>2. Phase' = [Phase EXCEPT ![r] = "closed"]
    BY <1>2, <1>4, <2>1
  <2>3. envelope' # None
    BY <1>4 DEF TypeOK, Held
  <2>4. Abstract!Reweigh(r)
    BY <1>4, <2>3, ReweighStep
  <2> QED
    BY <1>4, <2>1, <2>2, <2>4 DEF Abstract!Close
<1>5. ASSUME NEW p \in Process, NEW r \in Reservation, NEW k \in SettlementKey,
             NEW u \in Amount, NEW b \in BOOLEAN, Settle(p, r, k, u, b)
      PROVE  Abstract!Close(r)
  <2>1. /\ ledger[r].status \in Held /\ ledger'[r].status = "committed"
        /\ envelope' = envelope
        /\ \A q \in Reservation \ {r} : ledger'[q] = ledger[q]
    BY <1>5 DEF Settle, Settleable, Held, TypeOK, Entries
  <2> QED
    BY <1>4, <2>1
<1>6. ASSUME NEW r \in Reservation, Release(r) PROVE Abstract!Close(r)
  <2>1. /\ ledger[r].status \in Held /\ ledger'[r].status = "released"
        /\ envelope' = envelope
        /\ \A q \in Reservation \ {r} : ledger'[q] = ledger[q]
    BY <1>6 DEF Release, Held, TypeOK, Entries
  <2> QED
    BY <1>4, <2>1
<1>7. ASSUME NEW r \in Reservation, MarkUnknown(r) PROVE UNCHANGED Abstract!vars
  <2>1. \A q \in Reservation : PhaseOf(q)' = PhaseOf(q)
    BY <1>7 DEF MarkUnknown, PhaseOf, Held, TypeOK, Entries
  <2>2. \A d \in Dim : WeightOf(d)' = WeightOf(d)
    BY <1>7 DEF MarkUnknown, WeightOf, Held, TypeOK, Entries
  <2>3. envelope' = envelope
    BY <1>7 DEF MarkUnknown
  <2> QED
    BY <2>1, <2>2, <2>3 DEF Abstract!vars
<1> QED
  BY <1>1, <1>3, <1>5, <1>6, <1>7
  DEF Next, vars, Reopen, ReserveAgain, MarkUnknownAgain, SettleAgain, ReleaseAgain,
      Abstract!Next

\* The ledger implements the abstract envelope: each reservation is taken
\* once and closed once, always within the limit the first one pinned.
THEOREM LedgerRefinesEnvelope == Spec => ImplementsEnvelope
BY InitIInv, StepIInv, InitRefines, StepRefines, PTL
   DEF Spec, ImplementsEnvelope, Abstract!Spec
=============================================================================
