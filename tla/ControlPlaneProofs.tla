------------------------- MODULE ControlPlaneProofs -------------------------
(***************************************************************************)
(* Proofs about ControlPlane, for every set of Runs, nodes, providers and  *)
(* sweepers and for all limits.  CInv says that the four streams of a Run  *)
(* agree; Fits that the attempts that hold a slot fit the limits.          *)
(***************************************************************************)
EXTENDS ControlPlane, LifecycleEventsProofs, FiniteSetTheorems

\* What the operations keep of one Run's projection.
Sound(s) ==
  /\ s \in States /\ Ordered(s) /\ Accounted(s)
  /\ s.status \in Final => Idle(s)

\* The four streams agree on attempt g of node n of Run r.
AgreedAt(r, n, g) ==
  LET a == <<n, g>>
      tries == life[r].attempts[n]
  IN IF g <= Len(tries)
     THEN /\ SlotAgrees(slot[r][a], tries[g])
          /\ agent[r][a] = ExpectedAgent(tries[g])
          /\ hold[r][a] \in ExpectedHold(tries[g])
     ELSE slot[r][a] = Free /\ agent[r][a] = "absent" /\ hold[r][a] = "absent"

\* The types of what no stream holds; a sweep with work left has a time.
AsideOK ==
  /\ completing \subseteq Run
  /\ sweep \in [Sweeper -> [status : {"idle", "sweeping"},
                            todo : SUBSET (Run \X Attempt), asOf : AsOf \cup {None}]]
  /\ \A s \in Sweeper : sweep[s].todo # {} => sweep[s].asOf \in AsOf

\* The inductive invariant.
CInv ==
  /\ life \in [Run -> States]
  /\ slot \in [Run -> [Attempt -> Slots]]
  /\ agent \in [Run -> [Attempt -> AgentStatuses]]
  /\ hold \in [Run -> [Attempt -> HoldStatuses]]
  /\ effect \in [Run -> SUBSET Attempt]
  /\ AsideOK
  /\ \A r \in Run : Sound(life[r])
  /\ \A r \in Run, n \in Node, g \in 1 .. MaxAttempts : AgreedAt(r, n, g)

-----------------------------------------------------------------------------
\* Pausing, resuming and asking for a cancellation keep a projection sound and
\* its attempts as they are.
LEMMA StatusSound ==
  ASSUME NEW s \in States, Sound(s)
  PROVE  /\ s.status \notin Final =>
              /\ Sound(RunPaused(s)) /\ RunPaused(s).attempts = s.attempts
              /\ Sound(RunCancellationRequested(s))
              /\ RunCancellationRequested(s).attempts = s.attempts
         /\ Sound(RunResumed(s)) /\ RunResumed(s).attempts = s.attempts
<1>1. ASSUME NEW st \in {"paused", "cancelling"}, NEW q \in Request \cup {None}
      PROVE  LET t == [s EXCEPT !.status = st, !.request = q]
             IN Sound(t) /\ t.attempts = s.attempts
  <2> DEFINE t == [s EXCEPT !.status = st, !.request = q]
  <2>1. /\ t \in States /\ t.status = st /\ t.node = s.node /\ t.deps = s.deps
        /\ t.limit = s.limit /\ t.attempts = s.attempts
    BY <1>1 DEF States, RunStatuses
  <2> HIDE DEF t
  <2>2. Ordered(t) /\ Accounted(t)
    BY <2>1, KeepsGraph DEF Sound
  <2>3. t.status \notin Final
    BY <2>1 DEF Final
  <2> QED
    BY <2>1, <2>2, <2>3 DEF Sound, t
<1>2. RunPaused(s) = [s EXCEPT !.status = "paused", !.request = s.request]
  BY DEF RunPaused, States
<1>3. s.request \in Request \cup {None}
  BY DEF States
<1>4. Sound(RunPaused(s)) /\ RunPaused(s).attempts = s.attempts
  BY <1>1, <1>2, <1>3
<1>5. /\ Sound(RunCancellationRequested(s))
      /\ RunCancellationRequested(s).attempts = s.attempts
  BY <1>1 DEF RunCancellationRequested
<1>6. Sound(RunResumed(s)) /\ RunResumed(s).attempts = s.attempts
  <2> DEFINE t == RunResumed(s)
  <2>1. t \in States /\ SameButStatus(s, t) /\ Settles("running", t)
    BY RunningFacts DEF RunResumed
  <2> HIDE DEF t
  <2>2. Ordered(t) /\ Accounted(t)
    BY <2>1, KeepsGraph DEF Sound, SameButStatus
  <2>3. t.status \in Final => Idle(t)
    BY <2>1 DEF Settles, Final
  <2> QED
    BY <2>1, <2>2, <2>3 DEF Sound, SameButStatus, t
<1> QED
  BY <1>4, <1>5, <1>6

\* complete_cancellation_if_idle ends a Run only when it is idle.
LEMMA QuiescedSound ==
  ASSUME NEW s \in States, Sound(s)
  PROVE  Sound(Quiesced(s)) /\ Quiesced(s).attempts = s.attempts
<1>1. CASE MayComplete(s)
  <2>1. Cancelled(s, RunCancelled(s)) /\ Idle(s) /\ Quiesced(s) = RunCancelled(s)
    BY <1>1, CancelFacts DEF MayComplete, Quiesced
  <2>2. /\ Ordered(RunCancelled(s)) /\ Accounted(RunCancelled(s))
        /\ Idle(RunCancelled(s))
    BY <2>1, CancelKeeps DEF Sound
  <2> QED
    BY <2>1, <2>2 DEF Cancelled, Sound
<1>2. CASE ~MayComplete(s)
  BY <1>2 DEF Quiesced
<1> QED
  BY <1>1, <1>2

\* Starting an attempt keeps a projection sound and adds the attempt.
LEMMA AcceptSound ==
  ASSUME NEW s \in States, Sound(s), NEW n \in Node,
         s.node[n] = "ready", s.status = "running", Len(s.attempts[n]) < s.limit[n]
  PROVE  LET t == AttemptAccepted(s, n)
         IN /\ Sound(t)
            /\ t.attempts = [s.attempts EXCEPT ![n] = Append(@, "accepted")]
<1> DEFINE t == AttemptAccepted(s, n)
<1>1. Accepted(s, t, n)
  BY AcceptFacts
<1> HIDE DEF t
<1>2. Ordered(t) /\ Accounted(t)
  BY <1>1, AcceptKeeps DEF Sound
<1>3. t.status \in Final => Idle(t)
  BY <1>1 DEF Accepted, Settles, Final
<1> QED
  BY <1>1, <1>2, <1>3 DEF Sound, Accepted, t

\* From s to t, the last attempt g of n turns from status to outcome.
Turns(s, t, n, g, status, outcome) ==
  /\ Sound(t)
  /\ s.attempts[n] # << >> /\ s.attempts[n] \in Seq(AttemptStatuses)
  /\ g = Len(s.attempts[n]) /\ s.attempts[n][g] = status
  /\ t.attempts = [s.attempts EXCEPT ![n] = [@ EXCEPT ![g] = outcome]]

\* Ending the current attempt keeps a projection sound and changes the last
\* entry only; a Run that has ended has none to end.
LEMMA EndSound ==
  ASSUME NEW s \in States, Sound(s), NEW n \in Node, NEW g, NEW status,
         NEW outcome \in AttemptStatuses \ {"accepted"}, IsCurrent(s, n, g, status)
  PROVE  Turns(s, AttemptEnded(s, n, outcome), n, g, status, outcome)
<1> DEFINE t == AttemptEnded(s, n, outcome)
<1>1. s.node[n] \in Active /\ g = Len(s.attempts[n]) /\ s.attempts[n][g] = status
  BY DEF IsCurrent, LastAttempt
<1>2. s.attempts[n] # << >>
  BY <1>1 DEF Sound, Accounted, AccountedAt, Active
<1>3. Ended(s, t, n, outcome)
  BY <1>2, EndFacts
<1> HIDE DEF t
<1>4. Ordered(t) /\ Accounted(t)
  BY <1>1, <1>3, EndKeeps DEF Sound
<1>5. s.status \notin Final
  BY <1>1 DEF Sound, Idle
<1>6. t.status \in Final => Idle(t)
  BY <1>3, <1>5 DEF Ended, Settles
<1>7. s.attempts[n] \in Seq(AttemptStatuses)
  BY DEF States
<1> QED
  BY <1>1, <1>2, <1>3, <1>4, <1>6, <1>7 DEF Sound, Ended, Turns, t

-----------------------------------------------------------------------------
\* One transaction over the four streams: it keeps the agreement when the new
\* projection is sound, only attempt <<n, g>> has changed in it, and the slot,
\* the agent and the hold are what its new status asks for.
LEMMA TransactionKeeps ==
  ASSUME CInv, AsideOK', NEW r \in Run, NEW n \in Node, NEW g \in 1 .. MaxAttempts,
         NEW t, Sound(t), NEW s \in Slots, NEW ag \in AgentStatuses, NEW h \in HoldStatuses,
         Advance(r, <<n, g>>, t, s, ag, h),
         \A k \in Node \ {n} : t.attempts[k] = life[r].attempts[k],
         \A i \in 1 .. MaxAttempts : i # g =>
           /\ i <= Len(t.attempts[n]) <=> i <= Len(life[r].attempts[n])
           /\ i <= Len(t.attempts[n]) => t.attempts[n][i] = life[r].attempts[n][i],
         g <= Len(t.attempts[n]),
         SlotAgrees(s, t.attempts[n][g]), ag = ExpectedAgent(t.attempts[n][g]),
         h \in ExpectedHold(t.attempts[n][g])
  PROVE  CInv'
<1> DEFINE a == <<n, g>>
<1>1. a \in Attempt
  BY DEF Attempt
<1>2. /\ life' = [life EXCEPT ![r] = t] /\ slot' = [slot EXCEPT ![r][a] = s]
      /\ agent' = [agent EXCEPT ![r][a] = ag] /\ hold' = [hold EXCEPT ![r][a] = h]
      /\ effect' = effect
  BY DEF Advance
<1>3. /\ life' \in [Run -> States]
      /\ life'[r] = t /\ \A q \in Run \ {r} : life'[q] = life[q]
  BY <1>2 DEF CInv, Sound
<1>4. /\ slot' \in [Run -> [Attempt -> Slots]] /\ slot'[r][a] = s
      /\ \A q \in Run, b \in Attempt : <<q, b>> # <<r, a>> => slot'[q][b] = slot[q][b]
  BY <1>1, <1>2 DEF CInv
<1>5. /\ agent' \in [Run -> [Attempt -> AgentStatuses]] /\ agent'[r][a] = ag
      /\ \A q \in Run, b \in Attempt : <<q, b>> # <<r, a>> => agent'[q][b] = agent[q][b]
  BY <1>1, <1>2 DEF CInv
<1>6. /\ hold' \in [Run -> [Attempt -> HoldStatuses]] /\ hold'[r][a] = h
      /\ \A q \in Run, b \in Attempt : <<q, b>> # <<r, a>> => hold'[q][b] = hold[q][b]
  BY <1>1, <1>2 DEF CInv
<1>7. \A q \in Run : Sound(life'[q])
  BY <1>3 DEF CInv
<1>8. ASSUME NEW q \in Run, NEW k \in Node, NEW i \in 1 .. MaxAttempts
      PROVE  AgreedAt(q, k, i)'
  <2>1. <<k, i>> \in Attempt /\ AgreedAt(q, k, i)
    BY DEF Attempt, CInv
  <2>2. CASE q = r /\ k = n /\ i = g
    BY <1>3, <1>4, <1>5, <1>6, <2>2 DEF AgreedAt
  <2>3. CASE ~(q = r /\ k = n /\ i = g)
    <3>1. <<q, <<k, i>>>> # <<r, a>>
      BY <2>3
    <3>2. /\ slot'[q][<<k, i>>] = slot[q][<<k, i>>]
          /\ agent'[q][<<k, i>>] = agent[q][<<k, i>>]
          /\ hold'[q][<<k, i>>] = hold[q][<<k, i>>]
      BY <1>4, <1>5, <1>6, <2>1, <3>1
    <3>3. /\ i <= Len(life'[q].attempts[k]) <=> i <= Len(life[q].attempts[k])
          /\ i <= Len(life[q].attempts[k]) =>
               life'[q].attempts[k][i] = life[q].attempts[k][i]
      <4>1. CASE q # r
        BY <1>3, <4>1
      <4>2. CASE q = r /\ k # n
        BY <1>3, <4>2
      <4>3. CASE q = r /\ k = n
        BY <1>3, <2>3, <4>3
      <4> QED
        BY <4>1, <4>2, <4>3
    <3> QED
      BY <2>1, <3>2, <3>3 DEF AgreedAt
  <2> QED
    BY <2>2, <2>3
<1> QED
  BY <1>2, <1>3, <1>4, <1>5, <1>6, <1>7, <1>8 DEF CInv

\* An operation on the lifecycle alone that leaves the attempts as they are.
LEMMA OnlyLifeKeeps ==
  ASSUME CInv, AsideOK', NEW r \in Run, NEW t, Sound(t),
         t.attempts = life[r].attempts, life' = [life EXCEPT ![r] = t],
         UNCHANGED <<slot, agent, hold, effect>>
  PROVE  CInv'
<1>1. /\ life' \in [Run -> States]
      /\ life'[r] = t /\ \A q \in Run \ {r} : life'[q] = life[q]
  BY DEF CInv, Sound
<1>2. \A q \in Run : Sound(life'[q]) /\ life'[q].attempts = life[q].attempts
  BY <1>1 DEF CInv
<1>3. ASSUME NEW q \in Run, NEW k \in Node, NEW i \in 1 .. MaxAttempts
      PROVE  AgreedAt(q, k, i)'
  <2>1. AgreedAt(q, k, i)
    BY DEF CInv
  <2>2. life'[q].attempts[k] = life[q].attempts[k]
    BY <1>2
  <2> QED
    BY <2>1, <2>2 DEF AgreedAt
<1> QED
  BY <1>1, <1>2, <1>3 DEF CInv

\* A step that leaves the four streams alone, and intends or settles effects
\* of attempts at most.
LEMMA AsideKeeps ==
  ASSUME CInv, AsideOK', UNCHANGED <<life, slot, agent, hold>>,
         effect' \in [Run -> SUBSET Attempt]
  PROVE  CInv'
<1>1. ASSUME NEW q \in Run, NEW k \in Node, NEW i \in 1 .. MaxAttempts
      PROVE  AgreedAt(q, k, i)'
  <2>1. AgreedAt(q, k, i)
    BY DEF CInv
  <2> QED
    BY <2>1 DEF AgreedAt
<1> QED
  BY <1>1 DEF CInv

\* Whatever leaves the pending cancellations and the sweeps alone.
LEMMA AsideSame ==
  ASSUME AsideOK, UNCHANGED <<completing, sweep>>
  PROVE  AsideOK'
BY DEF AsideOK

\* The effects of attempts are intended and get their receipts.
LEMMA EffectStep ==
  ASSUME CInv, NEW r \in Run, NEW n \in Node, NEW g \in 1 .. MaxAttempts,
         IntendEffect(r, n, g) \/ RecordReceipt(r, n, g)
  PROVE  CInv'
<1>1. <<n, g>> \in Attempt /\ effect \in [Run -> SUBSET Attempt] /\ AsideOK
  BY DEF CInv, Attempt
<1>2. /\ effect' \in [Run -> SUBSET Attempt]
      /\ UNCHANGED <<life, slot, agent, hold>> /\ UNCHANGED <<completing, sweep>>
  BY <1>1 DEF IntendEffect, RecordReceipt
<1> QED
  BY <1>1, <1>2, AsideKeeps, AsideSame

-----------------------------------------------------------------------------
\* accept_routing starts the next generation of a ready node.
LEMMA AcceptStep ==
  ASSUME CInv, NEW r \in Run, NEW n \in Node, NEW p \in Provider, NEW action \in {"initial"} \cup HealthProbe,
         AcceptRouting(r, n, p, action)
  PROVE  CInv'
<1> DEFINE tries == life[r].attempts[n]
           g == Len(tries) + 1
           t == AttemptAccepted(life[r], n)
           s == [status |-> "active", outcome |-> "none", provider |-> p,
                 action |-> action, finish |-> None]
<1>1. /\ life[r].status = "running" /\ life[r].node[n] = "ready"
      /\ Len(tries) < life[r].limit[n]
      /\ Advance(r, <<n, g>>, t, s, "active", "reserved")
      /\ UNCHANGED <<completing, sweep>>
  BY DEF AcceptRouting, AgentStatus
<1>2. Sound(life[r]) /\ life[r] \in States
  BY DEF CInv
<1>3. tries \in Seq(AttemptStatuses) /\ Len(tries) \in Nat
  BY <1>2 DEF States
<1>4. g \in 1 .. MaxAttempts
  BY <1>1, <1>2, <1>3, BoundAssumption DEF States
<1>5. Sound(t) /\ t.attempts = [life[r].attempts EXCEPT ![n] = Append(@, "accepted")]
  BY <1>1, <1>2, AcceptSound
<1>6. /\ t.attempts[n] = Append(tries, "accepted")
      /\ \A k \in Node \ {n} : t.attempts[k] = life[r].attempts[k]
  BY <1>2, <1>5 DEF States
<1>7. /\ Len(t.attempts[n]) = g /\ t.attempts[n][g] = "accepted"
      /\ \A i \in 1 .. Len(tries) : t.attempts[n][i] = tries[i]
  BY <1>3, <1>6
<1> HIDE DEF t
<1>8. s \in Slots
  BY DEF Slots
<1>9. "active" \in AgentStatuses /\ "reserved" \in HoldStatuses
  BY DEF AgentStatuses, HoldStatuses
<1>10. /\ SlotAgrees(s, "accepted") /\ "active" = ExpectedAgent("accepted")
       /\ "reserved" \in ExpectedHold("accepted")
  BY DEF SlotAgrees, ExpectedAgent, ExpectedHold
<1>11. \A i \in 1 .. MaxAttempts : i # g =>
         /\ i <= Len(t.attempts[n]) <=> i <= Len(tries)
         /\ i <= Len(t.attempts[n]) => t.attempts[n][i] = tries[i]
  BY <1>3, <1>7
<1>12. AsideOK'
  BY <1>1, AsideSame DEF CInv
<1> HIDE DEF s, g, tries
<1>13. g <= Len(t.attempts[n])
  BY <1>4, <1>7
<1>14. \A i \in 1 .. MaxAttempts : i # g =>
         /\ i <= Len(t.attempts[n]) <=> i <= Len(life[r].attempts[n])
         /\ i <= Len(t.attempts[n]) => t.attempts[n][i] = life[r].attempts[n][i]
  BY <1>11 DEF tries
<1>15. /\ SlotAgrees(s, t.attempts[n][g]) /\ "active" = ExpectedAgent(t.attempts[n][g])
       /\ "reserved" \in ExpectedHold(t.attempts[n][g])
  BY <1>7, <1>10
<1>16. \A k \in Node \ {n} : t.attempts[k] = life[r].attempts[k]
  BY <1>6
<1>17. Sound(t) /\ Advance(r, <<n, g>>, t, s, "active", "reserved")
  BY <1>1, <1>5, <1>10
<1> QED
  BY <1>4, <1>8, <1>9, <1>12, <1>13, <1>14, <1>15, <1>16, <1>17, TransactionKeeps

\* The four ways an attempt ends or becomes unknown: the current attempt takes
\* the outcome, and the other streams follow it.
LEMMA EndStep ==
  ASSUME CInv, AsideOK', NEW r \in Run, NEW n \in Node, NEW g \in 1 .. MaxAttempts,
         NEW status \in {"accepted", "outcome_unknown"},
         NEW outcome \in AttemptStatuses \ {"accepted"},
         NEW t \in {AttemptEnded(life[r], n, outcome), Quiesced(AttemptEnded(life[r], n, outcome))},
         NEW s \in Slots, NEW h \in HoldStatuses,
         IsCurrent(life[r], n, g, status),
         SlotAgrees(s, outcome), h \in ExpectedHold(outcome),
         Advance(r, <<n, g>>, t, s, AgentStatus(outcome), h)
  PROVE  CInv'
<1> DEFINE e == AttemptEnded(life[r], n, outcome)
           tries == life[r].attempts[n]
<1>1. Sound(life[r]) /\ life[r] \in States
  BY DEF CInv
<1>2. /\ e \in States /\ Sound(e)
      /\ tries # << >> /\ tries \in Seq(AttemptStatuses)
      /\ g = Len(tries) /\ tries[g] = status
      /\ e.attempts = [life[r].attempts EXCEPT ![n] = [@ EXCEPT ![g] = outcome]]
  <2>1. Turns(life[r], e, n, g, status, outcome)
    BY <1>1, EndSound
  <2> QED
    BY <2>1 DEF Turns, Sound
<1>3. Sound(t) /\ t.attempts = e.attempts
  BY <1>2, QuiescedSound
<1>4. /\ t.attempts[n] = [tries EXCEPT ![g] = outcome]
      /\ \A k \in Node \ {n} : t.attempts[k] = life[r].attempts[k]
  BY <1>1, <1>2, <1>3 DEF States
<1> HIDE DEF e
<1>5. /\ Len(t.attempts[n]) = Len(tries) /\ t.attempts[n][g] = outcome
      /\ \A i \in 1 .. Len(tries) : i # g => t.attempts[n][i] = tries[i]
  BY <1>2, <1>4, ExceptSeq
<1>6. AgentStatus(outcome) = ExpectedAgent(outcome) /\ AgentStatus(outcome) \in AgentStatuses
  BY DEF AgentStatus, ExpectedAgent, AttemptStatuses, AgentStatuses
<1>7. \A i \in 1 .. MaxAttempts : i # g =>
        /\ i <= Len(t.attempts[n]) <=> i <= Len(life[r].attempts[n])
        /\ i <= Len(t.attempts[n]) => t.attempts[n][i] = life[r].attempts[n][i]
  BY <1>2, <1>5
<1>8. g <= Len(t.attempts[n])
  BY <1>2, <1>5
<1> QED
  BY SMTT(30), <1>3, <1>4, <1>5, <1>6, <1>7, <1>8, TransactionKeeps

-----------------------------------------------------------------------------
\* The statuses an operation leaves, spelled out.
LEMMA SlotFacts ==
  ASSUME NEW s \in Slots, NEW outcome \in {"succeeded", "failed", "cancelled"},
         NEW f \in Payloads \cup {None}
  PROVE  /\ Release(s, outcome) \in Slots /\ SlotAgrees(Release(s, outcome), outcome)
         /\ LET t == [Release(s, outcome) EXCEPT !.finish = f]
            IN t \in Slots /\ SlotAgrees(t, outcome)
BY DEF Release, SlotAgrees, Slots

\* The slot of an attempt that becomes unknown.
LEMMA UnknownFacts ==
  ASSUME NEW s \in Slots, SlotAgrees(s, "accepted"), NEW f \in Payloads
  PROVE  LET t == [s EXCEPT !.status = "outcome_unknown", !.finish = f]
         IN t \in Slots /\ SlotAgrees(t, "outcome_unknown")
BY DEF SlotAgrees, Slots

\* Becoming unknown, whether an attempt or a sweep says so.
LEMMA UnknownStep ==
  ASSUME CInv, AsideOK', NEW r \in Run, NEW n \in Node, NEW g \in 1 .. MaxAttempts,
         NEW time \in AsOf, BecomeUnknown(r, n, g, time)
  PROVE  CInv'
<1> DEFINE a == <<n, g>>
           s == [slot[r][a] EXCEPT !.status = "outcome_unknown",
                                   !.finish = <<"outcome_unknown", time>>]
           e == AttemptEnded(life[r], n, "outcome_unknown")
<1>1. /\ IsCurrent(life[r], n, g, "accepted")
      /\ Advance(r, a, e, s, AgentStatus("outcome_unknown"), "unknown")
  BY DEF BecomeUnknown, StillOpen
<1>2. a \in Attempt /\ slot[r][a] \in Slots
  BY DEF CInv, Attempt
<1>3. SlotAgrees(slot[r][a], "accepted")
  <2>1. Turns(life[r], e, n, g, "accepted", "outcome_unknown")
    BY <1>1, EndSound DEF CInv, AttemptStatuses
  <2>2. AgreedAt(r, n, g)
    BY DEF CInv
  <2>3. g <= Len(life[r].attempts[n]) /\ life[r].attempts[n][g] = "accepted"
    BY <2>1 DEF Turns
  <2> QED
    BY <2>2, <2>3 DEF AgreedAt
<1>4. <<"outcome_unknown", time>> \in Payloads
  BY DEF Payloads
<1>5. s \in Slots /\ SlotAgrees(s, "outcome_unknown")
  BY <1>2, <1>3, <1>4, UnknownFacts
<1> HIDE DEF s, e
<1>6. /\ "unknown" \in HoldStatuses /\ "unknown" \in ExpectedHold("outcome_unknown")
      /\ "outcome_unknown" \in AttemptStatuses \ {"accepted"}
      /\ e \in {AttemptEnded(life[r], n, "outcome_unknown"),
                Quiesced(AttemptEnded(life[r], n, "outcome_unknown"))}
  BY DEF HoldStatuses, ExpectedHold, AttemptStatuses, e
<1> QED
  BY <1>1, <1>5, <1>6, EndStep

\* The operations that release an attempt's slot.
LEMMA ReleaseStep ==
  ASSUME CInv, NEW r \in Run, NEW n \in Node, NEW g \in 1 .. MaxAttempts,
         \/ \E settled \in Settled : FinishFailed(r, n, g, settled)
         \/ \E settled \in Settled : AcknowledgeCancellation(r, n, g, settled)
         \/ FinishVerified(r, n, g)
         \/ ReconcileAttempt(r, n, g)
  PROVE  CInv'
<1> DEFINE a == <<n, g>>
<1>1. AsideOK'
  <2>1. UNCHANGED <<completing, sweep>>
    BY DEF FinishFailed, AcknowledgeCancellation, FinishVerified, ReconcileAttempt
  <2> QED
    BY <2>1, AsideSame DEF CInv
<1>2. a \in Attempt /\ slot[r][a] \in Slots
  BY DEF CInv, Attempt
<1>3. <<"failed">> \in Payloads /\ <<"succeeded">> \in Payloads
  BY DEF Payloads
<1>4. ASSUME NEW settled \in Settled, FinishFailed(r, n, g, settled)
      PROVE  CInv'
  <2> DEFINE s == [Release(slot[r][a], "failed") EXCEPT !.finish = <<"failed">>]
  <2>1. /\ IsCurrent(life[r], n, g, "accepted")
        /\ Advance(r, a, Quiesced(AttemptEnded(life[r], n, "failed")), s,
                   AgentStatus("failed"), settled)
    BY <1>4 DEF FinishFailed, StillOpen
  <2>2. s \in Slots /\ SlotAgrees(s, "failed")
    BY <1>2, <1>3, SlotFacts
  <2> HIDE DEF s
  <2>3. settled \in HoldStatuses /\ settled \in ExpectedHold("failed")
    BY DEF Settled, HoldStatuses, ExpectedHold
  <2>4. "failed" \in AttemptStatuses \ {"accepted"}
    BY DEF AttemptStatuses
  <2> QED
    BY <1>1, <2>1, <2>2, <2>3, <2>4, EndStep
<1>5. ASSUME NEW settled \in Settled, AcknowledgeCancellation(r, n, g, settled)
      PROVE  CInv'
  <2> DEFINE s == Release(slot[r][a], "cancelled")
  <2>1. /\ IsCurrent(life[r], n, g, "accepted")
        /\ Advance(r, a, Quiesced(AttemptEnded(life[r], n, "cancelled")), s,
                   AgentStatus("cancelled"), settled)
    BY <1>5 DEF AcknowledgeCancellation, StillOpen
  <2>2. s \in Slots /\ SlotAgrees(s, "cancelled")
    BY <1>2, <1>3, SlotFacts
  <2> HIDE DEF s
  <2>3. settled \in HoldStatuses /\ settled \in ExpectedHold("cancelled")
    BY DEF Settled, HoldStatuses, ExpectedHold
  <2>4. "cancelled" \in AttemptStatuses \ {"accepted"}
    BY DEF AttemptStatuses
  <2> QED
    BY <1>1, <2>1, <2>2, <2>3, <2>4, EndStep
<1>6. CASE FinishVerified(r, n, g)
  <2> DEFINE s == [Release(slot[r][a], "succeeded") EXCEPT !.finish = <<"succeeded">>]
  <2>1. /\ IsCurrent(life[r], n, g, "accepted")
        /\ Advance(r, a, AttemptEnded(life[r], n, "succeeded"), s,
                   AgentStatus("succeeded"), "committed")
    BY <1>6 DEF FinishVerified, StillOpen
  <2>2. s \in Slots /\ SlotAgrees(s, "succeeded")
    BY <1>2, <1>3, SlotFacts
  <2> HIDE DEF s
  <2>3. "committed" \in HoldStatuses /\ "committed" \in ExpectedHold("succeeded")
    BY DEF HoldStatuses, ExpectedHold
  <2>4. "succeeded" \in AttemptStatuses \ {"accepted"}
    BY DEF AttemptStatuses
  <2> QED
    BY <1>1, <2>1, <2>2, <2>3, <2>4, EndStep
<1>7. CASE ReconcileAttempt(r, n, g)
  <2> DEFINE s == Release(slot[r][a], "failed")
  <2>1. /\ IsCurrent(life[r], n, g, "outcome_unknown")
        /\ Advance(r, a, Quiesced(AttemptEnded(life[r], n, "failed")), s,
                   AgentStatus("failed"), "committed")
    BY <1>7 DEF ReconcileAttempt, StillOpen
  <2>2. s \in Slots /\ SlotAgrees(s, "failed")
    BY <1>2, <1>3, SlotFacts
  <2> HIDE DEF s
  <2>3. "committed" \in HoldStatuses /\ "committed" \in ExpectedHold("failed")
    BY DEF HoldStatuses, ExpectedHold
  <2>4. "failed" \in AttemptStatuses \ {"accepted"}
    BY DEF AttemptStatuses
  <2> QED
    BY <1>1, <2>1, <2>2, <2>3, <2>4, EndStep
<1> QED
  BY <1>4, <1>5, <1>6, <1>7

\* The steps of a sweep: its work only shrinks, and a marked attempt becomes
\* unknown at the time the sweep carries.
LEMMA SweepStep ==
  ASSUME CInv, NEW s \in Sweeper,
         \/ \E r \in Run, n \in Node, g \in 1 .. MaxAttempts :
              SweepMarks(s, r, n, g) \/ SweepPassesOver(s, r, n, g) \/ SweepAborts(s, r, n, g)
         \/ \E t \in AsOf : \E due \in SUBSET OccupiedAnywhere : SweepReads(s, t, due)
         \/ SweeperCrashes(s)
  PROVE  CInv'
<1> DEFINE Sweeps == [status : {"idle", "sweeping"},
                      todo : SUBSET (Run \X Attempt), asOf : AsOf \cup {None}]
<1>1. /\ completing \subseteq Run /\ sweep \in [Sweeper -> Sweeps]
      /\ \A q \in Sweeper : sweep[q].todo # {} => sweep[q].asOf \in AsOf
      /\ effect \in [Run -> SUBSET Attempt]
  BY DEF CInv, AsideOK
<1>2. ASSUME NEW x \in Sweeps, x.todo # {} => x.asOf \in AsOf,
             sweep' = [sweep EXCEPT ![s] = x], UNCHANGED completing
      PROVE  AsideOK'
  <2>1. sweep' \in [Sweeper -> Sweeps] /\ \A q \in Sweeper : sweep'[q] = IF q = s THEN x ELSE sweep[q]
    BY <1>1, <1>2
  <2>2. \A q \in Sweeper : sweep'[q].todo # {} => sweep'[q].asOf \in AsOf
    BY <1>1, <1>2, <2>1
  <2> QED
    BY <1>1, <1>2, <2>1, <2>2 DEF AsideOK
<1>3. Resting \in Sweeps /\ Resting.todo = {}
  BY DEF Resting
<1>4. ASSUME NEW x, Swept(s, x), UNCHANGED completing
      PROVE  AsideOK'
  <2>1. CASE sweep[s].todo = {x}
    BY <1>2, <1>3, <1>4, <2>1 DEF Swept
  <2>2. CASE sweep[s].todo # {x}
    <3> DEFINE y == [sweep[s] EXCEPT !.todo = @ \ {x}]
    <3>1. /\ y \in Sweeps /\ y.todo \subseteq sweep[s].todo /\ y.asOf = sweep[s].asOf
      <4>1. sweep[s] \in Sweeps /\ sweep[s].todo \ {x} \subseteq Run \X Attempt
        BY <1>1
      <4> QED
        BY <4>1
    <3>2. sweep' = [sweep EXCEPT ![s] = y]
      BY <1>4, <2>2 DEF Swept
    <3>3. y.todo # {} => y.asOf \in AsOf
      BY <1>1, <3>1
    <3> HIDE DEF y
    <3> QED
      BY <1>2, <1>4, <3>1, <3>2, <3>3
  <2> QED
    BY <2>1, <2>2
<1>5. ASSUME NEW r \in Run, NEW n \in Node, NEW g \in 1 .. MaxAttempts, SweepMarks(s, r, n, g)
      PROVE  CInv'
  <2>1. AsideOK'
    BY <1>4, <1>5 DEF SweepMarks
  <2>2. sweep[s].asOf \in AsOf
    BY <1>1, <1>5 DEF SweepMarks
  <2> QED
    BY <1>5, <2>1, <2>2, UnknownStep DEF SweepMarks
<1>6. ASSUME NEW r \in Run, NEW n \in Node, NEW g \in 1 .. MaxAttempts,
             SweepPassesOver(s, r, n, g)
      PROVE  CInv'
  BY <1>1, <1>4, <1>6, AsideKeeps DEF SweepPassesOver
<1>7. ASSUME NEW r \in Run, NEW n \in Node, NEW g \in 1 .. MaxAttempts, SweepAborts(s, r, n, g)
      PROVE  CInv'
  <2>1. AsideOK'
    BY <1>2, <1>3, <1>7 DEF SweepAborts
  <2> QED
    BY <1>1, <1>7, <2>1, AsideKeeps DEF SweepAborts
<1>8. ASSUME NEW t \in AsOf, NEW due \in SUBSET OccupiedAnywhere, SweepReads(s, t, due)
      PROVE  CInv'
  <2> DEFINE y == [status |-> "sweeping", todo |-> due, asOf |-> t]
  <2>1. due \subseteq Run \X Attempt
    BY DEF OccupiedAnywhere, Occupied
  <2>2. y \in Sweeps /\ y.asOf \in AsOf
    BY <2>1
  <2>3. sweep' = [sweep EXCEPT ![s] = y] /\ UNCHANGED <<life, slot, agent, hold, effect, completing>>
    BY <1>8 DEF SweepReads
  <2> HIDE DEF y
  <2>4. AsideOK'
    BY <1>2, <2>2, <2>3
  <2> QED
    BY <1>1, <2>3, <2>4, AsideKeeps
<1>9. CASE SweeperCrashes(s)
  <2>1. AsideOK'
    BY <1>2, <1>3, <1>9 DEF SweeperCrashes
  <2> QED
    BY <1>1, <1>9, <2>1, AsideKeeps DEF SweeperCrashes
<1> QED
  BY <1>5, <1>6, <1>7, <1>8, <1>9

\* The operations on a Run as a whole.
LEMMA RunStep ==
  ASSUME CInv, NEW r \in Run,
         \/ PauseRun(r) \/ ResumeRun(r)
         \/ RequestCancel(r) \/ CompleteCancellation(r) \/ CancellerCrashes(r)
  PROVE  CInv'
<1>1. life[r] \in States /\ Sound(life[r]) /\ AsideOK
  BY DEF CInv
<1>2. AsideOK'
  <2>1. UNCHANGED sweep /\ completing' \subseteq completing \cup {r}
    BY DEF PauseRun, ResumeRun, RequestCancel, CompleteCancellation, CancellerCrashes, OnlyLife
  <2> QED
    BY <1>1, <2>1 DEF AsideOK
<1>3. CASE PauseRun(r)
  BY <1>1, <1>2, <1>3, StatusSound, OnlyLifeKeeps DEF PauseRun, OnlyLife, Final
<1>4. CASE ResumeRun(r)
  BY <1>1, <1>2, <1>4, StatusSound, OnlyLifeKeeps DEF ResumeRun, OnlyLife
<1>5. CASE RequestCancel(r)
  <2>1. CASE life[r].status \in {"running", "paused"}
    BY <1>1, <1>2, <1>5, <2>1, StatusSound, OnlyLifeKeeps DEF RequestCancel, OnlyLife, Final
  <2>2. CASE life[r].status \notin {"running", "paused"}
    BY <1>1, <1>2, <1>5, <2>2, OnlyLifeKeeps DEF RequestCancel, OnlyLife
  <2> QED
    BY <2>1, <2>2
<1>6. CASE CompleteCancellation(r)
  BY <1>1, <1>2, <1>6, QuiescedSound, OnlyLifeKeeps DEF CompleteCancellation, OnlyLife
<1>7. CASE CancellerCrashes(r)
  BY <1>2, <1>7, AsideKeeps DEF CancellerCrashes, CInv
<1> QED
  BY <1>3, <1>4, <1>5, <1>6, <1>7

\* Every Run starts with a sound projection and no attempt.
LEMMA InitCInv == Init => CInv
<1> SUFFICES ASSUME Init PROVE CInv
  OBVIOUS
<1>1. PICK x \in Graph :
        life = [r \in Run |-> RunStarted(GraphNodesAppended(Initialized, Node, x.deps, x.limit))]
  BY DEF Init
<1> DEFINE d == x.deps
           m == x.limit
           s == GraphNodesAppended(Initialized, Node, d, m)
<1>2. d \in [Node -> SUBSET Node] /\ m \in [Node -> 1 .. MaxAttempts]
  BY ControlAssumption
<1>3. Appended(Initialized, s, Node, d, m)
  BY <1>2, AppendFacts, InitializedFacts
<1>4. Ordered(s) /\ Accounted(s)
  BY <1>2, AppendKeeps, InitializedFacts
<1> HIDE DEF s
<1>5. s \in States /\ s.attempts = Initialized.attempts
  BY <1>3 DEF Appended
<1>6. /\ RunStarted(s) \in States /\ SameButStatus(s, RunStarted(s))
      /\ Settles("running", RunStarted(s))
  BY <1>5, RunningFacts DEF RunStarted
<1>7. Ordered(RunStarted(s)) /\ Accounted(RunStarted(s))
  BY <1>4, <1>5, <1>6, KeepsGraph DEF SameButStatus
<1>8. Sound(RunStarted(s))
  BY <1>6, <1>7 DEF Sound, Settles, Final
<1>9. \A r \in Run : life[r] = RunStarted(s)
  BY <1>1 DEF s
<1>10. \A r \in Run, n \in Node : life[r].attempts[n] = << >>
  BY <1>5, <1>6, <1>9 DEF SameButStatus, Initialized
<1>11. life \in [Run -> States] /\ \A r \in Run : Sound(life[r])
  BY <1>1, <1>6, <1>8, <1>9 DEF s
<1>12. /\ slot \in [Run -> [Attempt -> Slots]] /\ effect \in [Run -> SUBSET Attempt]
       /\ agent \in [Run -> [Attempt -> AgentStatuses]]
       /\ hold \in [Run -> [Attempt -> HoldStatuses]]
  <2>1. Free \in Slots
    BY DEF Free, Slots
  <2> QED
    BY <2>1 DEF Init, AgentStatuses, HoldStatuses
<1>13. AsideOK
  BY DEF Init, AsideOK, Resting
<1>14. ASSUME NEW r \in Run, NEW n \in Node, NEW g \in 1 .. MaxAttempts
       PROVE  AgreedAt(r, n, g)
  <2>1. <<n, g>> \in Attempt
    BY DEF Attempt
  <2>2. /\ slot[r][<<n, g>>] = Free /\ agent[r][<<n, g>>] = "absent"
        /\ hold[r][<<n, g>>] = "absent"
    BY <2>1 DEF Init
  <2>3. Len(life[r].attempts[n]) = 0
    BY <1>10
  <2> QED
    BY <2>2, <2>3 DEF AgreedAt
<1> QED
  BY <1>11, <1>12, <1>13, <1>14 DEF CInv

LEMMA NextCInv == CInv /\ [Next]_vars => CInv'
<1> SUFFICES ASSUME CInv, [Next]_vars PROVE CInv'
  OBVIOUS
<1>1. ASSUME NEW r \in Run, NEW n \in Node, NEW p \in Provider,
             NEW action \in {"initial"} \cup HealthProbe, AcceptRouting(r, n, p, action)
      PROVE  CInv'
  BY <1>1, AcceptStep
<1>2. ASSUME NEW r \in Run, NEW n \in Node, NEW g \in 1 .. MaxAttempts,
             \/ \E settled \in Settled :
                  FinishFailed(r, n, g, settled) \/ AcknowledgeCancellation(r, n, g, settled)
             \/ FinishVerified(r, n, g)
             \/ ReconcileAttempt(r, n, g)
      PROVE  CInv'
  BY <1>2, ReleaseStep
<1>3. ASSUME NEW r \in Run, NEW n \in Node, NEW g \in 1 .. MaxAttempts, NEW t \in AsOf,
             FinishUnknown(r, n, g, t)
      PROVE  CInv'
  BY <1>3, UnknownStep, AsideSame DEF FinishUnknown, CInv
<1>4. ASSUME NEW s \in Sweeper,
             \/ \E r \in Run, n \in Node, g \in 1 .. MaxAttempts :
                  SweepMarks(s, r, n, g) \/ SweepPassesOver(s, r, n, g) \/ SweepAborts(s, r, n, g)
             \/ \E t \in AsOf : \E due \in SUBSET OccupiedAnywhere : SweepReads(s, t, due)
             \/ SweeperCrashes(s)
      PROVE  CInv'
  BY <1>4, SweepStep
<1>5. ASSUME NEW r \in Run,
             \/ PauseRun(r) \/ ResumeRun(r)
             \/ RequestCancel(r) \/ CompleteCancellation(r) \/ CancellerCrashes(r)
      PROVE  CInv'
  BY <1>5, RunStep
<1>6. ASSUME NEW r \in Run, NEW n \in Node, NEW g \in 1 .. MaxAttempts,
             IntendEffect(r, n, g) \/ RecordReceipt(r, n, g)
      PROVE  CInv'
  BY <1>6, EffectStep
<1>7. CASE UNCHANGED vars
  <2>1. UNCHANGED <<life, slot, agent, hold, effect>> /\ UNCHANGED <<completing, sweep>>
    BY <1>7 DEF vars
  <2> QED
    BY <2>1, AsideKeeps, AsideSame DEF CInv
<1> QED
  BY <1>1, <1>2, <1>3, <1>4, <1>5, <1>6, <1>7 DEF Next

\* The invariant holds in every reachable state.
THEOREM Invariance == Spec => []CInv
BY InitCInv, NextCInv, PTL DEF Spec

\* The four projections, the pending cancellations and the sweeps keep their
\* shape.
THEOREM TypeCorrect == Spec => []TypeOK
<1>1. CInv => TypeOK
  BY DEF CInv, AsideOK, TypeOK
<1> QED
  BY <1>1, Invariance, PTL

\* An attempt that holds a slot is in flight or unknown, so its node is active.
LEMMA OccupiedIsActive ==
  ASSUME CInv, NEW r \in Run, NEW a \in Occupied(r)
  PROVE  ~Idle(life[r])
<1>1. PICK n \in Node, g \in 1 .. MaxAttempts : a = <<n, g>>
  BY DEF Occupied, Attempt
<1> DEFINE tries == life[r].attempts[n]
<1>2. slot[r][<<n, g>>].status \in {"active", "outcome_unknown"}
  BY <1>1 DEF Occupied
<1>3. AgreedAt(r, n, g)
  BY DEF CInv
<1>4. g <= Len(tries) /\ tries[g] \in {"accepted", "outcome_unknown"}
  BY <1>2, <1>3 DEF AgreedAt, Free, SlotAgrees
<1>5. tries \in Seq(AttemptStatuses) /\ AccountedAt(life[r], n)
  BY DEF CInv, Sound, Accounted, States
<1>6. g = Len(tries)
  <2>1. Len(tries) \in Nat
    BY <1>5
  <2>2. g < Len(tries) => tries[g] = "failed"
    BY <1>5, <2>1 DEF AccountedAt
  <2> QED
    BY <1>4, <2>1, <2>2
<1>7. tries # << >>
  BY <1>4
<1>8. life[r].node[n] \in Active
  BY <1>4, <1>5, <1>6, <1>7 DEF AccountedAt, LastAttempt, Active
<1> QED
  BY <1>8 DEF Idle

\* Lifecycle, slots, agents and reservations of a Run agree in every reachable
\* state, whatever raced, so the recovery check of recovery/run.py refuses a Run
\* only over an effect that an ended attempt left without a receipt, or over the
\* route of a health probe.
THEOREM StreamsAlwaysAgree == Spec => []RunsAgree
<1>1. CInv => RunsAgree
  <2> SUFFICES ASSUME CInv, NEW r \in Run PROVE StreamsAgree(r)
    BY DEF RunsAgree
  <2>1. life[r].status \in Final => Occupied(r) = {}
    BY OccupiedIsActive DEF CInv, Sound
  <2>2. \A n \in Node, g \in 1 .. MaxAttempts : AgreedAt(r, n, g)
    BY DEF CInv
  <2> QED
    BY <2>1, <2>2 DEF StreamsAgree, AgreedAt
<1> QED
  BY <1>1, Invariance, PTL

-----------------------------------------------------------------------------
\* An attempt is given a slot: the limits had room for it.
Opens(r, n, g, p) ==
  /\ HasRoom(r, n, p)
  /\ Cardinality(Agents(r)) < MaxAgents
  /\ \E s \in Slots :
       /\ s.provider = p /\ s.outcome = "none"
       /\ slot' = [slot EXCEPT ![r][<<n, g>>] = s]
  /\ agent' = [agent EXCEPT ![r][<<n, g>>] = "active"]

\* An attempt that holds a slot keeps it or gives it up; it succeeds only
\* while its Run may.
Closes(r, n, g) ==
  /\ <<n, g>> \in Occupied(r) /\ agent[r][<<n, g>>] # "absent"
  /\ \E s \in Slots :
       /\ s.provider = slot[r][<<n, g>>].provider
       /\ s.outcome = "succeeded" => MaySucceed(life[r]) \/ slot[r][<<n, g>>].outcome = "succeeded"
       /\ slot' = [slot EXCEPT ![r][<<n, g>>] = s]
  /\ \E ag : agent' = [agent EXCEPT ![r][<<n, g>>] = ag]

\* What one step may do to slots and agents.
Moves ==
  \/ \E r \in Run, n \in Node, g \in 1 .. MaxAttempts, p \in Provider : Opens(r, n, g, p)
  \/ \E r \in Run, n \in Node, g \in 1 .. MaxAttempts : Closes(r, n, g)
  \/ UNCHANGED <<slot, agent>>

LEMMA StepMoves ==
  ASSUME CInv, CInv', [Next]_vars
  PROVE  Moves
<1>1. ASSUME NEW r \in Run, NEW n \in Node, NEW p \in Provider,
             NEW action \in {"initial"} \cup HealthProbe, AcceptRouting(r, n, p, action)
      PROVE  Moves
  <2> DEFINE g == Len(life[r].attempts[n]) + 1
             s == [status |-> "active", outcome |-> "none", provider |-> p,
                   action |-> action, finish |-> None]
  <2>1. /\ HasRoom(r, n, p) /\ Cardinality(Agents(r)) < MaxAgents
        /\ Len(life[r].attempts[n]) < life[r].limit[n]
        /\ slot' = [slot EXCEPT ![r][<<n, g>>] = s]
        /\ agent' = [agent EXCEPT ![r][<<n, g>>] = "active"]
    BY <1>1 DEF AcceptRouting, Advance, AgentStatus
  <2>2. /\ Len(life[r].attempts[n]) \in Nat /\ life[r].limit[n] \in 1 .. MaxAttempts
    BY DEF CInv, States
  <2>3. g \in 1 .. MaxAttempts
    <3>1. Len(life[r].attempts[n]) < life[r].limit[n]
      BY <2>1
    <3> QED
      BY <2>2, <3>1, BoundAssumption
  <2>4. s \in Slots /\ s.provider = p /\ s.outcome = "none"
    BY DEF Slots
  <2> HIDE DEF g, s
  <2>5. Opens(r, n, g, p)
    BY <2>1, <2>4 DEF Opens
  <2> QED
    BY <2>3, <2>5 DEF Moves
<1>2. ASSUME NEW r \in Run, NEW n \in Node, NEW g \in 1 .. MaxAttempts,
             NEW status \in {"accepted", "outcome_unknown"},
             <<n, g>> \in Occupied(r), agent[r][<<n, g>>] = ExpectedAgent(status),
             NEW s, s.provider = slot[r][<<n, g>>].provider,
             s.outcome = "succeeded" =>
               MaySucceed(life[r]) \/ slot[r][<<n, g>>].outcome = "succeeded",
             slot' = [slot EXCEPT ![r][<<n, g>>] = s],
             NEW ag, agent' = [agent EXCEPT ![r][<<n, g>>] = ag]
      PROVE  Moves
  <2>1. agent[r][<<n, g>>] # "absent"
    BY <1>2 DEF ExpectedAgent
  <2>2. s \in Slots
    <3>1. slot \in [Run -> [Attempt -> Slots]] /\ slot' \in [Run -> [Attempt -> Slots]]
      BY DEF CInv
    <3>2. <<n, g>> \in Attempt
      BY DEF Attempt
    <3>3. slot'[r][<<n, g>>] = s
      BY <1>2, <3>1, <3>2
    <3> QED
      BY <3>1, <3>2, <3>3
  <2>3. Closes(r, n, g)
    BY <1>2, <2>1, <2>2 DEF Closes
  <2> QED
    BY <2>3 DEF Moves
<1>3. ASSUME NEW r \in Run, NEW n \in Node, NEW g \in 1 .. MaxAttempts
      PROVE  slot[r][<<n, g>>] \in Slots
  <2>1. <<n, g>> \in Attempt
    BY DEF Attempt
  <2> QED
    BY <2>1 DEF CInv
<1>4. ASSUME NEW r \in Run, NEW n \in Node, NEW g \in 1 .. MaxAttempts,
             NEW settled \in Settled, FinishFailed(r, n, g, settled)
      PROVE  Moves
  <2> DEFINE s == [Release(slot[r][<<n, g>>], "failed") EXCEPT !.finish = <<"failed">>]
  <2>1. /\ <<n, g>> \in Occupied(r) /\ agent[r][<<n, g>>] = ExpectedAgent("accepted")
        /\ slot' = [slot EXCEPT ![r][<<n, g>>] = s]
        /\ agent' = [agent EXCEPT ![r][<<n, g>>] = AgentStatus("failed")]
    BY <1>4 DEF FinishFailed, StillOpen, Advance
  <2>2. s.provider = slot[r][<<n, g>>].provider /\ s.outcome = "failed"
    BY <1>3 DEF Release, Slots
  <2> HIDE DEF s
  <2> QED
    BY <1>2, <2>1, <2>2
<1>5. ASSUME NEW r \in Run, NEW n \in Node, NEW g \in 1 .. MaxAttempts,
             NEW settled \in Settled, AcknowledgeCancellation(r, n, g, settled)
      PROVE  Moves
  <2> DEFINE s == Release(slot[r][<<n, g>>], "cancelled")
  <2>1. /\ <<n, g>> \in Occupied(r) /\ agent[r][<<n, g>>] = ExpectedAgent("accepted")
        /\ slot' = [slot EXCEPT ![r][<<n, g>>] = s]
        /\ agent' = [agent EXCEPT ![r][<<n, g>>] = AgentStatus("cancelled")]
    BY <1>5 DEF AcknowledgeCancellation, StillOpen, Advance
  <2>2. s.provider = slot[r][<<n, g>>].provider /\ s.outcome = "cancelled"
    BY <1>3 DEF Release, Slots
  <2> HIDE DEF s
  <2> QED
    BY <1>2, <2>1, <2>2
<1>6. ASSUME NEW r \in Run, NEW n \in Node, NEW g \in 1 .. MaxAttempts, FinishVerified(r, n, g)
      PROVE  Moves
  <2> DEFINE s == [Release(slot[r][<<n, g>>], "succeeded") EXCEPT !.finish = <<"succeeded">>]
  <2>1. /\ <<n, g>> \in Occupied(r) /\ agent[r][<<n, g>>] = ExpectedAgent("accepted")
        /\ slot' = [slot EXCEPT ![r][<<n, g>>] = s] /\ MaySucceed(life[r])
        /\ agent' = [agent EXCEPT ![r][<<n, g>>] = AgentStatus("succeeded")]
    BY <1>6 DEF FinishVerified, StillOpen, Advance
  <2>2. s.provider = slot[r][<<n, g>>].provider
    BY <1>3 DEF Release, Slots
  <2> HIDE DEF s
  <2> QED
    BY <1>2, <2>1, <2>2
<1>7. ASSUME NEW r \in Run, NEW n \in Node, NEW g \in 1 .. MaxAttempts, ReconcileAttempt(r, n, g)
      PROVE  Moves
  <2> DEFINE s == Release(slot[r][<<n, g>>], "failed")
  <2>1. /\ slot[r][<<n, g>>].status = "outcome_unknown"
        /\ agent[r][<<n, g>>] = ExpectedAgent("outcome_unknown")
        /\ slot' = [slot EXCEPT ![r][<<n, g>>] = s]
        /\ agent' = [agent EXCEPT ![r][<<n, g>>] = AgentStatus("failed")]
    BY <1>7 DEF ReconcileAttempt, StillOpen, Advance
  <2>2. s.provider = slot[r][<<n, g>>].provider /\ s.outcome = "failed"
    BY <1>3 DEF Release, Slots
  <2>3. <<n, g>> \in Occupied(r)
    BY <2>1 DEF Occupied, Attempt
  <2> HIDE DEF s
  <2> QED
    BY <1>2, <2>1, <2>2, <2>3
<1>8. ASSUME NEW r \in Run, NEW n \in Node, NEW g \in 1 .. MaxAttempts, NEW t,
             BecomeUnknown(r, n, g, t)
      PROVE  Moves
  <2> DEFINE s == [slot[r][<<n, g>>] EXCEPT !.status = "outcome_unknown",
                                            !.finish = <<"outcome_unknown", t>>]
  <2>1. /\ <<n, g>> \in Occupied(r) /\ agent[r][<<n, g>>] = ExpectedAgent("accepted")
        /\ slot' = [slot EXCEPT ![r][<<n, g>>] = s]
        /\ agent' = [agent EXCEPT ![r][<<n, g>>] = AgentStatus("outcome_unknown")]
    BY <1>8 DEF BecomeUnknown, StillOpen, Advance
  <2>2. s.provider = slot[r][<<n, g>>].provider /\ s.outcome = slot[r][<<n, g>>].outcome
    BY <1>3 DEF Slots
  <2> HIDE DEF s
  <2> QED
    BY <1>2, <2>1, <2>2
<1>9. UNCHANGED <<slot, agent>> => Moves
  BY DEF Moves
<1>10. ASSUME NEW s \in Sweeper,
              \/ \E r \in Run, n \in Node, g \in 1 .. MaxAttempts :
                   SweepPassesOver(s, r, n, g) \/ SweepAborts(s, r, n, g)
              \/ \E t \in AsOf : \E due \in SUBSET OccupiedAnywhere : SweepReads(s, t, due)
              \/ SweeperCrashes(s)
       PROVE  Moves
  BY <1>9, <1>10 DEF SweepPassesOver, SweepAborts, SweepReads, SweeperCrashes
<1>11. ASSUME NEW r \in Run,
              \/ PauseRun(r) \/ ResumeRun(r)
              \/ RequestCancel(r) \/ CompleteCancellation(r) \/ CancellerCrashes(r)
       PROVE  Moves
  BY <1>9, <1>11 DEF PauseRun, ResumeRun, RequestCancel, CompleteCancellation,
     CancellerCrashes, OnlyLife
<1>12. ASSUME NEW r \in Run, NEW n \in Node, NEW g \in 1 .. MaxAttempts,
              IntendEffect(r, n, g) \/ RecordReceipt(r, n, g)
       PROVE  Moves
  BY <1>9, <1>12 DEF IntendEffect, RecordReceipt
<1>13. CASE UNCHANGED vars
  BY <1>9, <1>13 DEF vars
<1> QED
  BY ZenonT(60), <1>1, <1>4, <1>5, <1>6, <1>7, <1>8, <1>10, <1>11, <1>12, <1>13 DEF Next, FinishUnknown, SweepMarks

\* A success of a Run whose cancellation has been requested was there before.
LEMMA NoLateSuccess ==
  ASSUME CInv, Moves, NEW r \in Run, life[r].status \in {"cancelling", "cancelled"},
         NEW a \in Attempt, slot'[r][a].outcome = "succeeded"
  PROVE  slot[r][a].outcome = "succeeded"
<1>1. slot \in [Run -> [Attempt -> Slots]]
  BY DEF CInv
<1>2. ASSUME NEW q \in Run, NEW n \in Node, NEW g \in 1 .. MaxAttempts, NEW p \in Provider,
             Opens(q, n, g, p)
      PROVE  slot[r][a].outcome = "succeeded"
  <2>1. PICK s \in Slots : s.outcome = "none" /\ slot' = [slot EXCEPT ![q][<<n, g>>] = s]
    BY <1>2 DEF Opens
  <2>2. slot'[r][a] = IF r = q /\ a = <<n, g>> THEN s ELSE slot[r][a]
    BY <1>1, <2>1
  <2> QED
    BY <2>1, <2>2
<1>3. ASSUME NEW q \in Run, NEW n \in Node, NEW g \in 1 .. MaxAttempts, Closes(q, n, g)
      PROVE  slot[r][a].outcome = "succeeded"
  <2>1. PICK s \in Slots :
          /\ s.outcome = "succeeded" =>
               MaySucceed(life[q]) \/ slot[q][<<n, g>>].outcome = "succeeded"
          /\ slot' = [slot EXCEPT ![q][<<n, g>>] = s]
    BY <1>3 DEF Closes
  <2>2. slot'[r][a] = IF r = q /\ a = <<n, g>> THEN s ELSE slot[r][a]
    BY <1>1, <2>1
  <2> QED
    BY <2>1, <2>2 DEF MaySucceed
<1> QED
  BY <1>2, <1>3 DEF Moves

\* From the request of a cancellation on, no attempt of the Run becomes a
\* success (validate_success_proofs relies on it).
THEOREM SuccessNeverLate == Spec => NoSuccessAfterCancel
<1>1. CInv /\ CInv' /\ [Next]_vars =>
        [\A r \in Run : life[r].status \in {"cancelling", "cancelled"} =>
           \A a \in Attempt : slot'[r][a].outcome = "succeeded" =>
                              slot[r][a].outcome = "succeeded"]_vars
  BY StepMoves, NoLateSuccess
<1> QED
  BY <1>1, Invariance, PTL DEF Spec, NoSuccessAfterCancel

-----------------------------------------------------------------------------
\* A set that gained at most one member fits a limit that had room.
LEMMA OneMore ==
  ASSUME NEW S, IsFiniteSet(S), NEW x, NEW T \in SUBSET (S \cup {x}),
         NEW L \in Nat, Cardinality(S) < L
  PROVE  IsFiniteSet(T) /\ Cardinality(T) <= L
<1>1. /\ IsFiniteSet(S \cup {x}) /\ Cardinality(S \cup {x}) <= Cardinality(S) + 1
      /\ Cardinality(S) \in Nat
  <2>1. Cardinality(S) \in Nat
    BY FS_CardinalityType
  <2>2. /\ IsFiniteSet(S \cup {x})
        /\ Cardinality(S \cup {x}) = IF x \in S THEN Cardinality(S) ELSE Cardinality(S) + 1
    BY FS_AddElement
  <2> QED
    BY <2>1, <2>2
<1>2. /\ IsFiniteSet(T) /\ Cardinality(T) <= Cardinality(S \cup {x})
  BY <1>1, FS_Subset
<1>3. Cardinality(T) \in Nat /\ Cardinality(S \cup {x}) \in Nat
  BY <1>1, <1>2, FS_CardinalityType
<1> QED
  BY <1>1, <1>2, <1>3

\* A set that gained nothing fits as before.
LEMMA NoMore ==
  ASSUME NEW S, IsFiniteSet(S), NEW T \in SUBSET S, NEW L \in Nat, Cardinality(S) <= L
  PROVE  IsFiniteSet(T) /\ Cardinality(T) <= L
<1>1. IsFiniteSet(T) /\ Cardinality(T) <= Cardinality(S)
  BY FS_Subset
<1>2. Cardinality(T) \in Nat /\ Cardinality(S) \in Nat
  BY <1>1, FS_CardinalityType
<1> QED
  BY <1>1, <1>2

OnProvider(p) == {x \in OccupiedAnywhere : slot[x[1]][x[2]].provider = p}
OnTool == {x \in OccupiedAnywhere : x[2][1] \in ToolUser}

\* S is finite and within the limit L.
Within(S, L) == IsFiniteSet(S) /\ Cardinality(S) <= L

\* The attempts that hold a slot and the agents of a Run are within limits.
Fits ==
  /\ Within(OccupiedAnywhere, SystemLimit)
  /\ \A r \in Run : Within(Occupied(r), RunLimit) /\ Within(Agents(r), MaxAgents)
  /\ \A p \in Provider : Within(OnProvider(p), ProviderLimit)
  /\ Within(OnTool, ToolLimit)

Limits == {SystemLimit, RunLimit, ProviderLimit, ToolLimit, MaxAgents}

LEMMA WithinKept ==
  ASSUME NEW L \in Limits, NEW S, Within(S, L)
  PROVE  \A T \in SUBSET S : Within(T, L)
<1>1. L \in Nat
  BY ControlAssumption DEF Limits
<1> QED
  BY <1>1, NoMore DEF Within

LEMMA WithinGrown ==
  ASSUME NEW L \in Limits, NEW S, Within(S, L), Cardinality(S) < L, NEW x
  PROVE  \A T \in SUBSET (S \cup {x}) : Within(T, L)
<1>1. L \in Nat
  BY ControlAssumption DEF Limits
<1> QED
  BY <1>1, OneMore DEF Within

LEMMA InitFits == Init => Fits
<1> SUFFICES ASSUME Init PROVE Fits
  OBVIOUS
<1>1. \A r \in Run : Occupied(r) = {} /\ Agents(r) = {}
  BY DEF Init, Occupied, Agents, Free
<1>2. OccupiedAnywhere = {}
  BY <1>1 DEF OccupiedAnywhere
<1>3. OnTool = {} /\ \A p \in Provider : OnProvider(p) = {}
  BY <1>2 DEF OnTool, OnProvider
<1>4. \A L \in Limits : Within({}, L)
  BY FS_EmptySet, ControlAssumption DEF Within, Limits
<1> QED
  BY <1>1, <1>2, <1>3, <1>4 DEF Fits, Limits

\* A step that gives no new slot leaves everything within the limits.
LEMMA NothingOpened ==
  ASSUME Fits,
         \A r \in Run : Occupied(r)' \subseteq Occupied(r) /\ Agents(r)' \subseteq Agents(r),
         \A r \in Run : \A a \in Occupied(r)' : slot'[r][a].provider = slot[r][a].provider
  PROVE  Fits'
<1>1. OccupiedAnywhere' \subseteq OccupiedAnywhere
  BY DEF OccupiedAnywhere
<1>2. OnTool' \subseteq OnTool
  BY <1>1 DEF OnTool
<1>3. \A p \in Provider : OnProvider(p)' \subseteq OnProvider(p)
  <2>1. \A x \in OccupiedAnywhere' : slot'[x[1]][x[2]].provider = slot[x[1]][x[2]].provider
    BY DEF OccupiedAnywhere
  <2> QED
    BY <1>1, <2>1 DEF OnProvider
<1>4. Within(OccupiedAnywhere', SystemLimit) /\ Within(OnTool', ToolLimit)
  BY <1>1, <1>2, WithinKept DEF Fits, Limits
<1>5. \A p \in Provider : Within(OnProvider(p)', ProviderLimit)
  BY <1>3, WithinKept DEF Fits, Limits
<1>6. \A r \in Run : Within(Occupied(r)', RunLimit) /\ Within(Agents(r)', MaxAgents)
  BY WithinKept DEF Fits, Limits
<1> QED
  BY <1>4, <1>5, <1>6 DEF Fits, Within

\* A new slot adds one attempt of one Run on one provider, for all of which
\* there was room.
LEMMA OneOpened ==
  ASSUME CInv, Fits, NEW r \in Run, NEW n \in Node, NEW g \in 1 .. MaxAttempts,
         NEW p \in Provider, Opens(r, n, g, p)
  PROVE  Fits'
<1> DEFINE a == <<n, g>>
<1>1. a \in Attempt /\ a[1] = n
  BY DEF Attempt
<1>2. PICK s \in Slots : s.provider = p /\ slot' = [slot EXCEPT ![r][a] = s]
  BY DEF Opens
<1>3. \A q \in Run, b \in Attempt : slot'[q][b] = IF q = r /\ b = a THEN s ELSE slot[q][b]
  BY <1>1, <1>2 DEF CInv
<1>4. \A q \in Run, b \in Attempt :
        agent'[q][b] = IF q = r /\ b = a THEN "active" ELSE agent[q][b]
  BY <1>1 DEF CInv, Opens
<1>5. /\ Occupied(r)' \subseteq Occupied(r) \cup {a}
      /\ Agents(r)' \subseteq Agents(r) \cup {a}
      /\ \A q \in Run \ {r} : Occupied(q)' = Occupied(q) /\ Agents(q)' = Agents(q)
  BY <1>3, <1>4 DEF Occupied, Agents
<1>6. OccupiedAnywhere' \subseteq OccupiedAnywhere \cup {<<r, a>>}
  BY <1>5 DEF OccupiedAnywhere
<1>7. OnTool' \subseteq OnTool \cup {<<r, a>>}
  BY <1>6 DEF OnTool
<1>8. n \notin ToolUser => OnTool' \subseteq OnTool
  <2> SUFFICES ASSUME n \notin ToolUser, NEW x \in OnTool' PROVE x \in OnTool
    OBVIOUS
  <2>1. x \in OccupiedAnywhere' /\ x[2][1] \in ToolUser
    BY DEF OnTool
  <2>2. x # <<r, a>>
    BY <1>1, <2>1
  <2> QED
    BY <1>6, <2>1, <2>2 DEF OnTool
<1>9. ASSUME NEW q \in Provider, NEW x \in OnProvider(q)'
      PROVE  x \in OnProvider(q) \cup {<<r, a>>} /\ (q # p => x \in OnProvider(q))
  <2>1. x \in OccupiedAnywhere' /\ slot'[x[1]][x[2]].provider = q
    BY <1>9 DEF OnProvider
  <2>2. x[1] \in Run /\ x[2] \in Attempt /\ x = <<x[1], x[2]>>
    BY <2>1 DEF OccupiedAnywhere, Occupied
  <2>3. CASE x[1] = r /\ x[2] = a
    <3>1. x = <<r, a>> /\ slot'[x[1]][x[2]].provider = p
      BY <1>2, <1>3, <2>2, <2>3
    <3> QED
      BY <2>1, <3>1
  <2>4. CASE ~(x[1] = r /\ x[2] = a)
    <3>1. slot'[x[1]][x[2]] = slot[x[1]][x[2]] /\ x # <<r, a>>
      BY <1>3, <2>2, <2>4
    <3> QED
      BY <1>6, <2>1, <3>1 DEF OnProvider
  <2> QED
    BY <2>3, <2>4
<1> DEFINE y == <<r, a>>
<1> HIDE DEF y, a
<1>10. /\ OccupiedAnywhere' \subseteq OccupiedAnywhere \cup {y}
       /\ OnTool' \subseteq OnTool \cup {y}
       /\ \A q \in Provider : /\ OnProvider(q)' \subseteq OnProvider(q) \cup {y}
                              /\ q # p => OnProvider(q)' \subseteq OnProvider(q)
  BY <1>6, <1>7, <1>9 DEF y
<1>11. Within(OccupiedAnywhere', SystemLimit)
  <2>1. Cardinality(OccupiedAnywhere) < SystemLimit
    BY DEF Opens, HasRoom
  <2> QED
    BY <1>10, <2>1, WithinGrown DEF Fits, Limits
<1>12. \A q \in Run : Within(Occupied(q)', RunLimit) /\ Within(Agents(q)', MaxAgents)
  <2>1. Cardinality(Occupied(r)) < RunLimit /\ Cardinality(Agents(r)) < MaxAgents
    BY DEF Opens, HasRoom
  <2>2. Within(Occupied(r)', RunLimit) /\ Within(Agents(r)', MaxAgents)
    BY <1>5, <2>1, WithinGrown DEF Fits, Limits
  <2>3. \A q \in Run \ {r} : Within(Occupied(q)', RunLimit) /\ Within(Agents(q)', MaxAgents)
    BY <1>5 DEF Fits
  <2> QED
    BY <2>2, <2>3
<1>13. \A q \in Provider : Within(OnProvider(q)', ProviderLimit)
  <2>1. Cardinality(OnProvider(p)) < ProviderLimit
    BY DEF Opens, HasRoom, OnProvider
  <2>2. Within(OnProvider(p)', ProviderLimit)
    BY <1>10, <2>1, WithinGrown DEF Fits, Limits
  <2>3. \A q \in Provider \ {p} : Within(OnProvider(q)', ProviderLimit)
    BY <1>10, WithinKept DEF Fits, Limits
  <2> QED
    BY <2>2, <2>3
<1>14. Within(OnTool', ToolLimit)
  <2>1. CASE n \in ToolUser
    <3>1. Cardinality(OnTool) < ToolLimit
      BY <2>1 DEF Opens, HasRoom, OnTool
    <3> QED
      BY <1>10, <3>1, WithinGrown DEF Fits, Limits
  <2>2. CASE n \notin ToolUser
    BY <1>8, <2>2, WithinKept DEF Fits, Limits
  <2> QED
    BY <2>1, <2>2
<1> QED
  BY <1>11, <1>12, <1>13, <1>14 DEF Fits, Within

LEMMA MovesFit ==
  ASSUME CInv, Fits, Moves
  PROVE  Fits'
<1>1. ASSUME NEW r \in Run, NEW n \in Node, NEW g \in 1 .. MaxAttempts, NEW p \in Provider,
             Opens(r, n, g, p)
      PROVE  Fits'
  BY <1>1, OneOpened
<1>2. ASSUME NEW r \in Run, NEW n \in Node, NEW g \in 1 .. MaxAttempts, Closes(r, n, g)
      PROVE  Fits'
  <2> DEFINE a == <<n, g>>
  <2>1. a \in Attempt /\ a \in Occupied(r) /\ a \in Agents(r)
    BY <1>2 DEF Closes, Occupied, Agents
  <2>2. PICK s \in Slots :
          s.provider = slot[r][a].provider /\ slot' = [slot EXCEPT ![r][a] = s]
    BY <1>2 DEF Closes
  <2>3. \A q \in Run, b \in Attempt : slot'[q][b] = IF q = r /\ b = a THEN s ELSE slot[q][b]
    BY <2>1, <2>2 DEF CInv
  <2>4. PICK ag : agent' = [agent EXCEPT ![r][a] = ag]
    BY <1>2 DEF Closes
  <2>5. \A q \in Run, b \in Attempt : agent'[q][b] = IF q = r /\ b = a THEN ag ELSE agent[q][b]
    BY <2>1, <2>4 DEF CInv
  <2> HIDE DEF a
  <2>6. \A q \in Run : Occupied(q)' \subseteq Occupied(q) /\ Agents(q)' \subseteq Agents(q)
    BY <2>1, <2>3, <2>5 DEF Occupied, Agents
  <2>7. \A q \in Run : \A b \in Occupied(q)' : slot'[q][b].provider = slot[q][b].provider
    BY <2>2, <2>3 DEF Occupied
  <2> QED
    BY <2>6, <2>7, NothingOpened
<1>3. CASE UNCHANGED <<slot, agent>>
  BY <1>3, NothingOpened DEF Occupied, Agents
<1> QED
  BY <1>1, <1>2, <1>3 DEF Moves

LEMMA FitsInvariant == Spec => []Fits
<1>1. CInv /\ CInv' /\ Fits /\ [Next]_vars => Fits'
  BY StepMoves, MovesFit
<1> QED
  BY <1>1, InitFits, Invariance, PTL DEF Spec

\* The concurrency limits hold of the attempts whose budget is held, which the
\* scheduler never counts: it counts slots, and the streams agree.
THEOREM LimitsHold == Spec => []WithinConcurrency
<1>1. ASSUME CInv, NEW r \in Run
      PROVE  {a \in Attempt : hold[r][a] \in {"reserved", "unknown"}} = Occupied(r)
  <2>1. ASSUME NEW n \in Node, NEW g \in 1 .. MaxAttempts
        PROVE  hold[r][<<n, g>>] \in {"reserved", "unknown"}
                 <=> slot[r][<<n, g>>].status \in {"active", "outcome_unknown"}
    <3>1. AgreedAt(r, n, g)
      BY <1>1 DEF CInv
    <3>2. g <= Len(life[r].attempts[n]) => life[r].attempts[n][g] \in AttemptStatuses
      BY <1>1 DEF CInv, States
    <3> QED
      BY <3>1, <3>2 DEF AgreedAt, SlotAgrees, ExpectedHold, Free, AttemptStatuses
  <2> QED
    BY <2>1 DEF Occupied, Attempt
<1>2. CInv /\ Fits => WithinConcurrency
  <2> SUFFICES ASSUME CInv, Fits PROVE WithinConcurrency
    OBVIOUS
  <2> DEFINE open(r) == {a \in Attempt : hold[r][a] \in {"reserved", "unknown"}}
             all == UNION {{r} \X open(r) : r \in Run}
  <2>1. \A r \in Run : open(r) = Occupied(r)
    BY <1>1
  <2> HIDE DEF open
  <2>2. all = OccupiedAnywhere
    BY <2>1 DEF OccupiedAnywhere
  <2> HIDE DEF all
  <2>3. Cardinality(all) <= SystemLimit /\ \A r \in Run : Cardinality(open(r)) <= RunLimit
    BY <2>1, <2>2 DEF Fits, Within
  <2>4. /\ \A p \in Provider :
             Cardinality({x \in all : slot[x[1]][x[2]].provider = p}) <= ProviderLimit
        /\ Cardinality({x \in all : x[2][1] \in ToolUser}) <= ToolLimit
    BY <2>2 DEF Fits, Within, OnProvider, OnTool
  <2>5. \A r \in Run : Cardinality(Agents(r)) <= MaxAgents
    BY DEF Fits, Within
  <2> QED
    BY <2>3, <2>4, <2>5 DEF WithinConcurrency, all, open
<1> QED
  BY <1>2, Invariance, FitsInvariant, PTL

=============================================================================
