---------------------------- MODULE ControlPlane ----------------------------
(***************************************************************************)
(* The scheduler and the streams it keeps together (scheduler/core.py):    *)
(* the lifecycle of each Run, the slots of the global scheduler stream,    *)
(* the Run's agent instances (agents/registry.py) and the status of its    *)
(* budget reservations and external effects (budget/ledger.py,             *)
(* approvals/service.py).  Every scheduler operation is one transaction    *)
(* over the streams, so it is one action; a cancellation and an expiry     *)
(* sweep are several.  Event times are chosen by the caller: a             *)
(* result may carry a time before the expiry of its lease and arrive after *)
(* a sweep that saw the lease expire, and a sweep may see any active lease *)
(* as expired.                                                             *)
(***************************************************************************)
EXTENDS LifecycleEvents

CONSTANTS
  Run, Provider,
  ToolUser,        \* the nodes that use the one limited tool
  Graph,           \* dependencies and attempt limits a Run may be frozen with
  Sweeper,         \* processes that sweep expired leases
  AsOf,            \* the times their sweeps carry
  SystemLimit, RunLimit, ProviderLimit, ToolLimit,  \* ConcurrencyLimits
  MaxAgents, MaxConcurrentAgents,                   \* AgentRegistryLimits
  ProbesRouted     \* health probes reach accept_routing

ASSUME ControlAssumption ==
  /\ {SystemLimit, RunLimit, ProviderLimit, ToolLimit,
      MaxAgents, MaxConcurrentAgents} \subseteq Nat \ {0}
  /\ Graph \subseteq [deps : [Node -> SUBSET Node], limit : [Node -> 1 .. MaxAttempts]]
  /\ ProbesRouted \in BOOLEAN

VARIABLES
  life,        \* life[r]: the lifecycle projection of Run r
  slot,        \* slot[r][a]: attempt a in the scheduler stream
  agent,       \* agent[r][a]: status of the attempt's agent instance
  hold,        \* hold[r][a]: status of the attempt's budget reservation
  effect,      \* effect[r]: the attempts with an effect that has no receipt
  completing,  \* Runs with a caller about to complete their cancellation
  sweep        \* sweep[s]: the expiry sweep process s is in

vars == <<life, slot, agent, hold, effect, completing, sweep>>

Attempt == Node \X (1 .. MaxAttempts)
HealthProbe == IF ProbesRouted THEN {"health_probe"} ELSE {}
Payloads == {<<"succeeded">>, <<"failed">>} \cup ({"outcome_unknown"} \X AsOf)

Slots ==
  [status : {"free", "active", "outcome_unknown", "released"},
   outcome : {"none", "succeeded", "failed", "cancelled"},
   provider : Provider \cup {None},
   action : {"none", "initial"} \cup HealthProbe,
   finish : Payloads \cup {None}]

AgentStatuses == {"absent", "active", "outcome_unknown", "completed", "failed", "cancelled"}
HoldStatuses == {"absent", "reserved", "unknown", "committed", "released"}

Free == [status |-> "free", outcome |-> "none", provider |-> None,
         action |-> "none", finish |-> None]
Resting == [status |-> "idle", todo |-> {}, asOf |-> None]

\* Every Run starts with its graph frozen.
Init ==
  /\ \E d \in Graph :
       /\ ValidAppend(Initialized, Node, d.deps)
       /\ life = [r \in Run |->
            RunStarted(GraphNodesAppended(Initialized, Node, d.deps, d.limit))]
  /\ slot = [r \in Run |-> [a \in Attempt |-> Free]]
  /\ agent = [r \in Run |-> [a \in Attempt |-> "absent"]]
  /\ hold = [r \in Run |-> [a \in Attempt |-> "absent"]]
  /\ effect = [r \in Run |-> {}]
  /\ completing = {}
  /\ sweep = [s \in Sweeper |-> Resting]

-----------------------------------------------------------------------------
\* Variant: an attempt with an unknown result no longer counts.
OccupiedWhileActive(r) == {a \in Attempt : slot[r][a].status = "active"}

\* The attempts of r that hold a slot: accepted and not released.
Occupied(r) == {a \in Attempt : slot[r][a].status \in {"active", "outcome_unknown"}}

OccupiedAnywhere == UNION {{r} \X Occupied(r) : r \in Run}

\* The concurrency limits leave room for an attempt of node n of r on p.
HasRoom(r, n, p) ==
  /\ Cardinality(OccupiedAnywhere) < SystemLimit
  /\ Cardinality(Occupied(r)) < RunLimit
  /\ Cardinality({x \in OccupiedAnywhere : slot[x[1]][x[2]].provider = p}) < ProviderLimit
  /\ n \in ToolUser =>
       Cardinality({x \in OccupiedAnywhere : x[2][1] \in ToolUser}) < ToolLimit

Agents(r) == {a \in Attempt : agent[r][a] # "absent"}
ActiveAgents(r) == {a \in Attempt : agent[r][a] \in {"active", "outcome_unknown"}}

\* The agent status that goes with an attempt status.
AgentStatus(outcome) ==
  CASE outcome = "accepted" -> "active"
    [] outcome = "succeeded" -> "completed"
    [] OTHER -> outcome

\* What each stream must say of an attempt with the given lifecycle status.
SlotAgrees(s, status) ==
  CASE status = "accepted" -> s.status = "active" /\ s.outcome = "none"
    [] status = "outcome_unknown" -> s.status = "outcome_unknown" /\ s.outcome = "none"
    [] OTHER -> s.status = "released" /\ s.outcome = status
ExpectedAgent(status) ==
  CASE status = "accepted" -> "active"
    [] status = "succeeded" -> "completed"
    [] OTHER -> status
ExpectedHold(status) ==
  CASE status = "accepted" -> {"reserved"}
    [] status = "outcome_unknown" -> {"unknown"}
    [] status = "succeeded" -> {"committed"}
    [] OTHER -> {"committed", "released"}

\* The streams of r name the same attempts and agree on every one of them, and
\* an ended Run holds no slot.
StreamsAgree(r) ==
  /\ \A n \in Node, g \in 1 .. MaxAttempts :
       LET a == <<n, g>> IN
       IF g <= Len(life[r].attempts[n])
       THEN LET status == life[r].attempts[n][g] IN
            /\ SlotAgrees(slot[r][a], status)
            /\ agent[r][a] = ExpectedAgent(status)
            /\ hold[r][a] \in ExpectedHold(status)
       ELSE slot[r][a] = Free /\ agent[r][a] = "absent" /\ hold[r][a] = "absent"
  /\ life[r].status \in Final => Occupied(r) = {}

\* An attempt that has ended left an effect without a receipt.
LeftUnresolved(r) == \E a \in effect[r] :
  life[r].attempts[a[1]][a[2]] \in {"succeeded", "failed", "cancelled"}

\* An attempt of r was routed as a health probe: the replay of the scheduler
\* stream does not know how to check the recovery context of its route.
Probed(r) == \E a \in Attempt : slot[r][a].action = "health_probe"

\* RunRecoveryCoordinator accepts the streams of r.
Recovers(r) == StreamsAgree(r) /\ ~LeftUnresolved(r) /\ ~Probed(r)

-----------------------------------------------------------------------------
\* complete_cancellation_if_idle, as the last call of another operation.
Quiesced(s) == IF MayComplete(s) THEN RunCancelled(s) ELSE s

\* One transaction over the four streams, for attempt a of r; none of them
\* looks at the effects of the attempt.
Advance(r, a, state, s, agentStatus, holdStatus) ==
  /\ life' = [life EXCEPT ![r] = state]
  /\ slot' = [slot EXCEPT ![r][a] = s]
  /\ agent' = [agent EXCEPT ![r][a] = agentStatus]
  /\ hold' = [hold EXCEPT ![r][a] = holdStatus]
  /\ UNCHANGED effect

Release(s, outcome) == [s EXCEPT !.status = "released", !.outcome = outcome]

\* accept_routing: recovery check, concurrency limits, reserve,
\* record_attempt_accepted and register_attempt.
AcceptRouting(r, n, p, action) ==
  LET a == <<n, Len(life[r].attempts[n]) + 1>> IN
  /\ Recovers(r)
  /\ life[r].status = "running"
  /\ life[r].node[n] = "ready"
  /\ Len(life[r].attempts[n]) < life[r].limit[n]
  /\ HasRoom(r, n, p)
  /\ Cardinality(Agents(r)) < MaxAgents
  /\ Cardinality(ActiveAgents(r)) < MaxConcurrentAgents
  /\ Advance(r, a, AttemptAccepted(life[r], n),
             [status |-> "active", outcome |-> "none", provider |-> p,
              action |-> action, finish |-> None],
             AgentStatus("accepted"), "reserved")
  /\ UNCHANGED <<completing, sweep>>

\* The ledger, the lifecycle and the registry all still hold attempt <<n, g>>
\* with the given statuses; each of them checks its own.
StillOpen(r, n, g, status) ==
  /\ IsCurrent(life[r], n, g, status)
  /\ agent[r][<<n, g>>] = ExpectedAgent(status)
  /\ hold[r][<<n, g>>] \in ExpectedHold(status)

\* finish_attempt with outcome "failed": usage commits the reservation, a
\* proof of no effect releases it.
FinishFailed(r, n, g, settled) ==
  LET a == <<n, g>> IN
  /\ slot[r][a].finish = None
  /\ a \in Occupied(r)
  /\ StillOpen(r, n, g, "accepted")
  /\ Advance(r, a, Quiesced(AttemptEnded(life[r], n, "failed")),
             [Release(slot[r][a], "failed") EXCEPT !.finish = <<"failed">>],
             AgentStatus("failed"), settled)
  /\ UNCHANGED <<completing, sweep>>

\* finish_attempt with outcome "outcome_unknown": the slot is kept.
BecomeUnknown(r, n, g, t) ==
  LET a == <<n, g>> IN
  /\ slot[r][a].finish = None
  /\ a \in Occupied(r)
  /\ StillOpen(r, n, g, "accepted")
  /\ Advance(r, a, AttemptEnded(life[r], n, "outcome_unknown"),
             [slot[r][a] EXCEPT !.status = "outcome_unknown",
                                !.finish = <<"outcome_unknown", t>>],
             AgentStatus("outcome_unknown"), "unknown")

FinishUnknown(r, n, g, t) ==
  BecomeUnknown(r, n, g, t) /\ UNCHANGED <<completing, sweep>>

\* Variant: a verified result is accepted whatever became of its Run.
MaySucceedAlways(s) == TRUE

\* A Run whose cancellation has begun takes no success.
MaySucceed(s) == s.status \notin {"cancelling", "cancelled"}

\* finish_verified_attempt, with an accepted proof of the verifier.
FinishVerified(r, n, g) ==
  LET a == <<n, g>> IN
  /\ slot[r][a].finish = None
  /\ Recovers(r)
  /\ MaySucceed(life[r])
  /\ a \in Occupied(r)
  /\ StillOpen(r, n, g, "accepted")
  /\ Advance(r, a, AttemptEnded(life[r], n, "succeeded"),
             [Release(slot[r][a], "succeeded") EXCEPT !.finish = <<"succeeded">>],
             AgentStatus("succeeded"), "committed")
  /\ UNCHANGED <<completing, sweep>>

\* acknowledge_cancellation: it does not use the finish key.
AcknowledgeCancellation(r, n, g, settled) ==
  LET a == <<n, g>> IN
  /\ a \in Occupied(r)
  /\ life[r].status = "cancelling"
  /\ StillOpen(r, n, g, "accepted")
  /\ Advance(r, a, Quiesced(AttemptEnded(life[r], n, "cancelled")),
             Release(slot[r][a], "cancelled"), AgentStatus("cancelled"), settled)
  /\ UNCHANGED <<completing, sweep>>

\* reconcile_attempt: reported usage, or none at all, replaces the hold.
ReconcileAttempt(r, n, g) ==
  LET a == <<n, g>> IN
  /\ slot[r][a].status = "outcome_unknown"
  /\ StillOpen(r, n, g, "outcome_unknown")
  /\ Advance(r, a, Quiesced(AttemptEnded(life[r], n, "failed")),
             Release(slot[r][a], "failed"), AgentStatus("failed"), "committed")
  /\ UNCHANGED <<completing, sweep>>

-----------------------------------------------------------------------------
\* An external call of attempt <<n, g>> is about to be made: consume_and_intend
\* records its intent in the transaction in which DurableAttemptAuthority finds
\* the Run running and the attempt current, its slot held and its agent active.
IntendEffect(r, n, g) ==
  /\ n \in ToolUser
  /\ life[r].status = "running"
  /\ IsCurrent(life[r], n, g, "accepted")
  /\ slot[r][<<n, g>>].status = "active"
  /\ agent[r][<<n, g>>] = "active"
  /\ effect' = [effect EXCEPT ![r] = @ \cup {<<n, g>>}]
  /\ UNCHANGED <<life, slot, agent, hold, completing, sweep>>

\* record_effect_receipt: it asks for the intent, not for a current attempt,
\* and may come at any later time; never, when its process died.
RecordReceipt(r, n, g) ==
  /\ <<n, g>> \in effect[r]
  /\ effect' = [effect EXCEPT ![r] = @ \ {<<n, g>>}]
  /\ UNCHANGED <<life, slot, agent, hold, completing, sweep>>

-----------------------------------------------------------------------------
OnlyLife(r, state) ==
  /\ life' = [life EXCEPT ![r] = state]
  /\ UNCHANGED <<slot, agent, hold, effect, sweep>>

\* pause_run and resume_run, without the keys RunLifecycle keeps.
PauseRun(r) ==
  /\ life[r].status = "running"
  /\ OnlyLife(r, RunPaused(life[r]))
  /\ UNCHANGED completing

ResumeRun(r) ==
  /\ life[r].status = "paused"
  /\ OnlyLife(r, RunResumed(life[r]))
  /\ UNCHANGED completing

\* request_cancel, first transaction: the request, or its repetition.
RequestCancel(r) ==
  /\ r \notin completing
  /\ life[r].status \in {"running", "paused", "cancelling", "cancelled"}
  /\ OnlyLife(r, IF life[r].status \in {"running", "paused"}
                 THEN RunCancellationRequested(life[r]) ELSE life[r])
  /\ completing' = completing \cup {r}

\* request_cancel, second transaction: complete_cancellation_if_idle.
CompleteCancellation(r) ==
  /\ r \in completing
  /\ OnlyLife(r, Quiesced(life[r]))
  /\ completing' = completing \ {r}

\* The caller dies between the two transactions.
CancellerCrashes(r) ==
  /\ r \in completing
  /\ completing' = completing \ {r}
  /\ UNCHANGED <<life, slot, agent, hold, effect, sweep>>

-----------------------------------------------------------------------------
\* mark_expired_attempts_unknown reads the scheduler stream once ...
SweepReads(s, t, due) ==
  /\ sweep[s].status = "idle"
  /\ due \subseteq {x \in OccupiedAnywhere : slot[x[1]][x[2]].status = "active"}
  /\ due # {}
  /\ sweep' = [sweep EXCEPT ![s] = [status |-> "sweeping", todo |-> due, asOf |-> t]]
  /\ UNCHANGED <<life, slot, agent, hold, effect, completing>>

Swept(s, x) ==
  sweep' = [sweep EXCEPT ![s] =
    IF sweep[s].todo = {x} THEN Resting ELSE [sweep[s] EXCEPT !.todo = @ \ {x}]]

\* Variant: the sweep marks what it read without resolving it again.
SweepMarksAsRead(s, r, n, g) ==
  LET a == <<n, g>> IN
  /\ <<r, a>> \in sweep[s].todo
  /\ Advance(r, a, AttemptEnded(life[r], n, "outcome_unknown"),
             [slot[r][a] EXCEPT !.status = "outcome_unknown"],
             AgentStatus("outcome_unknown"), "unknown")
  /\ Swept(s, <<r, a>>)
  /\ UNCHANGED completing

\* ... and calls finish_attempt for one expired lease after another, which
\* declares the attempt unknown,
SweepMarks(s, r, n, g) ==
  /\ <<r, <<n, g>>>> \in sweep[s].todo
  /\ BecomeUnknown(r, n, g, sweep[s].asOf)
  /\ Swept(s, <<r, <<n, g>>>>)
  /\ UNCHANGED completing

\* passes over it when the same result is recorded already or the slot was
\* released without one (LifecycleConflict),
SweepPassesOver(s, r, n, g) ==
  LET a == <<n, g>> IN
  /\ <<r, a>> \in sweep[s].todo
  /\ \/ slot[r][a].finish = <<"outcome_unknown", sweep[s].asOf>>
     \/ slot[r][a].finish = None /\ a \notin Occupied(r)
  /\ Swept(s, <<r, a>>)
  /\ UNCHANGED <<life, slot, agent, hold, effect, completing>>

\* or ends in the error raised for another result under the finish key.
SweepAborts(s, r, n, g) ==
  LET a == <<n, g>> IN
  /\ <<r, a>> \in sweep[s].todo
  /\ slot[r][a].finish \notin {None, <<"outcome_unknown", sweep[s].asOf>>}
  /\ sweep' = [sweep EXCEPT ![s] = Resting]
  /\ UNCHANGED <<life, slot, agent, hold, effect, completing>>

SweeperCrashes(s) ==
  /\ sweep[s].status = "sweeping"
  /\ sweep' = [sweep EXCEPT ![s] = Resting]
  /\ UNCHANGED <<life, slot, agent, hold, effect, completing>>

Settled == {"committed", "released"}

Next ==
  \/ \E r \in Run, n \in Node, p \in Provider, action \in {"initial"} \cup HealthProbe :
       AcceptRouting(r, n, p, action)
  \/ \E r \in Run, n \in Node, g \in 1 .. MaxAttempts :
       \/ \E settled \in Settled :
            FinishFailed(r, n, g, settled) \/ AcknowledgeCancellation(r, n, g, settled)
       \/ FinishVerified(r, n, g)
       \/ ReconcileAttempt(r, n, g)
       \/ IntendEffect(r, n, g) \/ RecordReceipt(r, n, g)
       \/ \E t \in AsOf : FinishUnknown(r, n, g, t)
       \/ \E s \in Sweeper :
            \/ SweepMarks(s, r, n, g)
            \/ SweepPassesOver(s, r, n, g)
            \/ SweepAborts(s, r, n, g)
  \/ \E r \in Run :
       \/ PauseRun(r) \/ ResumeRun(r)
       \/ RequestCancel(r) \/ CompleteCancellation(r) \/ CancellerCrashes(r)
  \/ \E s \in Sweeper, t \in AsOf : \E due \in SUBSET OccupiedAnywhere : SweepReads(s, t, due)
  \/ \E s \in Sweeper : SweeperCrashes(s)

Spec == Init /\ [][Next]_vars

-----------------------------------------------------------------------------
\* The four projections, the pending cancellations and the sweeps have the
\* shape the operations can give them.
TypeOK ==
  /\ life \in [Run -> States]
  /\ slot \in [Run -> [Attempt -> Slots]]
  /\ agent \in [Run -> [Attempt -> AgentStatuses]]
  /\ hold \in [Run -> [Attempt -> HoldStatuses]]
  /\ effect \in [Run -> SUBSET Attempt]
  /\ completing \subseteq Run
  /\ sweep \in [Sweeper -> [status : {"idle", "sweeping"},
                            todo : SUBSET (Run \X Attempt), asOf : AsOf \cup {None}]]

\* After any interleaving of acceptances, results, cancellations, sweeps,
\* reconciliations and external effects the four streams of every Run agree in
\* the sense of recovery/run.py.  The check that startup, acceptance and verified
\* completion make (Recovers) is left with two causes to refuse a Run: an effect
\* that an ended attempt left without a receipt, and a health probe's route.
RunsAgree == \A r \in Run : StreamsAgree(r)

\* Counting the attempts whose result is unknown, the attempts that hold a
\* slot never exceed the limits on the system, a Run, a provider or the tool,
\* nor do a Run's agents exceed theirs (_ensure_concurrency, register_attempt).
WithinConcurrency ==
  LET open(r) == {a \in Attempt : hold[r][a] \in {"reserved", "unknown"}}
      all == UNION {{r} \X open(r) : r \in Run}
  IN /\ Cardinality(all) <= SystemLimit
     /\ \A r \in Run : Cardinality(open(r)) <= RunLimit
     /\ \A p \in Provider :
          Cardinality({x \in all : slot[x[1]][x[2]].provider = p}) <= ProviderLimit
     /\ Cardinality({x \in all : x[2][1] \in ToolUser}) <= ToolLimit
     /\ \A r \in Run : Cardinality(Agents(r)) <= MaxAgents

\* From the commit of a cancellation request on, no attempt of the Run
\* becomes a success, whichever verifier was already on its way: every
\* success the startup audit will find was committed before the request
\* (validate_success_proofs).
NoSuccessAfterCancel ==
  [][\A r \in Run : life[r].status \in {"cancelling", "cancelled"} =>
       \A a \in Attempt : slot'[r][a].outcome = "succeeded" =>
                          slot[r][a].outcome = "succeeded"]_vars

-----------------------------------------------------------------------------
\* Three things the code or its documents say that do not hold (README, section 6).

\* The recovery check accepts every Run the operations can produce.
EveryRunRecovers == \A r \in Run : Recovers(r)

\* An action without a receipt keeps the slot and the reservation of its
\* attempt (the design of the process crash matrix).
EffectsHoldSlots == \A r \in Run : effect[r] \subseteq Occupied(r)

\* A sweep survives a completion or a reconciliation that wins after its read
\* (the comment in mark_expired_attempts_unknown): no attempt left to it can
\* make it abort.
SweepSurvivesRaces ==
  \A s \in Sweeper : \A x \in sweep[s].todo :
    slot[x[1]][x[2]].finish \in {None, <<"outcome_unknown", sweep[s].asOf>>}
=============================================================================
