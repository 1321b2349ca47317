---------------------------- MODULE ProviderCalls ----------------------------
(***************************************************************************)
(* External model calls: the journal of each call                          *)
(* (models/provider_calls.py), the gateway that claims, sends and records  *)
(* it (models/transport.py), the reconciliation of calls whose result is   *)
(* unknown (provider_reconciliation.py) and the startup transaction that   *)
(* applies what a crash left (application.py).  A journal operation reads  *)
(* a stream and appends under its version; a reader that was overtaken is  *)
(* refused, so each is one step, and everything else interleaves.  An      *)
(* attempt is seen through the scheduler: its status and the figures it    *)
(* was reconciled with.  Every attempt belongs to a Run of its own.        *)
(***************************************************************************)
EXTENDS Naturals, Sequences, Functions

CONSTANTS
  Call,        \* call scopes: an attempt and a request id
  Attempt,
  AttemptOf,   \* AttemptOf[c]: the attempt call c is made for
  Invoker,     \* tasks that invoke the gateway
  Reconciler,  \* host calls of reconcile
  Usage,       \* costs the provider may charge for one call
  Time,        \* times a reconciliation may carry
  Envelope,    \* what the RunLimit leaves to the attempt's reservation
  Owned,       \* calls are made under SchedulerProviderDispatchAuthority
  None

\* usage None: the provider did not receive the request.
Proofs == [usage : Usage \cup {None}, at : Time]

\* The figures reconcile_attempt is given; the settlement key names the call.
Figures == [call : Call \cup {None}, usage : Usage \cup {None}, at : Time]

ASSUME CallAssumption ==
  /\ AttemptOf \in [Call -> Attempt]
  /\ Usage \subseteq Nat /\ Envelope \in Nat
  /\ Owned \in BOOLEAN
  /\ None \notin Call \cup Usage \cup Figures

VARIABLES
  stream,      \* stream[c]: the provider_call stream of c
  attempt,     \* attempt[a]: what the scheduler says of a
  wire,        \* wire[c]: where the request of c is
  sent,        \* sent[c]: how often c was handed to a sender
  gateway,     \* gateway[i]: the invocation task i is in
  said,        \* said[i]: the last outcome task i was told, and of which call
  recon        \* recon[r]: the reconciliation host call r is in

vars == <<stream, attempt, wire, sent, gateway, said, recon>>

Outcomes == {"not_sent", "known_failure", "known_success", "unknown"}

Events == {<<"intent">>, <<"settlement">>} \cup ({"outcome"} \X Outcomes)
            \cup ({"reconciliation"} \X Proofs)

\* Only a failed attempt carries figures.
Attempts ==
  {e \in [status : {"accepted", "outcome_unknown", "succeeded", "failed"},
          figures : Figures \cup {None}] : e.figures # None => e.status = "failed"}

\* A sender lives while the request is under way (sending) or has arrived and
\* is not answered (arrived).
Wires == [state : {"none", "sending", "lost", "arrived", "received"}, usage : Usage \cup {None}]

Invocations ==
  [stage : {"idle", "credential", "claimed", "ready", "waiting", "answered"},
   call : Call \cup {None}, outcome : Outcomes \cup {None}]

Reconciliations ==
  [stage : {"idle", "checked", "verified", "persisted", "settled"},
   call : Call \cup {None}, proof : Proofs \cup {None}]

Idle == [stage |-> "idle", call |-> None, outcome |-> None]
Resting == [stage |-> "idle", call |-> None, proof |-> None]

Init ==
  /\ stream = [c \in Call |-> <<>>]
  /\ attempt = [a \in Attempt |-> [status |-> "accepted", figures |-> None]]
  /\ wire = [c \in Call |-> [state |-> "none", usage |-> None]]
  /\ sent = [c \in Call |-> 0]
  /\ gateway = [i \in Invoker |-> Idle]
  /\ said = [i \in Invoker |-> <<>>]
  /\ recon = [r \in Reconciler |-> Resting]

-----------------------------------------------------------------------------
\* The projection of a stream (_project_call).
Log(c) == Range(stream[c])
OutcomesOf(c) == {o \in Outcomes : <<"outcome", o>> \in Log(c)}
ProofsOf(c) == {p \in Proofs : <<"reconciliation", p>> \in Log(c)}
ProofOf(c) == CHOOSE p \in ProofsOf(c) : TRUE

Status(c) ==
  IF stream[c] = <<>> THEN "absent"
  ELSE IF <<"settlement">> \in Log(c) THEN "reconciled"
  ELSE IF ProofsOf(c) # {} THEN "settlement_pending"
  ELSE IF OutcomesOf(c) # {} THEN CHOOSE o \in OutcomesOf(c) : TRUE
  ELSE "dispatching"

Unresolved(c) == Status(c) \in {"dispatching", "unknown"}
Pending(c) == Status(c) = "settlement_pending"
Holding(a) == attempt[a].status \in {"accepted", "outcome_unknown"}

\* An append under the version the writer read.
AppendTo(c, e) == stream' = [stream EXCEPT ![c] = Append(@, e)]

\* The other calls an attempt has in the journal.
Siblings(c) == {d \in Call : AttemptOf[d] = AttemptOf[c] /\ d # c}

-----------------------------------------------------------------------------
\* The gateway (ProviderModelGateway._invoke).

At(i, stage, c, o) ==
  gateway' = [gateway EXCEPT ![i] = [stage |-> stage, call |-> c, outcome |-> o]]

\* Preflight: the route is accepted and the journal knows no such call.  A
\* known call is refused as idempotency_conflict, which changes nothing.
Invoke(i, c) ==
  /\ gateway[i] = Idle
  /\ attempt[AttemptOf[c]].status = "accepted"
  /\ Status(c) = "absent"
  /\ At(i, "credential", c, None)
  /\ UNCHANGED <<stream, attempt, wire, sent, said, recon>>

\* Variant: a task that passed the preflight goes on whatever the stream says.
ClaimableAlways(c) == TRUE

\* record_intent appends at version 0.  Under the dispatch authority the same
\* transaction resolves the attempt again and refuses a second call for it.
Claimable(c) ==
  /\ stream[c] = <<>>
  /\ Owned => /\ attempt[AttemptOf[c]].status = "accepted"
              /\ \A d \in Siblings(c) : stream[d] = <<>>

\* The credential has arrived: the intent is recorded, or the task is told
\* that another one holds the call.
RecordIntent(i) ==
  LET c == gateway[i].call IN
  /\ gateway[i].stage = "credential"
  /\ IF Claimable(c)
     THEN AppendTo(c, <<"intent">>) /\ At(i, "claimed", c, None)
     ELSE gateway' = [gateway EXCEPT ![i] = Idle] /\ UNCHANGED stream
  /\ UNCHANGED <<attempt, wire, sent, said, recon>>

\* The intent is read back before the transport is called; a failed read, or
\* a call that is no longer dispatching, is recorded as not_sent.
ReadBack(i) ==
  LET c == gateway[i].call IN
  /\ gateway[i].stage = "claimed"
  /\ \/ Status(c) = "dispatching" /\ At(i, "ready", c, None)
     \/ At(i, "answered", c, "not_sent")
  /\ UNCHANGED <<stream, attempt, wire, sent, said, recon>>

\* The transport hands the request to a sender.
Transmit(i) ==
  LET c == gateway[i].call IN
  /\ gateway[i].stage = "ready"
  /\ sent' = [sent EXCEPT ![c] = @ + 1]
  /\ wire' = [wire EXCEPT ![c].state = "sending"]
  /\ At(i, "waiting", c, None)
  /\ UNCHANGED <<stream, attempt, said, recon>>

\* The transport fails, is cancelled or times out before a sender exists; an
\* error that does not say so is taken for unknown.
TransportRefuses(i) ==
  /\ gateway[i].stage = "ready"
  /\ \E o \in {"not_sent", "unknown"} : At(i, "answered", gateway[i].call, o)
  /\ UNCHANGED <<stream, attempt, wire, sent, said, recon>>

\* Variant: a timeout is taken for a request that never left.
AnswersTimeoutNotSent(state) ==
  CASE state = "received" -> {"known_success", "known_failure", "unknown"}
    [] state = "lost" -> {"unknown", "not_sent"}
    [] OTHER -> {"unknown", "not_sent"}

\* What the gateway makes of the transport's answer: a 2xx response that
\* decodes, a refusal, and unknown for a response that does not decode, a 408
\* or 5xx, and whatever may have been sent.
Answers(state) ==
  CASE state = "received" -> {"known_success", "known_failure", "unknown"}
    [] state = "lost" -> {"unknown", "not_sent"}
    [] OTHER -> {"unknown"}

Answered(i) ==
  LET c == gateway[i].call IN
  /\ gateway[i].stage = "waiting"
  /\ \E o \in Answers(wire[c].state) : At(i, "answered", c, o)
  /\ UNCHANGED <<stream, attempt, wire, sent, said, recon>>

\* record_outcome: the call is dispatching and the stream at version 1.
Recordable(c) == stream[c] = <<<<"intent">>>>

\* What the task is told: an outcome that is not durable is unknown.
Told(recorded, o) == IF recorded THEN o ELSE "unknown"

\* The outcome is recorded; a conflict or a failing store leaves the journal
\* as it is.
RecordOutcome(i) ==
  LET c == gateway[i].call
      o == gateway[i].outcome IN
  /\ gateway[i].stage = "answered"
  /\ \E recorded \in {FALSE, Recordable(c)} :
       /\ IF recorded THEN AppendTo(c, <<"outcome", o>>) ELSE UNCHANGED stream
       /\ said' = [said EXCEPT ![i] = <<c, Told(recorded, o)>>]
  /\ gateway' = [gateway EXCEPT ![i] = Idle]
  /\ UNCHANGED <<attempt, wire, sent, recon>>

\* The task or its process dies.
GatewayCrashes(i) ==
  /\ gateway[i] # Idle
  /\ gateway' = [gateway EXCEPT ![i] = Idle]
  /\ UNCHANGED <<stream, attempt, wire, sent, said, recon>>

\* The provider and the network.
Receive(c) ==
  /\ wire[c].state = "sending"
  /\ \E u \in Usage : wire' = [wire EXCEPT ![c] = [state |-> "arrived", usage |-> u]]
  /\ UNCHANGED <<stream, attempt, sent, gateway, said, recon>>

\* The sender gets the response, or is stopped without it.
SenderEnds(c) ==
  /\ wire[c].state = "arrived"
  /\ wire' = [wire EXCEPT ![c].state = "received"]
  /\ UNCHANGED <<stream, attempt, sent, gateway, said, recon>>

Lose(c) ==
  /\ wire[c].state = "sending"
  /\ wire' = [wire EXCEPT ![c].state = "lost"]
  /\ UNCHANGED <<stream, attempt, sent, gateway, said, recon>>

-----------------------------------------------------------------------------
\* The scheduler, as far as calls depend on it.

CallsOf(a) == {c \in Call : AttemptOf[c] = a}

\* No call of a is recorded or being prepared.
Untouched(a) ==
  /\ \A c \in CallsOf(a) : stream[c] = <<>>
  /\ \A i \in Invoker : gateway[i].call \notin CallsOf(a)

\* A task that holds the call has not handed it over yet.
MaySend(c) == \E i \in Invoker : gateway[i].call = c /\ gateway[i].stage \in {"claimed", "ready"}

\* Variant: the host takes any stop receipt.
TerminatedUnproved(c) == TRUE

\* The sender of c has stopped (AttemptTerminationVerifier, stop receipt).
Terminated(c) == wire[c].state \notin {"sending", "arrived"} /\ ~MaySend(c)

\* finish_attempt with outcome_unknown, or an expiry sweep.
MarkUnknown(a) ==
  /\ attempt[a].status = "accepted"
  /\ attempt' = [attempt EXCEPT ![a].status = "outcome_unknown"]
  /\ UNCHANGED <<stream, wire, sent, gateway, said, recon>>

\* finish_attempt(failed) and the verified success.  The scheduler does not
\* ask for calls; only a general worker's attempt needs a call whose result is
\* known and whose sender has stopped, or none at all.
MayRelease(a, status) ==
  Owned =>
    \/ status = "failed" /\ Untouched(a)
    \/ \E c \in CallsOf(a) :
         /\ Status(c) = "known_success" \/ (Status(c) = "known_failure" /\ status = "failed")
         /\ Terminated(c)

Release(a, status) ==
  /\ attempt[a].status = "accepted"
  /\ MayRelease(a, status)
  /\ attempt' = [attempt EXCEPT ![a].status = status]
  /\ UNCHANGED <<stream, wire, sent, gateway, said, recon>>

\* The arguments a proof turns into.
FiguresOf(c, p) ==
  [call |-> IF p.usage = None THEN None ELSE c, usage |-> p.usage, at |-> p.at]

\* Variant: a settled attempt refuses every reconciliation.
SameReconciliationNever(a, f) == FALSE

\* A repeated reconcile_attempt must carry the figures of the first.
SameReconciliation(a, f) == attempt[a].figures = f

\* A general worker's attempt is reconciled with the proof of its call.
MayReconcile(a, f) ==
  Owned =>
    \/ Untouched(a) /\ f.usage = None
    \/ \E c \in CallsOf(a), p \in Proofs : p \in ProofsOf(c) /\ f = FiguresOf(c, p)

\* The ledger settles what still fits the envelope.
Fits(u) == u # None => u <= Envelope

\* reconcile_attempt succeeds, for the first time or as a repetition.
Reconcilable(a, f) ==
  \/ SameReconciliation(a, f)
  \/ /\ attempt[a].figures = None
     /\ attempt[a].status = "outcome_unknown"
     /\ Fits(f.usage)
     /\ MayReconcile(a, f)

Reconciled(entry, f) == IF entry.figures = None THEN [status |-> "failed", figures |-> f] ELSE entry

\* The host settles an attempt by figures of its own.
HostReconciles(a, u, t) ==
  LET f == [call |-> None, usage |-> u, at |-> t] IN
  /\ attempt[a].figures = None
  /\ Reconcilable(a, f)
  /\ attempt' = [attempt EXCEPT ![a] = Reconciled(@, f)]
  /\ UNCHANGED <<stream, wire, sent, gateway, said, recon>>

-----------------------------------------------------------------------------
\* Reconciliation (ProviderReconciliationService).

To(r, stage, c, p) ==
  recon' = [recon EXCEPT ![r] = [stage |-> stage, call |-> c, proof |-> p]]

\* Variant: the attempt's state is left to the settlement.
CheckableAnyAttempt(c) == Unresolved(c)

\* An unresolved call of an attempt whose outcome is unknown.
Checkable(c) == Unresolved(c) /\ attempt[AttemptOf[c]].status = "outcome_unknown"

ReadCall(r, c) ==
  /\ recon[r] = Resting
  /\ Checkable(c)
  /\ To(r, "checked", c, None)
  /\ UNCHANGED <<stream, attempt, wire, sent, gateway, said>>

\* Evidence is authoritative and final: what the provider charged, or that the
\* request did not arrive and cannot arrive any more.
Evidence(c) ==
  {p \in Proofs :
     IF p.usage = None THEN wire[c].state \in {"none", "lost"} /\ ~MaySend(c)
                       ELSE wire[c].state \in {"arrived", "received"} /\ wire[c].usage = p.usage}

\* Evidence and termination are verified.
Verify(r) ==
  LET c == recon[r].call IN
  /\ recon[r].stage = "checked"
  /\ Terminated(c)
  /\ \E p \in Evidence(c) : To(r, "verified", c, p)
  /\ UNCHANGED <<stream, attempt, wire, sent, gateway, said>>

\* Variant: a proof is appended unless the call has been settled.
ProvableUntilSettled(c) == Unresolved(c) \/ Pending(c)

\* _append_reconciliation: no proof yet and no known outcome.
Provable(c) == Unresolved(c)

\* The proof is persisted before anything is settled; the same proof counts as
\* persisted, another one as a conflict.
Persist(r) ==
  LET c == recon[r].call
      p == recon[r].proof IN
  /\ recon[r].stage = "verified"
  /\ IF Provable(c)
     THEN AppendTo(c, <<"reconciliation", p>>) /\ To(r, "persisted", c, p)
     ELSE /\ IF p \in ProofsOf(c) THEN To(r, "persisted", c, p)
                                  ELSE recon' = [recon EXCEPT ![r] = Resting]
          /\ UNCHANGED stream
  /\ UNCHANGED <<attempt, wire, sent, gateway, said>>

\* A call that has a proof: the same evidence and time resume its settlement.
Replay(r, c) ==
  /\ recon[r] = Resting
  /\ Pending(c)
  /\ To(r, "persisted", c, ProofOf(c))
  /\ UNCHANGED <<stream, attempt, wire, sent, gateway, said>>

\* _apply_one_settlement: reconcile_attempt, then the marker.  A refusal
\* leaves the call pending.
SettleAttempt(r) ==
  LET c == recon[r].call
      a == AttemptOf[c]
      f == FiguresOf(c, recon[r].proof) IN
  /\ recon[r].stage = "persisted"
  /\ IF Reconcilable(a, f)
     THEN /\ attempt' = [attempt EXCEPT ![a] = Reconciled(@, f)]
          /\ To(r, "settled", c, recon[r].proof)
     ELSE recon' = [recon EXCEPT ![r] = Resting] /\ UNCHANGED attempt
  /\ UNCHANGED <<stream, wire, sent, gateway, said>>

\* _record_scheduler_settlement: the marker is appended once.
Markable(c) == Pending(c)

Mark(r) ==
  LET c == recon[r].call IN
  /\ recon[r].stage = "settled"
  /\ IF Markable(c) THEN AppendTo(c, <<"settlement">>) ELSE UNCHANGED stream
  /\ recon' = [recon EXCEPT ![r] = Resting]
  /\ UNCHANGED <<attempt, wire, sent, gateway, said>>

\* The host call is rejected by a verifier or dies.
ReconcilerStops(r) ==
  /\ recon[r] # Resting
  /\ recon' = [recon EXCEPT ![r] = Resting]
  /\ UNCHANGED <<stream, attempt, wire, sent, gateway, said>>

-----------------------------------------------------------------------------
\* Startup (ControlPlaneApplication._bootstrap), one transaction.

PendingOf(a) == {c \in CallsOf(a) : Pending(c)}

\* The attempts after apply_pending_settlements.
AfterSettlements ==
  [a \in Attempt |->
     IF PendingOf(a) = {} THEN attempt[a]
     ELSE LET c == CHOOSE x \in PendingOf(a) : TRUE
          IN Reconciled(attempt[a], FiguresOf(c, ProofOf(c)))]

\* _validate_provider_calls, before and after the settlements.
CallsValid(entries) ==
  \A c \in Call :
    LET entry == entries[AttemptOf[c]] IN
    /\ Unresolved(c) => entry.status \in {"accepted", "outcome_unknown"}
    /\ Status(c) = "reconciled" =>
         entry.status = "failed" /\ entry.figures = FiguresOf(c, ProofOf(c))

\* Every pending proof can be settled, those of one attempt by one settlement.
SettlementsApply ==
  \A c \in Call :
    Pending(c) =>
      /\ Reconcilable(AttemptOf[c], FiguresOf(c, ProofOf(c)))
      /\ \A d \in PendingOf(AttemptOf[c]) : FiguresOf(d, ProofOf(d)) = FiguresOf(c, ProofOf(c))

Startable == CallsValid(attempt) /\ SettlementsApply /\ CallsValid(AfterSettlements)

\* A process opens the control plane while others may still be at work.
Startup ==
  /\ \E c \in Call : Pending(c)
  /\ Startable
  /\ attempt' = AfterSettlements
  /\ stream' = [c \in Call |-> IF Pending(c) THEN Append(stream[c], <<"settlement">>) ELSE stream[c]]
  /\ UNCHANGED <<wire, sent, gateway, said, recon>>

-----------------------------------------------------------------------------
Gateway(i) ==
  \/ \E c \in Call : Invoke(i, c)
  \/ RecordIntent(i) \/ ReadBack(i) \/ Transmit(i) \/ TransportRefuses(i)
  \/ Answered(i) \/ RecordOutcome(i) \/ GatewayCrashes(i)

Reconciling(r) ==
  \/ \E c \in Call : ReadCall(r, c) \/ Replay(r, c)
  \/ Verify(r) \/ Persist(r) \/ SettleAttempt(r) \/ Mark(r) \/ ReconcilerStops(r)

Scheduler(a) ==
  \/ MarkUnknown(a)
  \/ \E status \in {"succeeded", "failed"} : Release(a, status)
  \/ \E u \in Usage \cup {None}, t \in Time : HostReconciles(a, u, t)

Next ==
  \/ \E i \in Invoker : Gateway(i)
  \/ \E c \in Call : Receive(c) \/ SenderEnds(c) \/ Lose(c)
  \/ \E a \in Attempt : Scheduler(a)
  \/ \E r \in Reconciler : Reconciling(r)
  \/ Startup

\* The host opens the control plane again after a failure.
Spec == Init /\ [][Next]_vars /\ WF_vars(Startup)

-----------------------------------------------------------------------------
\* The variables keep their shape.
TypeOK ==
  /\ stream \in [Call -> Seq(Events)]
  /\ attempt \in [Attempt -> Attempts]
  /\ wire \in [Call -> Wires]
  /\ sent \in [Call -> Nat]
  /\ gateway \in [Invoker -> Invocations]
  /\ said \in [Invoker -> {<<>>} \cup (Call \X Outcomes)]
  /\ recon \in [Reconciler -> Reconciliations]

\* A call is handed to a sender at most once, however many tasks invoke it,
\* retry it and die (record_intent's claim of the scope).
DispatchedOnce == \A c \in Call : sent[c] <= 1

\* What the journal says of a call agrees with the provider: an outcome or a
\* proof that denies the request is recorded only when it can no longer
\* arrive, and a charge is the one the provider made.
RecordsAreTrue ==
  \A c \in Call :
    /\ "not_sent" \in OutcomesOf(c) => wire[c].state \in {"none", "lost"} /\ ~MaySend(c)
    /\ OutcomesOf(c) \cap {"known_success", "known_failure"} # {} => wire[c].state = "received"
    /\ \A p \in ProofsOf(c) : p \in Evidence(c)

\* Every stream satisfies the event contract it is read under
\* (validate_event_contract): a late outcome never follows a proof, a proof
\* never follows a known outcome, and a marker ends the stream, once.
StreamsReplay ==
  \A c \in Call :
    LET s == stream[c] IN
    /\ Len(s) <= 4
    /\ \A k \in DOMAIN s :
         CASE s[k][1] = "intent" -> k = 1
           [] s[k][1] = "outcome" -> k = 2
           [] s[k][1] = "reconciliation" ->
                k > 1 /\ (IF k = 2 THEN TRUE ELSE k = 3 /\ s[2] = <<"outcome", "unknown">>)
           [] OTHER -> k > 1 /\ s[k - 1][1] = "reconciliation"

\* A task is told a definite outcome only if the journal says the same
\* (ProviderModelGateway._record_outcome).
ReportsAreDurable ==
  \A i \in Invoker :
    said[i] # <<>> => said[i][2] = "unknown" \/ said[i][2] \in OutcomesOf(said[i][1])

\* A settled call's attempt failed with exactly the figures of its proof, so a
\* replayed or concurrent settlement charged nothing else.
SettledAsProved ==
  \A c \in Call :
    Status(c) = "reconciled" =>
      /\ attempt[AttemptOf[c]].status = "failed"
      /\ attempt[AttemptOf[c]].figures = FiguresOf(c, ProofOf(c))

\* A released slot has no sender: once the scheduler let an attempt go, none
\* of its requests has a sender or is about to get one.
NoSenderAfterRelease ==
  \A c \in Call :
    ~Holding(AttemptOf[c]) => wire[c].state \notin {"sending", "arrived"} /\ ~MaySend(c)

\* A call whose result is not known keeps its attempt's budget and slot.
UnresolvedStayHeld == \A c \in Call : Unresolved(c) => Holding(AttemptOf[c])

\* Whatever died where, the next startup is accepted.
AlwaysStartable == Startable

\* A persisted proof is settled in the end.
ProofsGetSettled == \A c \in Call : Pending(c) ~> Status(c) = "reconciled"
=============================================================================
