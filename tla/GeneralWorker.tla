--------------------------- MODULE GeneralWorker ---------------------------
(***************************************************************************)
(* One attempt run by a general worker: the durable operation of           *)
(* runtime/general_worker_journal.py, the execution service that drives it *)
(* through two sandboxed turns, one provider call and an acceptance, the   *)
(* recovery that resumes it, and the scheduler that may at any moment      *)
(* release, fence, cancel or accept the same attempt.                      *)
(*                                                                         *)
(* A call is one execute() or recover().  Between two of its awaits a call *)
(* holds the event loop of its process, so nothing else of that process    *)
(* runs then, but every transaction is a step of its own because the       *)
(* process may die between two of them and another process may come in.   *)
(* Hashes, artifacts and the identity of the attempt are left out: there   *)
(* is one attempt, one response and one output.                            *)
(***************************************************************************)
EXTENDS Naturals, Sequences, SequencesExt, FiniteSets

CONSTANTS
    Calls,          \* execute() and recover() calls
    Processes,      \* application processes that share the database
    ProcessOf,      \* the process each call runs in
    MaxTurns,       \* MAX_TURNS of the journal
    MaxFaults       \* bound: crashes, abandoned calls, unproved stops, reboots

ASSUME CallsRun == ProcessOf \in [Calls -> Processes]
ASSUME Bounds == MaxTurns \in Nat \ {0} /\ MaxFaults \in Nat

None == "none"
Turns == 1..MaxTurns

VARIABLES
    op,         \* the operation the journal's stream replays to
    unit,       \* the systemd unit of each turn
    call,       \* the provider call the operation owns
    received,   \* whether the provider ever got the request
    slot,       \* the scheduler's slot and its outcome
    hold,       \* the budget reservation of the attempt
    run,        \* the status of the run
    world,      \* lease, graph and boot the binding depends on
    published,  \* the artifacts with a publication record
    proposal,   \* the evidence in the verifier's journal
    proof,      \* what the release event and its lifecycle twin bind
    host,       \* where each call is, and the operation it holds
    owner,      \* the call with the flock of the operation
    permit,     \* the process-local permission to dispatch
    faults

vars == <<op, unit, call, received, slot, hold, run, world, published,
          proposal, proof, host, owner, permit, faults>>

-----------------------------------------------------------------------------
(* The operation: GeneralWorkerOperation and its checkpoints.              *)

NoOperation == [phase |-> None, turns |-> <<>>]
NewTurn(phase) == [phase |-> phase, acked |-> FALSE, stopped |-> FALSE, observed |-> FALSE]

Phases == {None, "requested", "worker_requested", "worker_stopped", "call_reserved",
           "response_captured", "completion_requested", "completion_stopped",
           "proposed", "accepted"}

AfterCall == {"call_reserved", "response_captured", "completion_requested",
              "completion_stopped", "proposed", "accepted"}
AfterCapture == AfterCall \ {"call_reserved"}

RequestRetryAllowed(o) ==
    /\ o.phase = "worker_stopped"
    /\ o.turns # <<>>
    /\ \A t \in ToSet(o.turns) :
          t.phase = "request" /\ t.acked /\ t.stopped /\ ~t.observed

\* Variant: a turn without an acknowledgement is taken for one never launched.
AckedStopped(o) == \A t \in ToSet(o.turns) : t.acked => t.stopped

WorkerStopped(o) == \A t \in ToSet(o.turns) : t.acked /\ t.stopped

LastTurn(o) == Len(o.turns)

TurnPhase(o) == IF o.phase \in {"requested", "worker_stopped"} THEN "request" ELSE "complete"

Prepared(o) ==
    [phase |-> IF TurnPhase(o) = "request" THEN "worker_requested" ELSE "completion_requested",
     turns |-> Append(o.turns, NewTurn(TurnPhase(o)))]

Acknowledged(o) == [o EXCEPT !.turns[LastTurn(o)].acked = TRUE]

Stopped(o, observed) ==
    [o EXCEPT !.phase = IF o.phase = "worker_requested" THEN "worker_stopped"
                                                        ELSE "completion_stopped",
              !.turns[LastTurn(o)].stopped = TRUE,
              !.turns[LastTurn(o)].observed = observed]

\* recovery_action: what a recovered operation still needs.
RecoveryAction(o) ==
    CASE o.phase = "accepted" -> "accepted"
      [] o.phase \in {"worker_requested", "completion_requested"} ->
            IF Last(o.turns).acked THEN "stop" ELSE "launch_unknown"
      [] o.phase = "requested" \/ RequestRetryAllowed(o) -> "request"
      [] o.phase = "worker_stopped" /\ ~RequestRetryAllowed(o) ->
            IF Last(o.turns).observed THEN "dispatch" ELSE "held"
      [] o.phase = "call_reserved" -> "call_held"
      [] o.phase \in {"response_captured", "completion_stopped"} -> "complete"
      [] OTHER -> "accept"

-----------------------------------------------------------------------------
(* What the journal and the startup audit accept.                          *)

SlotReleased == slot \in {"succeeded", "failed", "cancelled"}

\* A call whose result and cost the provider has reported.
TrustedUsage == call.status \in {"known_success", "known_failure"} /\ call.priced

ProviderSuccess == call.status = "known_success" /\ call.priced

\* _validate_links: a captured response and a proposal exist where they point.
Linked(o) ==
    /\ o.phase \in AfterCapture => ProviderSuccess
    /\ o.phase \in {"proposed", "accepted"} => proposal # None

\* _validate_terminal_links: the release of the slot and the operation agree.
TerminallyLinked(o) ==
    IF o.phase = "accepted"
    THEN slot = "succeeded" /\ hold = "committed" /\ published = {"response", "output"}
    ELSE slot # "succeeded" /\ (SlotReleased => WorkerStopped(o))

\* _validate_success_proofs: a success was accepted within its lease, over
\* the graph it was routed on and while its run was not being cancelled.
SuccessProved ==
    slot = "succeeded" =>
        /\ op.phase = "accepted"
        /\ proposal = "accepted"
        /\ proof.lease = "live"
        /\ proof.graph = "frozen"
        /\ proof.run \notin {"cancelling", "cancelled"}

\* GeneralWorkerJournal.read
Readable == op.phase # None => Linked(op) /\ TerminallyLinked(op)

\* _resolve_active_attempt, with the run statuses a release may see.
HoldsSlot(allowCancelling) ==
    /\ world.lease = "live"
    /\ run # "cancelled"
    /\ run = "cancelling" => allowCancelling
    /\ slot = "active"
    /\ hold = "reserved"

\* Variant: the binding to the frozen graph is not read again.
BoundAnyGraph == HoldsSlot(FALSE)

\* _resolve_verification_binding: the attempt is bound to the frozen graph.
Bound == HoldsSlot(FALSE) /\ world.graph = "frozen"

PhasesFor(purpose) ==
    CASE purpose = "request" -> {"requested"}
      [] purpose = "dispatch" -> {"worker_stopped", "call_reserved"}
      [] purpose = "completion" -> {"response_captured", "completion_stopped"}
      [] purpose = "acceptance" -> {"proposed"}

\* _general_unsettled_calls: only the captured success may be built upon.
CallAllows(o, purpose) ==
    call.status # None =>
        /\ purpose \in {"completion", "acceptance"}
        /\ o.phase \in AfterCapture
        /\ call.status = "known_success"

\* _validate_general_eligibility, read in one transaction.
Eligible(o, purpose) ==
    /\ Readable
    /\ op = o
    /\ run = "running"
    /\ Bound
    /\ world.boot = "same"
    /\ o.phase \in PhasesFor(purpose) \/ (purpose = "request" /\ RequestRetryAllowed(o))
    /\ purpose # "request" => o.turns # <<>> /\ WorkerStopped(o)
    /\ purpose = "dispatch" => Last(o.turns).observed
    /\ CallAllows(o, purpose)

-----------------------------------------------------------------------------
(* Processes, calls and the flock.                                         *)

\* Places where a call waits and other coroutines of its process run.
Awaits == {"idle", "claiming", "stopping", "preparing", "starting", "waiting",
           "brokering", "sending", "answering", "verifying", "accepting"}

Free(p) == \A c \in Calls : ProcessOf[c] = p => host[c].at \in Awaits

\* The event loop may run c: no other call of its process is between awaits.
Scheduled(c) ==
    \A d \in Calls \ {c} : ProcessOf[d] = ProcessOf[c] => host[d].at \in Awaits

Idle == [at |-> "idle", view |-> NoOperation]

At(c, place) == host[c].at = place
View(c) == host[c].view

GoTo(c, place) == host' = [host EXCEPT ![c].at = place]

\* Returning, raising and being cancelled all close the claim; the gateway
\* retires the permit of its invocation.
Return(c) ==
    /\ host' = [host EXCEPT ![c] = Idle]
    /\ owner' = IF owner = c THEN None ELSE owner
    /\ permit' = [permit EXCEPT ![c] = None]

Stays(c) == UNCHANGED <<owner, permit>>

\* _append: compare and set of the operation this call holds.
Append1(c, new, place) ==
    /\ op = View(c)
    /\ op' = new
    /\ host' = [host EXCEPT ![c] = [at |-> place, view |-> new]]

Fault == faults < MaxFaults /\ faults' = faults + 1

scheduling == <<slot, hold, run, proof>>
evidence   == <<published, proposal>>
provider   == <<call, received>>

-----------------------------------------------------------------------------
(* execute and recover up to the claim of the operation.                   *)

\* _register: binding, first checkpoint and eligibility in one transaction.
Register(c) ==
    /\ At(c, "idle") /\ op.phase = None
    /\ Bound /\ run = "running" /\ world.boot = "same"
    /\ op' = [phase |-> "requested", turns |-> <<>>]
    /\ GoTo(c, "claiming")
    /\ UNCHANGED <<unit, world, owner, permit, faults, scheduling, evidence, provider>>

Begin(c) ==
    /\ At(c, "idle") /\ op.phase # None /\ Readable
    /\ GoTo(c, "claiming")
    /\ UNCHANGED <<op, unit, world, owner, permit, faults, scheduling, evidence, provider>>

\* GeneralWorkerOwnership.acquire: a second call answers in_progress.
Claim(c) ==
    /\ At(c, "claiming")
    /\ IF owner = None
       THEN owner' = c /\ GoTo(c, "deciding")
       ELSE owner' = owner /\ host' = [host EXCEPT ![c] = Idle]
    /\ UNCHANGED <<op, unit, world, permit, faults, scheduling, evidence, provider>>

PurposeOf(action) ==
    CASE action = "request" -> "request"
      [] action = "dispatch" -> "dispatch"
      [] action = "complete" -> "completion"
      [] action = "accept" -> "acceptance"

PlaceOf(action) ==
    CASE action = "stop" -> "stopping"
      [] action = "dispatch" -> "reserving"
      [] action = "accept" -> "accepting"
      [] OTHER -> "preparing"

\* Variant: authority is resolved before the cleanup of a recovered turn.
ProceedsWithAuthority(action) ==
    action \in {"stop", "request", "dispatch", "complete", "accept"} /\ run = "running" /\ Bound

\* What the operation needs may go ahead: stopping needs no live authority,
\* everything else resolves it afresh.
MayProceed(action) ==
    \/ action = "stop"
    \/ /\ action \in {"request", "dispatch", "complete", "accept"}
       /\ Eligible(op, PurposeOf(action))
       /\ action = "accept" => proposal = "accepted"

\* The body of _execute_or_recover after the claim, and after every turn.
Decide(c) ==
    /\ At(c, "deciding")
    /\ IF Readable /\ world.boot = "same" /\ MayProceed(RecoveryAction(op))
       THEN /\ host' = [host EXCEPT ![c] = [at |-> PlaceOf(RecoveryAction(op)), view |-> op]]
            /\ Stays(c)
       ELSE Return(c)
    /\ UNCHANGED <<op, unit, world, faults, scheduling, evidence, provider>>

-----------------------------------------------------------------------------
(* _turn: one sandboxed unit, from its intent to the proof of its end.     *)

\* stop_prepared_launch and stop_turn: the unit of a recovered turn.
StopTurn(c) ==
    /\ At(c, "stopping")
    /\ unit' = [unit EXCEPT ![LastTurn(View(c))] = "stopped"]
    /\ Append1(c, Stopped(View(c), FALSE), "deciding")
    /\ Stays(c)
    /\ UNCHANGED <<world, faults, scheduling, evidence, provider>>

\* The authority is read again after the await of prepare_launch.
CheckAgain(c) ==
    /\ At(c, "preparing")
    /\ IF /\ Eligible(View(c), IF TurnPhase(View(c)) = "request" THEN "request" ELSE "completion")
          /\ Len(View(c).turns) < MaxTurns
       THEN GoTo(c, "checked") /\ Stays(c)
       ELSE Return(c)
    /\ UNCHANGED <<op, unit, world, faults, scheduling, evidence, provider>>

\* prepare_turn: the intent is durable before the thread starts the unit.
PrepareTurn(c) ==
    /\ At(c, "checked")
    /\ Append1(c, Prepared(View(c)), "starting")
    /\ unit' = [unit EXCEPT ![LastTurn(View(c)) + 1] = "starting"]
    /\ Stays(c)
    /\ UNCHANGED <<world, faults, scheduling, evidence, provider>>

\* start_turn returned a receipt of the running unit: ack_turn.
AckTurn(c) ==
    /\ At(c, "starting")
    /\ unit[LastTurn(View(c))] = "running"
    /\ Append1(c, Acknowledged(View(c)), "waiting")
    /\ Stays(c)
    /\ UNCHANGED <<unit, world, faults, scheduling, evidence, provider>>

\* IsolationNotStarted or IsolationStartUnknown: nothing is acknowledged.
StartUnknown(c) ==
    /\ At(c, "starting")
    /\ Return(c)
    /\ UNCHANGED <<op, unit, world, faults, scheduling, evidence, provider>>

\* session.wait proved the end of the unit: stop_turn.  A proposal that does
\* not decode ends the call; a request asks for the dispatch, a completion
\* for the publication of its output.
WaitTurn(c) ==
    /\ At(c, "waiting")
    /\ unit[LastTurn(View(c))] = "stopped"
    /\ \E decoded \in BOOLEAN :
          LET request == View(c).phase = "worker_requested"
              next == Stopped(View(c), request /\ decoded)
          IN  /\ op = View(c)
              /\ op' = next
              /\ IF decoded
                 THEN /\ host' = [host EXCEPT ![c] =
                                    [at |-> IF request THEN "deciding" ELSE "outputting", view |-> next]]
                      /\ Stays(c)
                 ELSE Return(c)
    /\ UNCHANGED <<unit, world, faults, scheduling, evidence, provider>>

\* IsolationStopUnknown from the wait or from the stop: nothing is recorded.
StopUnknown(c) ==
    /\ host[c].at \in {"waiting", "stopping"}
    /\ Fault
    /\ Return(c)
    /\ UNCHANGED <<op, unit, world, scheduling, evidence, provider>>

-----------------------------------------------------------------------------
(* _dispatch and the dispatch authority.                                   *)

\* reserve_call commits, then mints the one permit of this process.
ReserveCall(c) ==
    /\ At(c, "reserving")
    /\ IF View(c).phase = "worker_stopped" /\ Eligible(View(c), "dispatch")
       THEN /\ Append1(c, [View(c) EXCEPT !.phase = "call_reserved"], "permitted")
            /\ permit' = [permit EXCEPT ![c] = "pending"]
            /\ owner' = owner
       ELSE Return(c) /\ op' = op
    /\ UNCHANGED <<unit, world, faults, scheduling, evidence, provider>>

\* is_accepted: the permit is taken before the credentials are asked for.
IsAccepted(c) ==
    /\ At(c, "permitted")
    /\ IF permit[c] = "pending" /\ Eligible(View(c), "dispatch")
       THEN permit' = [permit EXCEPT ![c] = "claimed"] /\ GoTo(c, "brokering") /\ owner' = owner
       ELSE Return(c)
    /\ UNCHANGED <<op, unit, world, faults, scheduling, evidence, provider>>

\* record_intent: the authority is read in the transaction of the intent.
RecordIntent(c) ==
    /\ At(c, "brokering")
    /\ IF permit[c] = "claimed" /\ Eligible(View(c), "dispatch")
       THEN /\ call' = [call EXCEPT !.status = "dispatching"]
            /\ permit' = [permit EXCEPT ![c] = None]
            /\ GoTo(c, "sending")
            /\ owner' = owner
       ELSE Return(c) /\ call' = call
    /\ UNCHANGED <<op, unit, world, received, faults, scheduling, evidence>>

Send(c) ==
    /\ At(c, "sending")
    /\ GoTo(c, "answering")
    /\ received' \in BOOLEAN
    /\ Stays(c)
    /\ UNCHANGED <<op, unit, world, call, faults, scheduling, evidence>>

\* The gateway records how the call ended and returns or raises.
Answer(c) ==
    /\ At(c, "answering")
    /\ \E status \in {"known_success", "known_failure", "unknown"}, priced \in BOOLEAN :
          /\ status = "known_success" => received
          /\ status = "unknown" => ~priced
          /\ call' = [call EXCEPT !.status = status, !.priced = priced]
          /\ IF status = "known_success" /\ priced
             THEN GoTo(c, "answered") /\ Stays(c)
             ELSE Return(c)
    /\ UNCHANGED <<op, unit, world, received, faults, scheduling, evidence>>

\* The response is published before the checkpoint that points to it.
PublishResponse(c) ==
    /\ At(c, "answered")
    /\ \/ /\ published' = published \union {"response"}
          /\ GoTo(c, "capturing")
          /\ Stays(c)
       \/ published' = published /\ Return(c)
    /\ UNCHANGED <<op, unit, world, proposal, faults, scheduling, provider>>

CaptureResponse(c) ==
    /\ At(c, "capturing")
    /\ ProviderSuccess
    /\ Append1(c, [View(c) EXCEPT !.phase = "response_captured"], "deciding")
    /\ Stays(c)
    /\ UNCHANGED <<unit, world, faults, scheduling, evidence, provider>>

-----------------------------------------------------------------------------
(* _complete and the acceptance.                                           *)

PublishOutput(c) ==
    /\ At(c, "outputting")
    /\ published' = published \union {"output"}
    /\ IF Eligible(View(c), "completion")
       THEN GoTo(c, "verifying") /\ Stays(c)
       ELSE Return(c)
    /\ UNCHANGED <<op, unit, world, proposal, faults, scheduling, provider>>

\* VerifierProposalJournal.record: a second verification of the same task
\* must repeat the recorded evidence.
RecordEvidence(c) ==
    /\ At(c, "verifying")
    /\ \E outcome \in {"accepted", "rejected"} :
          IF proposal \in {None, outcome}
          THEN proposal' = outcome /\ GoTo(c, "proposing") /\ Stays(c)
          ELSE proposal' = proposal /\ Return(c)
    /\ UNCHANGED <<op, unit, world, published, faults, scheduling, provider>>

RecordProposal(c) ==
    /\ At(c, "proposing")
    /\ Append1(c, [View(c) EXCEPT !.phase = "proposed"], "deciding")
    /\ Stays(c)
    /\ UNCHANGED <<unit, world, faults, scheduling, evidence, provider>>

\* The checks of the final transaction of _general_acceptance_steps.
Acceptable(o) ==
    /\ Eligible(o, "acceptance")
    /\ proposal = "accepted"
    /\ published = {"response", "output"}
    /\ TrustedUsage

\* Settlement, checkpoint, lifecycle and slot, all in that transaction.
AcceptProposal ==
    /\ op' = [op EXCEPT !.phase = "accepted"]
    /\ hold' = "committed"
    /\ slot' = "succeeded"
    /\ proof' = [lease |-> world.lease, graph |-> world.graph, run |-> run]
    /\ UNCHANGED <<run>>

Accept(c) ==
    /\ At(c, "accepting")
    /\ IF Acceptable(View(c)) THEN AcceptProposal ELSE UNCHANGED <<op, scheduling>>
    /\ Return(c)
    /\ UNCHANGED <<unit, world, faults, evidence, provider>>

\* accept_proposal and finish_verified_attempt need no claim of the operation.
AcceptElsewhere(p) ==
    /\ Free(p)
    /\ Acceptable(op)
    /\ AcceptProposal
    /\ UNCHANGED <<unit, world, host, owner, permit, faults, evidence, provider>>

-----------------------------------------------------------------------------
(* What happens to a call and to its units from outside.                   *)

\* systemd: a unit that was asked for starts or never does, and ends at the
\* latest with its RuntimeMaxSec.
UnitStarts(l) ==
    /\ unit[l] = "starting"
    /\ unit' = [unit EXCEPT ![l] = "running"]
    /\ UNCHANGED <<op, world, host, owner, permit, faults, scheduling, evidence, provider>>

UnitEnds(l) ==
    /\ unit[l] \in {"starting", "running"}
    /\ unit' = [unit EXCEPT ![l] = "stopped"]
    /\ UNCHANGED <<op, world, host, owner, permit, faults, scheduling, evidence, provider>>

\* The task of the call is cancelled at an await; its threads, its sender
\* among them, go on.
Abandon(c) ==
    /\ host[c].at \in Awaits \ {"idle"}
    /\ Fault
    /\ Return(c)
    /\ UNCHANGED <<op, unit, world, scheduling, evidence, provider>>

\* A process dies between any two transactions; its units live on.
Crash(p) ==
    /\ \E c \in Calls : ProcessOf[c] = p /\ ~At(c, "idle")
    /\ Fault
    /\ host' = [c \in Calls |-> IF ProcessOf[c] = p THEN Idle ELSE host[c]]
    /\ permit' = [c \in Calls |-> IF ProcessOf[c] = p THEN None ELSE permit[c]]
    /\ owner' = IF owner # None /\ ProcessOf[owner] = p THEN None ELSE owner
    /\ UNCHANGED <<op, unit, world, scheduling, evidence, provider>>

\* general_worker_host_scope names the boot: every process and unit is gone.
Reboot ==
    /\ world.boot = "same" /\ op.phase # None
    /\ Fault
    /\ world' = [world EXCEPT !.boot = "another"]
    /\ host' = [c \in Calls |-> Idle]
    /\ permit' = [c \in Calls |-> None]
    /\ owner' = None
    /\ unit' = [l \in Turns |-> IF unit[l] = None THEN None ELSE "stopped"]
    /\ UNCHANGED <<op, scheduling, evidence, provider>>

\* The transport gives up a call nobody waits for any more, or never records
\* it after a crash: a proof is asked of a dispatching call as of an unknown one.
CallLost ==
    /\ call.status = "dispatching"
    /\ \A c \in Calls : host[c].at \notin {"sending", "answering"}
    /\ call' = [call EXCEPT !.status = "unknown"]
    /\ UNCHANGED <<op, unit, world, received, host, owner, permit, faults, scheduling, evidence>>

\* The sender of a call that nobody waits for any more goes on, until the
\* proof of the call finds it ended (see ProviderCalls).
ReceivedLate ==
    /\ call.status \in {"dispatching", "unknown"} /\ ~received
    /\ \A c \in Calls : host[c].at \notin {"sending", "answering"}
    /\ received' = TRUE
    /\ UNCHANGED <<op, unit, world, call, host, owner, permit, faults, scheduling, evidence>>

\* The provider proves what became of an unknown call.
CallProved ==
    /\ call.status = "unknown"
    /\ call' = [call EXCEPT !.status = "settlement_pending",
                            !.effect = IF received THEN "charged" ELSE "not_received"]
    /\ UNCHANGED <<op, unit, world, received, host, owner, permit, faults, scheduling, evidence>>

-----------------------------------------------------------------------------
(* The scheduler.                                                          *)

Owned == <<op, unit, world, host, owner, permit, faults, evidence, provider>>

\* Variant: a reconciliation takes the caller's word for the effect.
MayReleaseOnClaim(entry, settlement) ==
    op.phase # None =>
        /\ Readable /\ world.boot = "same" /\ WorkerStopped(op)
        /\ op.phase \in AfterCall => IF entry = "reconcile" THEN call.status = "settlement_pending"
                                                           ELSE TrustedUsage /\ settlement = "usage"

\* _check_general_release and _validate_general_release_authority.
MayRelease(entry, settlement) ==
    op.phase # None =>
        /\ Readable
        /\ world.boot = "same"
        /\ WorkerStopped(op)
        /\ IF op.phase \notin AfterCall
           THEN call.status = None /\ settlement = "no_effect"
           ELSE IF entry = "reconcile"
                THEN /\ call.status = "settlement_pending"
                     /\ (settlement = "no_effect") <=> (call.effect = "not_received")
                ELSE TrustedUsage /\ settlement = "usage"

Settled(settlement) == IF settlement = "usage" THEN "committed" ELSE "released"

\* complete_cancellation_if_idle
AfterRelease == IF run = "cancelling" THEN "cancelled" ELSE run

\* finish_attempt with a known outcome
FinishFailed(p) ==
    /\ Free(p) /\ HoldsSlot(TRUE)
    /\ \E settlement \in {"usage", "no_effect"} :
          /\ MayRelease("finish", settlement)
          /\ hold' = Settled(settlement)
    /\ slot' = "failed"
    /\ run' = AfterRelease
    /\ UNCHANGED proof
    /\ UNCHANGED Owned

AcknowledgeCancellation(p) ==
    /\ Free(p) /\ HoldsSlot(TRUE) /\ run = "cancelling"
    /\ \E settlement \in {"usage", "no_effect"} :
          /\ MayRelease("cancel", settlement)
          /\ hold' = Settled(settlement)
    /\ slot' = "cancelled"
    /\ run' = "cancelled"
    /\ UNCHANGED proof
    /\ UNCHANGED Owned

\* finish_attempt("outcome_unknown") and mark_expired_attempts_unknown: no
\* proof is asked for, and everything stays held.
FinishUnknown(p) ==
    /\ Free(p) /\ slot = "active"
    /\ slot' = "outcome_unknown"
    /\ hold' = "unknown"
    /\ UNCHANGED <<run, proof>>
    /\ UNCHANGED Owned

\* reconcile_attempt
Reconcile(p) ==
    /\ Free(p) /\ slot = "outcome_unknown"
    /\ \E settlement \in {"usage", "no_effect"} :
          /\ MayRelease("reconcile", settlement)
          /\ hold' = Settled(settlement)
    /\ slot' = "failed"
    /\ run' = AfterRelease
    /\ UNCHANGED proof
    /\ UNCHANGED Owned

PauseOrResume(p) ==
    /\ Free(p)
    /\ run' = CASE run = "running" -> "paused"
                 [] run = "paused" -> "running"
                 [] OTHER -> run
    /\ UNCHANGED <<slot, hold, proof>>
    /\ UNCHANGED Owned

RequestCancel(p) ==
    /\ Free(p) /\ run \in {"running", "paused"} /\ ~SlotReleased
    /\ run' = "cancelling"
    /\ UNCHANGED <<slot, hold, proof>>
    /\ UNCHANGED Owned

\* Time passes the lease; a graph append changes the version the attempt is
\* bound to.
LeaseExpires ==
    /\ world.lease = "live"
    /\ world' = [world EXCEPT !.lease = "expired"]
    /\ UNCHANGED <<op, unit, host, owner, permit, faults, scheduling, evidence, provider>>

AppendGraph(p) ==
    /\ Free(p) /\ world.graph = "frozen" /\ run = "running"
    /\ world' = [world EXCEPT !.graph = "appended"]
    /\ UNCHANGED <<op, unit, host, owner, permit, faults, scheduling, evidence, provider>>

-----------------------------------------------------------------------------

Init ==
    /\ op = NoOperation
    /\ unit = [l \in Turns |-> None]
    /\ call = [status |-> None, priced |-> FALSE, effect |-> None]
    /\ received = FALSE
    /\ slot = "active" /\ hold = "reserved" /\ run = "running"
    /\ world = [lease |-> "live", graph |-> "frozen", boot |-> "same"]
    /\ published = {} /\ proposal = None
    /\ proof = [lease |-> None, graph |-> None, run |-> None]
    /\ host = [c \in Calls |-> Idle]
    /\ owner = None
    /\ permit = [c \in Calls |-> None]
    /\ faults = 0

\* One step of a call that its event loop may run.
Step(c) ==
    /\ Scheduled(c)
    /\ \/ Register(c) \/ Begin(c) \/ Claim(c) \/ Decide(c) \/ StopTurn(c)
       \/ CheckAgain(c) \/ PrepareTurn(c) \/ AckTurn(c) \/ StartUnknown(c) \/ WaitTurn(c)
       \/ ReserveCall(c) \/ IsAccepted(c) \/ RecordIntent(c) \/ Send(c) \/ Answer(c)
       \/ PublishResponse(c) \/ CaptureResponse(c)
       \/ PublishOutput(c) \/ RecordEvidence(c) \/ RecordProposal(c) \/ Accept(c)

Disturbance ==
    \/ \E c \in Calls : Scheduled(c) /\ (StopUnknown(c) \/ Abandon(c))
    \/ \E p \in Processes : Crash(p)
    \/ Reboot
    \/ LeaseExpires

Outside ==
    \/ \E l \in Turns : UnitStarts(l) \/ UnitEnds(l)
    \/ CallLost \/ ReceivedLate \/ CallProved

Scheduling ==
    \E p \in Processes :
        \/ FinishFailed(p) \/ AcknowledgeCancellation(p) \/ FinishUnknown(p) \/ Reconcile(p)
        \/ PauseOrResume(p) \/ RequestCancel(p) \/ AppendGraph(p) \/ AcceptElsewhere(p)

Next == (\E c \in Calls : Step(c)) \/ Disturbance \/ Outside \/ Scheduling

\* A host repeats recover(), its awaits end, and units end with their limit.
Fairness ==
    /\ \A c \in Calls : WF_vars(Step(c))
    /\ \A l \in Turns : WF_vars(UnitEnds(l))

Spec == Init /\ [][Next]_vars /\ Fairness

-----------------------------------------------------------------------------

\* The startup audit (validate_success_proofs and validate_operations) never
\* refuses a database this code wrote: a success binds the lease, graph and
\* run it was accepted under, and no attempt is released over a turn whose
\* unit is not proved stopped.
StartupAuditPasses == Readable /\ SuccessProved

\* _check_general_release: once the slot is free for a successor, no unit of
\* the attempt runs or can still start.
NothingRunsAfterRelease ==
    SlotReleased => \A l \in Turns : unit[l] \in {None, "stopped"}

\* _validate_general_release_authority: a reservation given back in full had
\* no request behind it that the provider received.
NoEffectIsTrue == hold = "released" => ~received

\* The journal holds turn l without the proof that its unit stopped.
Unproved(l) == l \in DOMAIN op.turns /\ ~op.turns[l].stopped

\* recovery_action and the frozen cleanup path: an acknowledged unit is
\* stopped on record whatever became of the run, the lease or the graph,
\* unless the host it ran on was rebooted.
AckedTurnsStop ==
    \A l \in Turns :
        (Unproved(l) /\ op.turns[l].acked) ~> (~Unproved(l) \/ world.boot = "another")

=============================================================================
