---------------------------- MODULE RunLifecycle ----------------------------
(***************************************************************************)
(* The lifecycle controller of one Run (lifecycle/controller.py).  Every   *)
(* operation is one locked read-modify-append on the lifecycle stream and  *)
(* one action here; a call the code refuses, or recognises by its          *)
(* idempotency key, appends nothing and is not a step.  Calls come in any  *)
(* order: results may be late, repeated, or of an attempt that has been    *)
(* replaced.                                                               *)
(***************************************************************************)
EXTENDS LifecycleEvents

CONSTANT Reason  \* reason codes of pause_run

VARIABLES
  life,       \* the projection of the lifecycle stream
  pausedFor,  \* reason codes whose pause key the stream has seen
  resumed,    \* the Run's one resume key has been seen
  asked,      \* requests whose await_user key has been seen
  result      \* the last attempt result recorded, as <<node, generation, outcome>>

vars == <<life, pausedFor, resumed, asked, result>>

Init ==
  /\ life = Initialized
  /\ pausedFor = {} /\ resumed = FALSE /\ asked = {}
  /\ result = << >>

KeysUnchanged == UNCHANGED <<pausedFor, resumed, asked>>

-----------------------------------------------------------------------------
\* append_nodes
AppendNodes(batch, d, m) ==
  /\ life.status \in {"created", "running"}
  /\ ValidAppend(life, batch, d)
  /\ life' = GraphNodesAppended(life, batch, d, m)
  /\ KeysUnchanged /\ UNCHANGED result

\* start_run
StartRun ==
  /\ life.status = "created"
  /\ Present(life) # {}
  /\ life' = RunStarted(life)
  /\ KeysUnchanged /\ UNCHANGED result

\* pause_run: the key is the reason code, so each reason pauses a Run once.
PauseRun(reason) ==
  /\ reason \notin pausedFor
  /\ life.status = "running"
  /\ life' = RunPaused(life)
  /\ pausedFor' = pausedFor \cup {reason}
  /\ UNCHANGED <<resumed, asked, result>>

\* resume_run: the key carries no reason, so a Run resumes once.
ResumeRun ==
  /\ ~resumed
  /\ life.status = "paused"
  /\ life' = RunResumed(life)
  /\ resumed' = TRUE
  /\ UNCHANGED <<pausedFor, asked, result>>

\* await_user
AwaitUser(q) ==
  /\ q \notin asked
  /\ life.status = "running"
  /\ life' = RunAwaitingUser(life, q)
  /\ asked' = asked \cup {q}
  /\ UNCHANGED <<pausedFor, resumed, result>>

\* record_user_response
RecordUserResponse(q) ==
  /\ life.status = "awaiting_user"
  /\ life.request = q
  /\ life' = RunUserResponseReceived(life)
  /\ KeysUnchanged /\ UNCHANGED result

\* request_cancel, up to the commit of RunCancellationRequested.  The call
\* goes on to complete_cancellation_if_idle in a transaction of its own.
RequestCancel ==
  /\ life.status \in {"created", "running", "paused", "awaiting_user"}
  /\ life' = RunCancellationRequested(life)
  /\ KeysUnchanged /\ UNCHANGED result

\* complete_cancellation_if_idle
CompleteCancellation ==
  /\ MayComplete(life)
  /\ life' = RunCancelled(life)
  /\ KeysUnchanged /\ UNCHANGED result

-----------------------------------------------------------------------------
\* record_attempt_accepted: the attempt's generation is the next one.
RecordAttemptAccepted(n) ==
  /\ life.status = "running"
  /\ life.node[n] = "ready"
  /\ Len(life.attempts[n]) < life.limit[n]
  /\ life' = AttemptAccepted(life, n)
  /\ KeysUnchanged /\ UNCHANGED result

\* The end of attempt g of n, common to the three ways it can be recorded.
RecordEnd(n, g, outcome) ==
  /\ life' = AttemptEnded(life, n, outcome)
  /\ result' = <<n, g, outcome>>
  /\ KeysUnchanged

\* record_attempt_completed and _record_verified_attempt_completed
RecordAttemptCompleted(n, g, outcome) ==
  /\ IsCurrent(life, n, g, "accepted")
  /\ RecordEnd(n, g, outcome)

\* record_attempt_reconciled: an unknown outcome can only be settled as failed.
RecordAttemptReconciled(n, g) ==
  /\ IsCurrent(life, n, g, "outcome_unknown")
  /\ RecordEnd(n, g, "failed")

\* record_attempt_cancelled: a stop receipt for the active attempt.
RecordAttemptCancelled(n, g) ==
  /\ life.status = "cancelling"
  /\ IsCurrent(life, n, g, "accepted")
  /\ RecordEnd(n, g, "cancelled")

\* Generations an attempt of this Run may carry.
Generation == 1 .. MaxAttempts

Next ==
  \/ \E batch \in SUBSET (Node \ Present(life)) :
       \E d \in [batch -> SUBSET (Present(life) \cup batch)],
          m \in [batch -> 1 .. MaxAttempts] :
         AppendNodes(batch, d, m)
  \/ StartRun \/ ResumeRun \/ RequestCancel \/ CompleteCancellation
  \/ \E reason \in Reason : PauseRun(reason)
  \/ \E q \in Request : AwaitUser(q) \/ RecordUserResponse(q)
  \/ \E n \in Node : RecordAttemptAccepted(n)
  \/ \E n \in Node, g \in Generation :
       \/ \E outcome \in {"succeeded", "failed", "outcome_unknown"} :
            RecordAttemptCompleted(n, g, outcome)
       \/ RecordAttemptReconciled(n, g)
       \/ RecordAttemptCancelled(n, g)

Spec == Init /\ [][Next]_vars

-----------------------------------------------------------------------------
\* The projection and the seen keys have the shape the reducer can build, and
\* a request is outstanding exactly while the Run awaits the user.
TypeOK ==
  /\ life \in States
  /\ life.request # None <=> life.status = "awaiting_user"
  /\ pausedFor \subseteq Reason
  /\ resumed \in BOOLEAN
  /\ asked \subseteq Request
  /\ result = << >> \/ result \in Node \X Generation \X AttemptStatuses

\* A running Run can always move: some node is ready, has an attempt in
\* flight or awaits reconciliation, so the trailing check of the reducer
\* leaves no Run running with nothing to do (a blocked node always has an
\* ancestor that is live or has failed).
RunningHasWork ==
  life.status = "running" => \E n \in Node : life.node[n] \in Live

\* No node leaves "blocked" for work before every dependency has succeeded,
\* and none stays blocked once they all have.
DependenciesFirst ==
  \A n \in Present(life) :
    /\ life.node[n] \in Live \cup {"succeeded", "failed"} => Unblocked(life, n)
    /\ life.node[n] = "blocked" => ~Unblocked(life, n)

\* A node has at most one attempt that has not ended, it is the last one,
\* it exists exactly while the node is active, and a node is offered again
\* only after its last attempt failed and while its limit leaves another.
OneActiveAttempt ==
  \A n \in Present(life) :
    LET tries == life.attempts[n] IN
    /\ Len(tries) <= life.limit[n]
    /\ life.node[n] = "ready" => Len(tries) < life.limit[n]
    /\ \A i \in 1 .. Len(tries) - 1 : tries[i] = "failed"
    /\ life.node[n] = "running" <=> tries # << >> /\ LastAttempt(life, n) = "accepted"
    /\ life.node[n] = "awaiting_reconciliation"
         <=> tries # << >> /\ LastAttempt(life, n) = "outcome_unknown"

\* A recorded result is the result of the attempt that produced it: fencing
\* never lets a late answer of one generation end another.
ResultsHitTheirAttempt ==
  result # << >> => life.attempts[result[1]][result[2]] = result[3]

\* A Run that has ended has abandoned no attempt: none is still running and
\* none has an unknown outcome waiting for reconciliation.
TerminalIsQuiet == life.status \in Final => Idle(life)

\* Nothing happens to a Run that has ended.
TerminalForever == [][life.status \in Final => life' = life]_vars

\* An attempt's outcome is final, except that an unknown one may be
\* reconciled to a failure: a late success never overwrites it.
OutcomesAreFinal ==
  [][\A n \in Node : \A i \in 1 .. Len(life.attempts[n]) :
       LET before == life.attempts[n][i]
           after == life'.attempts[n][i]
       IN \/ before = "accepted" \/ after = before
          \/ before = "outcome_unknown" /\ after = "failed"]_vars

-----------------------------------------------------------------------------
\* A paused Run can be resumed (task-lifecycle-design.md: Paused returns to
\* its recorded resume_state on ResumeCommitted).
PausedCanResume == life.status = "paused" => ENABLED ResumeRun
=============================================================================
