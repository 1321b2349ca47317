--------------------------- MODULE WorkspaceWrite ---------------------------
(***************************************************************************)
(* Workspace operations (runtime/workspace_execution.py) through the write *)
(* gateway (tools/workspace_write.py) and the publisher: an operation's    *)
(* worker proposes, the gateway runs the candidate and publishes it under  *)
(* the writer lease, every outcome is recorded in four streams before the  *)
(* journal is released, and reconcile_publication finishes what a crash    *)
(* interrupted.  Each append is a step of its own.  The checks of a        *)
(* request before its lease are those of ToolCalls.                        *)
(***************************************************************************)
EXTENDS WorkspacePublish, FiniteSets

CONSTANT Approved  \* operations that carry an approval grant

ASSUME WriteAssumption == Approved \subseteq Operation

VARIABLES
  thread,  \* thread[o]: where the thread that executes o is
  stream,  \* stream[o]: the events of o's operation stream
  result,  \* result[o]: what its terminal event says
  trace,   \* trace[o]: o's events in the Run's security and budget streams
  shared,  \* shared[o]: o's events in the two streams of the workspace
  unit     \* unit[o]: the isolated process that runs o's candidate

records == <<stream, result, trace, shared>>
writeVars == <<publisher, thread, records, unit>>

Threads == {"none", "admitted", "proposed", "gateway", "returned", "acknowledge", "gone"}
Results == {Nothing, "published", "failed", "unknown", "refused"}
Resolutions == {Nothing, "completed", "aborted"}

Traces == [start : BOOLEAN, captured : BOOLEAN,
           terminal : {Nothing, "completed", "not_applied", "unknown"},
           intent : BOOLEAN, resolution : Resolutions,
           receipt : {Nothing, "applied", "not_applied"}]
Shares == [intent : BOOLEAN, resolution : Resolutions,
           running : {Nothing, "intended", "stopped"}]

WriteTypeOK ==
  /\ PublishTypeOK
  /\ thread \in [Operation -> Threads]
  /\ stream \in [Operation -> {"none", "requested", "stopped", "finished"}]
  /\ result \in [Operation -> Results]
  /\ trace \in [Operation -> Traces] /\ shared \in [Operation -> Shares]
  /\ unit \in [Operation -> {"none", "running", "exited"}]

WriteInit ==
  /\ PublishInit
  /\ thread = [o \in Operation |-> "none"]
  /\ stream = [o \in Operation |-> "none"]
  /\ result = [o \in Operation |-> Nothing]
  /\ trace = [o \in Operation |->
       [start |-> FALSE, captured |-> FALSE, terminal |-> Nothing,
        intent |-> FALSE, resolution |-> Nothing, receipt |-> Nothing]]
  /\ shared = [o \in Operation |->
       [intent |-> FALSE, resolution |-> Nothing, running |-> Nothing]]
  /\ unit = [o \in Operation |-> "none"]

(* _unresolved_publications of both streams, and _unresolved_executions. *)
Unresolved(o) == \/ trace[o].intent /\ trace[o].resolution = Nothing
                 \/ shared[o].intent /\ shared[o].resolution = Nothing
(* Variant: an execution without a confirmed stop is over once it is told. *)
OccupiedUntilTold(o) == shared[o].running = "intended" /\ trace[o].terminal = Nothing

Occupied(o) == shared[o].running = "intended"

Goes(o, t) == thread' = [thread EXCEPT ![o] = t]
Notes(o, field, value) == trace' = [trace EXCEPT ![o][field] = value]
Announces(o, field, value) == shared' = [shared EXCEPT ![o][field] = value]
Moves(p) == phase' = p

(***************************************************************************)
(* The service: admission, the worker's stop, the terminal event.          *)
(***************************************************************************)
Admit(o) ==
  /\ thread[o] = "none" /\ Goes(o, "admitted")
  /\ stream' = [stream EXCEPT ![o] = "requested"]
  /\ UNCHANGED <<publisher, result, trace, shared, unit>>

StopWorker(o) ==
  /\ thread[o] = "admitted" /\ Goes(o, "proposed")
  /\ stream' = [stream EXCEPT ![o] = "stopped"]
  /\ UNCHANGED <<publisher, result, trace, shared, unit>>

(* _finish is idempotent; published needs both completed receipts and both *)
(* process stops.                                                          *)
Finishes(o, r) ==
  /\ r = "published" =>
       /\ trace[o].resolution = "completed" /\ shared[o].resolution = "completed"
       /\ shared[o].running = "stopped"
  /\ IF stream[o] = "finished" THEN result[o] = r /\ UNCHANGED <<stream, result>>
     ELSE /\ stream' = [stream EXCEPT ![o] = "finished"]
          /\ result' = [result EXCEPT ![o] = r]

(* Anything that refuses the operation before its start, a failed worker,  *)
(* a denied policy and a busy lease among it.                              *)
Refuse(o) ==
  /\ thread[o] \in {"admitted", "proposed"} /\ Goes(o, "gone")
  /\ Finishes(o, "refused")
  /\ UNCHANGED <<publisher, trace, shared, unit>>

Finish(o) ==
  /\ thread[o] = "returned"
  /\ LET r == CASE trace[o].terminal = "completed" -> "published"
                [] trace[o].terminal = "not_applied" -> "failed"
                [] trace[o].start -> "unknown"
                [] OTHER -> "refused"
     IN /\ Finishes(o, r)
        /\ Goes(o, IF r = "published" THEN "acknowledge" ELSE "gone")
  /\ UNCHANGED <<publisher, trace, shared, unit>>

(* The terminal event is durable: release the journal, if that works. *)
AcknowledgeOwn(o) ==
  /\ thread[o] = "acknowledge" /\ Goes(o, "gone")
  /\ Acquire(o, "service", "ack") \/ UNCHANGED <<lease, phase>>
  /\ UNCHANGED <<disk, place, auth, faults, subject, settled, records, unit>>

(***************************************************************************)
(* The gateway under the lease, up to the publication.                     *)
(***************************************************************************)
Lease(o) ==
  /\ thread[o] = "proposed" /\ Goes(o, "gateway")
  /\ Acquire(o, "gateway", "admission")
  /\ UNCHANGED <<disk, place, auth, faults, subject, settled, records, unit>>

(* A step of the gateway that holds the lease for o. *)
Gateway(o, p) == phase = p /\ HasLease(o, "gateway")
fixed == <<disk, place, lease, auth, faults, settled, thread, stream, result>>

Returns(o) == Release /\ Goes(o, "returned")
Return(o) ==
  /\ \/ Gateway(o, "return")
     \/ /\ Gateway(o, "admission")
        /\ \/ ~auth[o] \/ journal.name # Nothing
           \/ \E q \in Operation : Unresolved(q) \/ Occupied(q)
  /\ Returns(o)
  /\ UNCHANGED <<disk, place, auth, faults, subject, settled, records, unit>>

(* No journal of any kind, nothing unresolved in any stream, authority     *)
(* still held: consume the capability or the approval and start.           *)
StartOperation(o) ==
  /\ Gateway(o, "admission") /\ auth[o]
  /\ journal.name = Nothing /\ \A q \in Operation : ~Unresolved(q) /\ ~Occupied(q)
  /\ Notes(o, "start", TRUE) /\ Moves("occupy")
  /\ UNCHANGED <<fixed, subject, shared, unit>>

Occupy(o) ==
  /\ Gateway(o, "occupy")
  /\ IF auth[o] THEN Announces(o, "running", "intended") /\ Moves("launch")
                ELSE Moves("cancel") /\ UNCHANGED shared
  /\ UNCHANGED <<fixed, subject, trace, unit>>

(* The snapshot the change set is relative to is taken now. *)
LaunchCandidate(o) ==
  /\ Gateway(o, "launch") /\ Moves("wait")
  /\ unit' = [unit EXCEPT ![o] = "running"]
  /\ subject' = o /\ tree' = [e \in Entry |-> "before"] /\ temp' = [e \in Entry |-> FALSE]
  /\ UNCHANGED <<journal, place, lease, auth, faults, settled, thread, records>>

NotStarted(o) ==
  /\ Gateway(o, "launch") /\ Moves("cancel") /\ Announces(o, "running", "stopped")
  /\ UNCHANGED <<fixed, subject, trace, unit>>

Exit(o) ==
  /\ unit[o] = "running" /\ unit' = [unit EXCEPT ![o] = "exited"]
  /\ UNCHANGED <<publisher, thread, records>>

(* A confirmed stop is recorded; the candidate then failed, lost its       *)
(* authority while it ran, or goes on to be published.                     *)
Collect(o) ==
  /\ Gateway(o, "wait") /\ unit[o] = "exited"
  /\ Announces(o, "running", "stopped")
  /\ \/ Moves("cancel")
     \/ auth[o] /\ Moves("intend")
  /\ UNCHANGED <<fixed, subject, trace, unit>>

(* The stop of the process cannot be confirmed. *)
Unconfirmed(o) ==
  /\ Gateway(o, "wait") /\ Moves("unknown")
  /\ UNCHANGED <<fixed, subject, trace, shared, unit>>

(* The two intents and the captured result, each durable before the next.  *)
Intend(o) ==
  /\ \/ /\ Gateway(o, "intend")
        /\ IF auth[o] THEN Announces(o, "intent", TRUE) /\ Moves("intend_run")
                      ELSE Moves("cancel") /\ UNCHANGED shared
        /\ UNCHANGED trace
     \/ /\ Gateway(o, "intend_run") /\ Moves("capture")
        /\ Notes(o, "intent", TRUE) /\ UNCHANGED shared
     \/ /\ Gateway(o, "capture") /\ Moves("stage")
        /\ Notes(o, "captured", TRUE) /\ UNCHANGED shared
  /\ UNCHANGED <<fixed, subject, unit>>

(***************************************************************************)
(* Receipts.  The gateway after publishing or recovering, and the          *)
(* reconciliation, append them in the same order.                          *)
(***************************************************************************)
Reconciling(o) == HasLease(o, "reconcile")

ProvedByPresence(o) == Pending /\ journal.op = o

(* What the publisher returned, or what the recovered journal proves. *)
Proved(o) == Pending /\ journal.op = o /\ journal.state = "committed"

Conclude(o) ==
  /\ lease # Nothing /\ lease.op = o
  /\ \/ phase = "published" /\ Moves("completed")
     \/ /\ phase = "recovered"
        /\ IF Proved(o) THEN Moves("completed") ELSE Moves("aborted")
     \/ phase = "unrecovered" /\ Moves(IF Reconciling(o) THEN "give_up" ELSE "uncertain")
  /\ UNCHANGED <<fixed, subject, trace, shared, unit>>

Appends(o, next) == /\ lease # Nothing /\ lease.op = o
                    /\ UNCHANGED <<fixed, subject, unit>>
                    /\ Moves(next)

ReceiptOf(o, outcome) ==
  IF o \in Approved /\ trace[o].receipt = Nothing
  THEN Notes(o, "receipt", outcome) ELSE UNCHANGED trace

Complete(o) ==
  \/ phase = "completed" /\ Appends(o, "completed_run")
     /\ ReceiptOf(o, "applied") /\ UNCHANGED shared
  \/ phase = "completed_run" /\ Appends(o, "completed_terminal")
     /\ Notes(o, "resolution", "completed") /\ UNCHANGED shared
  \/ phase = "completed_terminal" /\ Appends(o, "completed_shared")
     /\ (IF trace[o].terminal = Nothing THEN Notes(o, "terminal", "completed")
         ELSE UNCHANGED trace)
     /\ UNCHANGED shared
  \/ phase = "completed_shared" /\ Appends(o, IF Reconciling(o) THEN "finish" ELSE "return")
     /\ Announces(o, "resolution", "completed") /\ UNCHANGED trace

(* The reconciliation of an abort adds no effect receipt and no terminal. *)
Abort(o) ==
  \/ phase = "aborted" /\ Appends(o, "aborted_run") /\ UNCHANGED shared
     /\ (IF Reconciling(o) THEN UNCHANGED trace ELSE ReceiptOf(o, "not_applied"))
  \/ phase = "aborted_run" /\ Appends(o, "aborted_shared")
     /\ Notes(o, "resolution", "aborted") /\ UNCHANGED shared
  \/ phase = "aborted_shared"
     /\ Appends(o, IF Reconciling(o) THEN "finish" ELSE "cancel_terminal")
     /\ Announces(o, "resolution", "aborted") /\ UNCHANGED trace

(* Nothing was published, or nobody knows: the terminal of the gateway. *)
Cancel(o) ==
  \/ phase = "cancel" /\ Appends(o, "cancel_terminal")
     /\ ReceiptOf(o, "not_applied") /\ UNCHANGED shared
  \/ phase = "cancel_terminal" /\ Appends(o, "return")
     /\ Notes(o, "terminal", "not_applied") /\ UNCHANGED shared
  \/ phase \in {"unknown", "uncertain"} /\ Appends(o, "return")
     /\ Notes(o, "terminal", "unknown") /\ UNCHANGED shared

(* An audit append that fails (ToolAuditUnavailable) ends the call with    *)
(* its operation open; what is durable stays.                              *)
AppendPhases == {"occupy", "intend", "intend_run", "capture", "completed_run",
                 "completed_terminal", "completed_shared", "aborted_run", "aborted_shared",
                 "cancel_terminal", "uncertain", "finish"}

AuditFails ==
  /\ phase \in AppendPhases /\ faults < MaxFaults /\ faults' = faults + 1
  /\ IF lease.by = "gateway" THEN Goes(lease.op, "gone") ELSE UNCHANGED thread
  /\ Release
  /\ UNCHANGED <<disk, place, auth, subject, settled, records, unit>>

(* An effect receipt that fails is an ApprovalError: the gateway's broad   *)
(* handler takes it for an unknown execution, or the service does when no  *)
(* candidate was started; a reconciliation gives up.                       *)
ReceiptFails(o) ==
  /\ phase \in {"completed", "aborted", "cancel"} /\ lease # Nothing /\ lease.op = o
  /\ o \in Approved /\ trace[o].receipt = Nothing
  /\ faults < MaxFaults /\ faults' = faults + 1
  /\ \/ Reconciling(o) /\ phase = "completed" /\ Release /\ UNCHANGED thread
     \/ HasLease(o, "gateway") /\ unit[o] = "none" /\ Returns(o)
     \/ /\ HasLease(o, "gateway") /\ unit[o] # "none"
        /\ Moves("unknown") /\ UNCHANGED <<lease, thread>>
  /\ UNCHANGED <<disk, place, auth, subject, settled, records, unit>>

(* That handler's terminal, and the one of an unconfirmed stop, may fail   *)
(* without consequence.                                                    *)
UnknownFails(o) ==
  /\ Gateway(o, "unknown") /\ Returns(o)
  /\ faults < MaxFaults /\ faults' = faults + 1
  /\ UNCHANGED <<disk, place, auth, subject, settled, records, unit>>

(***************************************************************************)
(* reconcile_publication: only exact durable evidence may touch a journal. *)
(***************************************************************************)
(* Variant: the tool must have told its terminal. *)
TerminalFitsIfRecorded(o) == trace[o].terminal = "completed"

TerminalFits(o) == trace[o].terminal \in {Nothing, "completed"}

Evidence(o) ==
  /\ stream[o] = "stopped"
  /\ \A q \in Operation : ~Occupied(q) /\ (q # o => ~Unresolved(q))
  /\ trace[o].intent /\ shared[o].intent /\ trace[o].start /\ trace[o].captured
  /\ TerminalFits(o)
  /\ shared[o].running = "stopped"
  /\ trace[o].receipt # "not_applied"

Coherent(o) ==
  /\ Pending /\ journal.op = o /\ journal.state # "unbound"
  /\ LET found == {trace[o].resolution, shared[o].resolution} IN
     IF journal.state = "committed" THEN "aborted" \notin found ELSE "completed" \notin found

(* The streams are read before the lease is taken; the resolutions and the *)
(* journal, which a rival could have changed, are read again under it.     *)
Reconcile(o) ==
  /\ Evidence(o) /\ Coherent(o)
  /\ Acquire(o, "reconcile", "scan")
  /\ UNCHANGED <<disk, place, auth, faults, subject, settled, thread, records, unit>>

ReconcileFinish(o) ==
  /\ phase = "finish" /\ Reconciling(o) /\ Moves("ack")
  /\ Finishes(o, IF journal.state = "committed" THEN "published" ELSE "failed")
  /\ UNCHANGED <<disk, place, lease, auth, faults, subject, settled>>
  /\ UNCHANGED <<thread, trace, shared, unit>>

(* _reconcile_terminal_publication: a published operation whose journal is *)
(* still there is acknowledged; any other result is only repeated.         *)
ReconcileTerminal(o) ==
  /\ stream[o] = "finished" /\ result[o] = "published"
  /\ journal.op = o /\ journal.state = "committed"
  /\ Acquire(o, "reconcile", "ack")
  /\ UNCHANGED <<disk, place, auth, faults, subject, settled, thread, records, unit>>

(* The end of a service or reconciliation call that held the lease. *)
EndCall ==
  /\ \/ phase \in {"released", "give_up"}
     \/ phase \in AckPhases /\ faults < MaxFaults
  /\ faults' = IF phase \in AckPhases THEN faults + 1 ELSE faults
  /\ Release
  /\ UNCHANGED <<disk, place, auth, subject, settled, thread, records, unit>>

(***************************************************************************)
(* The process of the application dies: its threads and its lease go, the  *)
(* workspace, the journal, the streams and the isolated unit stay.         *)
(***************************************************************************)
ApplicationDies ==
  /\ faults < MaxFaults /\ faults' = faults + 1
  /\ thread' = [o \in Operation |-> IF thread[o] = "none" THEN "none" ELSE "gone"]
  /\ Release
  /\ UNCHANGED <<disk, place, auth, subject, settled, records, unit>>

WriteSteps(o) ==
  \/ StopWorker(o) \/ Refuse(o) \/ Finish(o) \/ AcknowledgeOwn(o)
  \/ Lease(o) \/ Return(o) \/ StartOperation(o) \/ Occupy(o)
  \/ LaunchCandidate(o) \/ NotStarted(o)
  \/ Exit(o) \/ Collect(o) \/ Unconfirmed(o) \/ Intend(o)
  \/ Conclude(o) \/ Complete(o) \/ Abort(o) \/ Cancel(o)
  \/ ReconcileFinish(o)

PublisherSteps == (Publish \/ Recover \/ Acknowledge) /\ UNCHANGED <<thread, records, unit>>

(* Threads of the process go on, units end, and an operator repeats the    *)
(* explicit reconciliation; failures and the loss of authority may         *)
(* come but need not.                                                      *)
Progress ==
  \/ \E o \in Operation : WriteSteps(o) \/ Reconcile(o) \/ ReconcileTerminal(o)
  \/ PublisherSteps \/ EndCall

WriteNext ==
  \/ Progress \/ \E o \in Operation : Admit(o)
  \/ (Interfere \/ LoseAuthority) /\ UNCHANGED <<thread, records, unit>>
  \/ \E o \in Operation : ReceiptFails(o) \/ UnknownFails(o)
  \/ AuditFails \/ ApplicationDies

WriteSpec == WriteInit /\ [][WriteNext]_writeVars /\ WF_writeVars(Progress)

(***************************************************************************)
(* Properties.                                                             *)
(***************************************************************************)
Says(o, r) == r \in {trace[o].resolution, shared[o].resolution}

(* What any stream says of an operation is what happened to the workspace: *)
(* completed, applied and published only after a durable commit, aborted,  *)
(* not applied and failed only of a transaction that never commits.        *)
RecordsMatchTree ==
  \A o \in Operation :
    /\ \/ Says(o, "completed") \/ trace[o].terminal = "completed"
       \/ trace[o].receipt = "applied" \/ result[o] = "published"
       => o \in settled
    /\ \/ Says(o, "aborted") \/ trace[o].terminal = "not_applied"
       \/ trace[o].receipt = "not_applied" \/ result[o] = "failed"
       => o \notin settled

(* While a candidate runs, even one whose controller died or whose stop    *)
(* nobody confirmed, no other operation runs a candidate and no other      *)
(* publication is open or unsettled.                                       *)
CandidatesRunAlone ==
  \A o \in Operation : unit[o] = "running" =>
    \A q \in Operation \ {o} :
      unit[q] # "running" /\ ~Unresolved(q) /\ ~(Pending /\ journal.op = q)

(* A commit is in the end reported as published, whatever crashed after    *)
(* the marker, or somebody is told that its outcome is unknown: by the     *)
(* tool's terminal, or for an approved operation by the service alone.     *)
CommitsGetReported ==
  \A o \in Operation :
    o \in settled ~> \/ result[o] = "published" \/ trace[o].terminal = "unknown"
                     \/ o \in Approved /\ result[o] = "unknown"

(* Evidence of an abort is released after its durable abort receipt.       *)
AbortsGetReleased ==
  \A o \in Operation :
    result[o] = "failed" /\ Pending /\ journal.op = o ~> journal.op # o

(* A promise the code does not keep, and no run checks: a commit whose     *)
(* audit failed stays available for reconciliation.  After a failed effect *)
(* receipt the service finishes the operation as unknown, which the        *)
(* reconciliation only repeats, and the journal blocks every later writer. *)
CommitsStayReconcilable ==
  \A o \in Operation :
    Pending /\ journal.op = o /\ o \in settled => result[o] # "unknown"
=============================================================================
