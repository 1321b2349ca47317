---------------------------- MODULE SandboxUnit ----------------------------
(***************************************************************************)
(* One transient systemd unit of isolation/launcher.py: the thread that    *)
(* launches it and waits for it, the calls that stop it from its recorded  *)
(* launch receipt, and the proof of its end that both must obtain from     *)
(* systemd and from the unit's cgroup, two sources read one after another  *)
(* while the unit and its systemd-run transport go on.                     *)
(*                                                                         *)
(* A receipt is what everything else trusts: it frees the attempt's slot   *)
(* and deletes the staged files the unit runs on.  The command, its limits *)
(* and its output are left out.                                            *)
(***************************************************************************)
EXTENDS Naturals

CONSTANTS
    Waiter,         \* the thread in launch() and then in session.wait()
    Stoppers        \* calls of stop_prepared_launch

ASSUME WaiterIsNoStopper == Waiter \notin Stoppers

Threads == {Waiter} \union Stoppers

VARIABLES
    state,      \* what systemd holds of the unit
    populated,  \* whether the unit's cgroup has processes
    transport,  \* the systemd-run client: it submits, then waits
    prepared,   \* launched with a prepared identity, or without
    acked,      \* a launch receipt was returned, hence journalled
    staging,    \* the files the unit runs on
    session,    \* the launcher's process-local record of the unit
    result,     \* the session's result, kept once computed
    lock,       \* the thread inside session.wait
    thread,     \* where each thread is
    proved,     \* a termination receipt was returned
    crashed     \* the process of the launcher died

unitVars == <<state, populated, transport, prepared, acked, staging, session, result, lock,
              thread, proved, crashed>>

systemd  == <<state, populated, transport>>
launcher == <<prepared, acked, staging, session, result, lock, thread, proved, crashed>>

-----------------------------------------------------------------------------
(* systemd, the unit's processes and the transport.                        *)

\* "blank" is a unit still loaded whose ControlGroup is already empty.
UnitStates == {"absent", "pending", "active", "stopping", "ended", "blank"}
Over == {"ended", "blank", "absent"}

Submit ==
    /\ transport = "submitting"
    /\ transport' = "waiting" /\ state' = "pending"
    /\ UNCHANGED populated

SubmitFails ==
    /\ transport = "submitting"
    /\ transport' = "exited"
    /\ UNCHANGED <<state, populated>>

BecomesActive ==
    /\ state = "pending"
    /\ state' = "active" /\ populated' = TRUE
    /\ UNCHANGED transport

StartFails ==
    /\ state = "pending"
    /\ state' = "ended"
    /\ UNCHANGED <<populated, transport>>

\* The command returns, or RuntimeMaxSec is over.
UnitStops ==
    /\ state = "active"
    /\ state' = "stopping"
    /\ UNCHANGED <<populated, transport>>

ProcessesDie ==
    /\ state \in {"stopping", "ended"} /\ populated
    /\ populated' = FALSE
    /\ UNCHANGED <<state, transport>>

\* After TimeoutStopSec systemd gives the unit up, whatever is left in it.
BecomesInactive ==
    /\ state = "stopping"
    /\ state' = "ended"
    /\ UNCHANGED <<populated, transport>>

\* --collect, but never over a cgroup that is not empty.
UnitFades ==
    /\ state = "ended" /\ ~populated
    /\ state' = "blank"
    /\ UNCHANGED <<populated, transport>>

UnitCollected ==
    /\ state = "blank"
    /\ state' = "absent"
    /\ UNCHANGED <<populated, transport>>

TransportExits ==
    /\ transport = "waiting" /\ state \in Over
    /\ transport' = "exited"
    /\ UNCHANGED <<state, populated>>

Systemd ==
    /\ \/ Submit \/ SubmitFails \/ BecomesActive \/ StartFails \/ UnitStops
       \/ ProcessesDie \/ BecomesInactive \/ UnitFades \/ UnitCollected \/ TransportExits
    /\ UNCHANGED launcher

\* systemctl kill --kill-whom=all --signal=SIGKILL
Killed == IF state = "active" THEN "stopping" ELSE state

-----------------------------------------------------------------------------
(* Threads.  A stopper inside session.wait has the role "wait" until the   *)
(* wait returns, and "stop" before and after.                              *)

ThreadPlaces == {"new", "acking", "lock", "collect", "grace", "poll", "show", "cgroup", "bind",
                 "finish", "waited", "idle", "over"}

Resting == [at |-> "idle", role |-> "stop", receipt |-> FALSE, again |-> FALSE]

IsAt(t, place) == thread[t].at = place
Set(t, place, role, receipt, again) ==
    thread' = [thread EXCEPT ![t] = [at |-> place, role |-> role,
                                     receipt |-> receipt, again |-> again]]
Move(t, place) == thread' = [thread EXCEPT ![t].at = place]

\* _consume_prepared, staging and Popen: an identity launches once.
Launch(t) ==
    /\ t = Waiter /\ IsAt(t, "new")
    /\ \/ transport' = "submitting" /\ session' = TRUE /\ staging' = "held"
          /\ Set(t, IF prepared THEN "acking" ELSE "lock", "wait", FALSE, FALSE)
       \/ \E left \in {"none", "held"} :        \* not started, or Popen failed
             staging' = left /\ Move(t, "over")
          /\ UNCHANGED <<transport, session>>
    /\ UNCHANGED <<state, populated, prepared, acked, result, lock, proved, crashed>>

\* _read_launch_receipt: loaded, active and of the expected profile.
ReadLaunchReceipt(t) ==
    /\ IsAt(t, "acking")
    /\ \/ state = "active" /\ acked' = TRUE /\ Move(t, "lock")
       \/ state # "active" /\ acked' = FALSE /\ Move(t, "over")
    /\ UNCHANGED <<systemd, prepared, staging, session, result, lock, proved, crashed>>

\* session.wait serialises its callers and answers from the kept result.
EnterWait(t) ==
    /\ IsAt(t, "lock") /\ lock = "none"
    /\ IF result = "none"
       THEN lock' = t /\ Move(t, "collect")
       ELSE lock' = lock /\ Move(t, IF t = Waiter THEN "over" ELSE "waited")
    /\ UNCHANGED <<systemd, prepared, acked, staging, session, result, proved, crashed>>

\* _collect drains the pipes until the transport exits.
Collected(t) ==
    /\ IsAt(t, "collect") /\ transport = "exited"
    /\ Move(t, "poll")
    /\ UNCHANGED <<systemd, prepared, acked, staging, session, result, lock, proved, crashed>>

\* A cancel, the time limit or the output limit: kill, then a last grace.
Deadline(t) ==
    /\ IsAt(t, "collect")
    /\ state' = Killed
    /\ Move(t, "grace")
    /\ UNCHANGED <<populated, transport, prepared, acked, staging, session, result, lock,
                   proved, crashed>>

GraceOver(t) ==
    /\ IsAt(t, "grace")
    /\ Move(t, "poll")
    /\ UNCHANGED <<systemd, prepared, acked, staging, session, result, lock, proved, crashed>>

\* session.wait interrupted while it collects or reads the proof of the end:
\* it kills, keeps no result and raises.
Interrupted(t) ==
    /\ t = Waiter
    /\ thread[t].at \in {"collect", "grace", "poll", "show", "cgroup", "bind", "finish"}
    /\ state' = Killed
    /\ lock' = "none" /\ Move(t, "over")
    /\ UNCHANGED <<populated, transport, prepared, acked, staging, session, result, proved,
                   crashed>>

-----------------------------------------------------------------------------
(* The proof of the end.                                                   *)

\* Variant: the collector ended, so the unit is looked at.
WitnessAnyway == TRUE

\* While systemd-run can still submit the unit, its absence proves nothing.
MayWitness == transport = "exited"

Poll(t) ==
    /\ IsAt(t, "poll")
    /\ Move(t, IF MayWitness THEN "show" ELSE "finish")
    /\ UNCHANGED <<systemd, prepared, acked, staging, session, result, lock, proved, crashed>>

\* Variant: only a unit that is still loaded can be seen to have ended.
LoadedOver == {"ended"}

\* What _read_termination_receipt takes for inactive: a loaded unit with its
\* own control group, or one that is not found.
SeenOver == {"ended", "absent"}

\* systemctl show, the first of the two sources; polled while the unit lives.
Show(t) ==
    /\ IsAt(t, "show")
    /\ \/ state \in SeenOver /\ Move(t, "cgroup")
       \/ state \notin SeenOver /\ Set(t, "bind", thread[t].role, FALSE, thread[t].again)
    /\ UNCHANGED <<systemd, prepared, acked, staging, session, result, lock, proved, crashed>>

\* _cgroup_is_empty, the second; a populated cgroup is polled or given up.
Cgroup(t) ==
    /\ IsAt(t, "cgroup")
    /\ \/ ~populated /\ Set(t, "bind", thread[t].role, TRUE, thread[t].again)
       \/ populated /\ Move(t, "show")
       \/ populated /\ Set(t, "bind", thread[t].role, FALSE, thread[t].again)
    /\ UNCHANGED <<systemd, prepared, acked, staging, session, result, lock, proved, crashed>>

\* _observe_prepared_binding: the same invocation, still the same end.  The
\* stop resamples once when the end is bound but its proof was missed.
BoundEnd == state \in {"ended", "absent"}

Bind(t) ==
    /\ IsAt(t, "bind")
    /\ LET it == thread[t] IN
       IF it.role = "stop" /\ ~it.receipt /\ BoundEnd /\ ~it.again
       THEN Set(t, "show", it.role, FALSE, TRUE)
       ELSE Set(t, "finish", it.role, it.receipt /\ (BoundEnd \/ ~acked), it.again)
    /\ UNCHANGED <<systemd, prepared, acked, staging, session, result, lock, proved, crashed>>

\* systemctl fails or times out where its answer would have proved the end:
\* the receipt, or the binding, is none.
ReadFails(t) ==
    /\ LET it == thread[t] IN
       /\ \/ it.at = "show" /\ state \in SeenOver
             /\ Set(t, "bind", it.role, FALSE, it.again)
          \/ /\ it.at = "bind" /\ BoundEnd /\ acked
             /\ it.receipt \/ (it.role = "stop" /\ ~it.again)
             /\ Set(t, "finish", it.role, FALSE, it.again)
    /\ UNCHANGED <<systemd, prepared, acked, staging, session, result, lock, proved, crashed>>

\* They go with the proof of the end, never before.
Discards(receipt) == receipt

FinishWait(t) ==
    /\ IsAt(t, "finish") /\ thread[t].role = "wait"
    /\ result' = IF thread[t].receipt THEN "proved" ELSE "unproved"
    /\ proved' = (proved \/ thread[t].receipt)
    /\ staging' = IF Discards(thread[t].receipt) THEN "gone" ELSE staging
    /\ session' = (session /\ ~thread[t].receipt)
    /\ lock' = "none"
    /\ Set(t, IF t = Waiter THEN "over" ELSE "waited", "wait", FALSE, FALSE)
    /\ UNCHANGED <<systemd, prepared, acked, crashed>>

-----------------------------------------------------------------------------
(* stop_prepared_launch: from the recorded receipt, with the session of    *)
(* this process or, after a restart, without.                              *)

BeginStop(t) ==
    /\ t \in Stoppers /\ IsAt(t, "idle")
    /\ acked /\ ~proved
    /\ CASE state \in {"pending", "blank"} -> UNCHANGED <<state, thread>>      \* no binding
         [] state \notin {"pending", "blank"} /\ session ->
                state' = Killed /\ Set(t, "lock", "wait", FALSE, FALSE)
         [] OTHER -> state' = Killed /\ Set(t, "show", "stop", FALSE, FALSE)
    /\ UNCHANGED <<populated, transport, prepared, acked, staging, session, result, lock,
                   proved, crashed>>

\* "transport remains unresolved" raises.
AfterWait(t) ==
    /\ IsAt(t, "waited")
    /\ IF MayWitness
       THEN Set(t, "show", "stop", FALSE, FALSE)
       ELSE thread' = [thread EXCEPT ![t] = Resting]
    /\ UNCHANGED <<systemd, prepared, acked, staging, session, result, lock, proved, crashed>>

\* IsolationStopUnknown, or the receipt.
FinishStop(t) ==
    /\ IsAt(t, "finish") /\ thread[t].role = "stop"
    /\ proved' = (proved \/ thread[t].receipt)
    /\ staging' = IF session /\ Discards(thread[t].receipt) THEN "gone" ELSE staging
    /\ session' = (session /\ ~thread[t].receipt)
    /\ thread' = [thread EXCEPT ![t] = Resting]
    /\ UNCHANGED <<systemd, prepared, acked, result, lock, crashed>>

\* The process dies; the unit, its transport and its files stay.
LauncherDies ==
    /\ ~crashed /\ ~IsAt(Waiter, "new")
    /\ crashed' = TRUE
    /\ session' = FALSE /\ lock' = "none" /\ result' = "none"
    /\ thread' = [t \in Threads |-> IF t = Waiter THEN [Resting EXCEPT !.at = "over"] ELSE Resting]
    /\ UNCHANGED <<systemd, prepared, acked, staging, proved>>

-----------------------------------------------------------------------------

UnitInit ==
    /\ state = "absent" /\ populated = FALSE /\ transport = "none"
    /\ prepared \in BOOLEAN
    /\ acked = FALSE
    /\ staging = "none"
    /\ session = FALSE /\ result = "none" /\ lock = "none"
    /\ thread = [t \in Threads |-> IF t = Waiter THEN [Resting EXCEPT !.at = "new"] ELSE Resting]
    /\ proved = FALSE /\ crashed = FALSE

Work(t) ==
    \/ Launch(t) \/ ReadLaunchReceipt(t) \/ EnterWait(t) \/ Collected(t) \/ GraceOver(t)
    \/ Poll(t) \/ Show(t) \/ Cgroup(t) \/ Bind(t) \/ FinishWait(t)
    \/ BeginStop(t) \/ AfterWait(t) \/ FinishStop(t)

UnitNext ==
    \/ Systemd
    \/ \E t \in Threads : Work(t) \/ Deadline(t) \/ Interrupted(t) \/ ReadFails(t)
    \/ LauncherDies

\* systemd and the kernel make progress, threads run, and a stop that could
\* not prove the end is repeated.  A systemctl that fails for ever proves
\* nothing, so from some time on it answers.
UnitFairness ==
    /\ WF_unitVars(Systemd)
    /\ \A t \in Threads : WF_unitVars(Work(t))
    /\ <>[][\A t \in Threads : ~ReadFails(t)]_unitVars

UnitSpec == UnitInit /\ [][UnitNext]_unitVars /\ UnitFairness

-----------------------------------------------------------------------------

\* The variables keep their shape.
UnitTypeOK ==
    /\ state \in UnitStates
    /\ transport \in {"none", "submitting", "waiting", "exited"}
    /\ {populated, prepared, acked, session, proved, crashed} \subseteq BOOLEAN
    /\ staging \in {"none", "held", "gone"}
    /\ result \in {"none", "proved", "unproved"}
    /\ lock \in Threads \union {"none"}
    /\ thread \in [Threads -> [at : ThreadPlaces, role : {"wait", "stop"},
                              receipt : BOOLEAN, again : BOOLEAN]]

\* SandboxTerminationReceipt and _RetainedStaging: once a wait or a stop
\* returned a receipt, or the files the unit runs on are deleted, nothing of
\* the unit runs and nothing can still start it.
ReceiptsAreFinal ==
    proved \/ staging = "gone" => state \in Over /\ ~populated /\ transport # "submitting"

\* stop_prepared_launch: repeated, it proves the end of every unit whose
\* launch was acknowledged, with or without the process that launched it.
StopsGetProved == acked ~> proved

=============================================================================
