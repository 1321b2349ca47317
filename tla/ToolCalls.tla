------------------------------ MODULE ToolCalls ------------------------------
(***************************************************************************)
(* The read-only tool gateway of a Run (tools/gateway.py) and the approval *)
(* service behind it (approvals/service.py).  A call of execute checks,    *)
(* commits and launches in many steps; approvers, other calls, the loss of *)
(* its attempt, a new policy version and the death of its process come     *)
(* between any two.  Every event-store transaction is one step.  All calls *)
(* ask for the same command, so that any approval is in scope of any call. *)
(***************************************************************************)
EXTENDS Naturals, FiniteSets

CONSTANTS
  Request,      \* tool request ids; an approval has the id of its request
  None,
  MaxAttempt,   \* bound on the attempts of the node
  MaxPolicy,    \* bound on the versions of the policy state
  MaxCalls,     \* bound on the calls at once
  DeniedPolicy  \* the versions that revoke or deny in an emergency

Attempts == 1 .. MaxAttempt
Policies == 0 .. MaxPolicy
Decisions == {"allow", "deny", "needs_approval"}
Terminals == {"completed", "cancelled", "failed", "unknown"}
Receipts == {"applied", "not_applied"}
Starts == [by : Attempts, under : Request \cup {None}]

ASSUME ToolAssumption ==
  /\ MaxAttempt \in Nat \ {0} /\ MaxPolicy \in Nat /\ MaxCalls \in Nat
  /\ DeniedPolicy \subseteq Policies
  /\ None \notin Request \cup Attempts
  /\ None \notin Decisions \cup Terminals \cup Receipts \cup Starts

VARIABLES
  rule,      \* what the Run's frozen manifest says of a safe read
  policy,    \* version of the current policy state
  attempt,   \* the newest accepted attempt of the node, by its generation
  live,      \* whether that attempt has authority
  approval,  \* approval[q]: the approval request of q and what was decided
  effect,    \* effect[q]: the effect under q's approval, in the budget stream
  tool,      \* tool[q]: the events of request q in the security stream
  call,      \* call[q]: the process that executes q
  ran        \* ran[q]: what the isolated command did

world == <<rule, policy, attempt, live>>
vars == <<rule, policy, attempt, live, approval, effect, tool, call, ran>>

Approvals ==
  [asked : BOOLEAN, origin : Attempts, version : Policies, due : BOOLEAN,
   granted : BOOLEAN, denied : BOOLEAN, revoked : BOOLEAN, expired : BOOLEAN,
   bound : Attempts \cup {None}, withdrawn : BOOLEAN]

Effects == [by : Attempts \cup {None}, receipt : Receipts \cup {None}]

Tools ==
  [decision : Decisions \cup {None}, start : Starts \cup {None},
   terminal : Terminals \cup {None}]

Steps ==
  {"idle", "record", "ask", "recheck", "start", "bind", "bind_commit", "consume",
   "consume_commit", "approved_start", "authorize", "launch", "wait", "receipt", "end"}

Calls ==
  [step : Steps, by : Attempts, state : Policies, under : Request \cup {None},
   terminal : Terminals \cup {None}]

TypeOK ==
  /\ rule \in {"allow", "needs_approval"}
  /\ policy \in Policies /\ attempt \in Attempts /\ live \in BOOLEAN
  /\ approval \in [Request -> Approvals]
  /\ effect \in [Request -> Effects]
  /\ tool \in [Request -> Tools]
  /\ call \in [Request -> Calls]
  /\ ran \in [Request -> {"no", "running", "stopped"}]

NoCall == [step |-> "idle", by |-> 1, state |-> 0, under |-> None, terminal |-> None]

Init ==
  /\ rule \in {"allow", "needs_approval"}
  /\ policy = 0 /\ attempt = 1 /\ live = TRUE
  /\ approval = [q \in Request |->
       [asked |-> FALSE, origin |-> 1, version |-> 0, due |-> FALSE, granted |-> FALSE,
        denied |-> FALSE, revoked |-> FALSE, expired |-> FALSE, bound |-> None,
        withdrawn |-> FALSE]]
  /\ effect = [q \in Request |-> [by |-> None, receipt |-> None]]
  /\ tool = [q \in Request |->
       [decision |-> None, start |-> None, terminal |-> None]]
  /\ call = [q \in Request |-> NoCall]
  /\ ran = [q \in Request |-> "no"]

-----------------------------------------------------------------------------
\* DurableAttemptAuthority: attempt a is accepted, running, not past its
\* lease and has a slot and an active agent.
IsCurrent(a) == live /\ a = attempt

Authorized(q) == IsCurrent(call[q].by) /\ policy = call[q].state

\* PolicyEngine.evaluate for a safe read.
Decision(state) == IF state \in DeniedPolicy THEN "deny" ELSE rule

Refused(g) == approval[g].denied \/ approval[g].revoked \/ approval[g].expired

Consumed(g) == effect[g].by # None

Goto(q, step) == call' = [call EXCEPT ![q].step = step]
Leave(q) == call' = [call EXCEPT ![q] = NoCall]

\* The call ends with a ToolExecutionBlocked event, which nothing ever reads.
BlockAndLeave(q) == Leave(q) /\ UNCHANGED tool

-----------------------------------------------------------------------------
\* execute, up to the policy state it decides on.
Enter(q, a, g) ==
  /\ call[q].step = "idle"
  /\ Cardinality({r \in Request : call[r].step # "idle"}) < MaxCalls
  /\ g # None => approval[g].asked
  /\ IsCurrent(a)
  /\ call' = [call EXCEPT ![q] =
       [step |-> "record", by |-> a, state |-> policy, under |-> g, terminal |-> None]]
  /\ UNCHANGED <<world, approval, effect, tool, ran>>

\* _record_request, and what execute does with the decision.
RecordRequest(q) ==
  LET c == call[q]
      d == Decision(c.state)
      unasked == d = "allow" /\ c.under # None
  IN /\ c.step = "record"
     /\ IF tool[q].decision # None
        THEN Leave(q) /\ UNCHANGED tool
        ELSE /\ tool' = [tool EXCEPT ![q].decision = d]
             /\ IF d = "deny" \/ unasked THEN Leave(q)
                ELSE Goto(q, IF d = "needs_approval" /\ c.under = None THEN "ask" ELSE "recheck")
     /\ UNCHANGED <<world, approval, effect, ran>>

\* create_request; the ids of approvals are those of requests, never reused.
CreateRequest(q) ==
  approval' = [approval EXCEPT ![q].asked = TRUE, ![q].origin = call[q].by,
                               ![q].version = call[q].state]

\* _create_approval_request.
Ask(q) ==
  /\ call[q].step = "ask"
  /\ IF Authorized(q)
     THEN CreateRequest(q) /\ Leave(q) /\ UNCHANGED tool
     ELSE BlockAndLeave(q) /\ UNCHANGED approval
  /\ UNCHANGED <<world, effect, ran>>

Recheck(q) ==
  /\ call[q].step = "recheck"
  /\ IF Authorized(q)
     THEN Goto(q, IF call[q].under = None THEN "start" ELSE "bind") /\ UNCHANGED tool
     ELSE BlockAndLeave(q)
  /\ UNCHANGED <<world, approval, effect, ran>>

Started(q) ==
  /\ tool' = [tool EXCEPT ![q].start = [by |-> call[q].by, under |-> call[q].under]]
  /\ Goto(q, "authorize")

\* Variant: authority is not checked again inside the transaction.
StartUnchecked(q) ==
  /\ call[q].step = "start"
  /\ IF tool[q].start # None THEN Leave(q) /\ UNCHANGED tool ELSE Started(q)
  /\ UNCHANGED <<world, approval, effect, ran>>

\* _consume_grant_and_start: the capability of the recorded decision.
Start(q) ==
  /\ call[q].step = "start"
  /\ IF ~Authorized(q) THEN BlockAndLeave(q)
     ELSE IF tool[q].start # None THEN Leave(q) /\ UNCHANGED tool
     ELSE Started(q)
  /\ UNCHANGED <<world, approval, effect, ran>>

-----------------------------------------------------------------------------
\* _record_expired.
RecordExpired(g) == approval' = [approval EXCEPT ![g].expired = TRUE]

\* _record_revoked, if the policy version is no longer the approved one.
RecordOutdated(g) == approval' = [approval EXCEPT ![g].revoked = @ \/ policy # approval[g].version]

\* request_for_grant, the scope of the grant and the checks bind_to_attempt
\* makes before its transaction.
Bind(q) ==
  LET g == call[q].under
      p == approval[g]
      a == call[q].by
  IN /\ call[q].step = "bind"
     /\ IF ~p.granted \/ p.version # call[q].state \/ a <= p.origin \/ ~IsCurrent(a)
        THEN BlockAndLeave(q) /\ UNCHANGED approval
        ELSE IF p.due THEN RecordExpired(g) /\ BlockAndLeave(q)
        ELSE IF policy # p.version THEN RecordOutdated(g) /\ BlockAndLeave(q)
        ELSE Goto(q, "bind_commit") /\ UNCHANGED <<tool, approval>>
     /\ UNCHANGED <<world, effect, ran>>

\* The transaction of bind_to_attempt.
BindCommit(q) ==
  LET g == call[q].under
      p == approval[g]
      a == call[q].by
  IN /\ call[q].step = "bind_commit"
     /\ IF ~Refused(g) /\ ~p.due /\ ~Consumed(g) /\ p.bound = None /\ policy = p.version /\ IsCurrent(a)
        THEN /\ approval' = [approval EXCEPT ![g].bound = a]
             /\ Goto(q, "consume") /\ UNCHANGED tool
        ELSE /\ BlockAndLeave(q)
             /\ IF ~Refused(g) /\ p.due THEN RecordExpired(g)
                ELSE IF ~Refused(g) /\ Consumed(g) THEN UNCHANGED approval
                ELSE RecordOutdated(g)
     /\ UNCHANGED <<world, effect, ran>>

\* What consume_and_intend checks before it reserves.
Consume(q) ==
  LET g == call[q].under IN
  /\ call[q].step = "consume"
  /\ IF ~IsCurrent(call[q].by) THEN BlockAndLeave(q) /\ UNCHANGED approval
     ELSE IF policy # approval[g].version THEN RecordOutdated(g) /\ BlockAndLeave(q)
     ELSE IF approval[g].due THEN RecordExpired(g) /\ BlockAndLeave(q)
     ELSE Goto(q, "consume_commit") /\ UNCHANGED <<tool, approval>>
  /\ UNCHANGED <<world, effect, ran>>

Intended(q) ==
  /\ effect' = [effect EXCEPT ![call[q].under].by = call[q].by]
  /\ Goto(q, "approved_start")
  /\ UNCHANGED <<tool, approval>>

\* Variant: the reservation trusts what was read before it.
ConsumeCommitUnchecked(q) ==
  /\ call[q].step = "consume_commit"
  /\ IF Consumed(call[q].under) THEN BlockAndLeave(q) /\ UNCHANGED <<effect, approval>>
     ELSE Intended(q)
  /\ UNCHANGED <<world, ran>>

\* reserve with approval_events as its factory: effect intent, consumption of
\* the grant and reservation in one transaction.
ConsumeCommit(q) ==
  LET g == call[q].under
      p == approval[g]
      a == call[q].by
  IN /\ call[q].step = "consume_commit"
     /\ IF ~Consumed(g) /\ ~Refused(g) /\ IsCurrent(a) /\ ~p.due /\ policy = p.version /\ p.bound = a
        THEN Intended(q)
        ELSE /\ BlockAndLeave(q) /\ UNCHANGED effect
             /\ IF Consumed(g) THEN UNCHANGED approval
                ELSE IF ~Refused(g) /\ IsCurrent(a) /\ p.due THEN RecordExpired(g)
                ELSE RecordOutdated(g)
     /\ UNCHANGED <<world, ran>>

\* _consume_approved_and_start.
ApprovedStart(q) ==
  /\ call[q].step = "approved_start"
  /\ IF ~Authorized(q) THEN BlockAndLeave(q)
     ELSE IF tool[q].start # None THEN Leave(q) /\ UNCHANGED tool
     ELSE Started(q)
  /\ UNCHANGED <<world, approval, effect, ran>>

-----------------------------------------------------------------------------
Receipt(q, outcome) ==
  IF call[q].under = None THEN UNCHANGED effect
  ELSE effect' = [effect EXCEPT ![call[q].under].receipt = outcome]

EndWith(q, step, terminal) ==
  call' = [call EXCEPT ![q].step = step, ![q].terminal = terminal]

\* The last check before the launch; without authority nothing is launched.
Authorize(q) ==
  /\ call[q].step = "authorize"
  /\ IF Authorized(q) THEN Goto(q, "launch") /\ UNCHANGED effect
     ELSE Receipt(q, "not_applied") /\ EndWith(q, "end", "cancelled")
  /\ UNCHANGED <<world, approval, tool, ran>>

\* The launcher returns a session, or fails when the command may have run.
Launch(q) ==
  /\ call[q].step = "launch"
  /\ \/ ran' = [ran EXCEPT ![q] = "running"] /\ Goto(q, "wait")
     \/ /\ ran' \in {ran, [ran EXCEPT ![q] = "stopped"]}
        /\ EndWith(q, "end", IF call[q].under = None THEN "failed" ELSE "unknown")
  /\ UNCHANGED <<world, approval, effect, tool>>

\* The process ends, on its own, at a limit or cancelled by the monitor.
ProcessStops(q) ==
  /\ ran[q] = "running"
  /\ ran' = [ran EXCEPT ![q] = "stopped"]
  /\ UNCHANGED <<world, approval, effect, tool, call>>

\* Variant: a wait that returns is taken for the end of the process.
WaitTrusting(q) ==
  /\ call[q].step = "wait"
  /\ \E lost \in BOOLEAN :
       /\ lost => ~Authorized(q)
       /\ EndWith(q, IF call[q].under = None THEN "end" ELSE "receipt",
                  IF lost \/ ~Authorized(q) THEN "cancelled" ELSE "completed")
  /\ UNCHANGED <<world, approval, effect, tool, ran>>

\* _wait_with_authority and the outcome of the call.  The watcher sees a loss
\* of authority or is late for it; termination is confirmed only of a process
\* that stopped; the wait may fail.
Wait(q) ==
  /\ call[q].step = "wait"
  /\ \/ /\ ran[q] = "stopped"
        /\ \E lost \in BOOLEAN :
             /\ lost => ~Authorized(q)
             /\ EndWith(q, IF call[q].under = None THEN "end" ELSE "receipt",
                        IF lost \/ ~Authorized(q) THEN "cancelled" ELSE "completed")
     \/ EndWith(q, "end", "unknown")
  /\ UNCHANGED <<world, approval, effect, tool, ran>>

\* record_effect_receipt after a confirmed end; it may fail.
RecordReceipt(q) ==
  /\ call[q].step = "receipt"
  /\ \/ Receipt(q, "applied") /\ Goto(q, "end")
     \/ EndWith(q, "end", "unknown") /\ UNCHANGED effect
  /\ UNCHANGED <<world, approval, tool, ran>>

\* _record_terminal.
End(q) ==
  /\ call[q].step = "end"
  /\ tool' = [tool EXCEPT ![q].terminal = IF @ = None THEN call[q].terminal ELSE @]
  /\ Leave(q)
  /\ UNCHANGED <<world, approval, effect, ran>>

\* The process of the call dies, or an append of it fails.
Crash(q) ==
  /\ call[q].step # "idle"
  /\ Leave(q)
  /\ UNCHANGED <<world, approval, effect, tool, ran>>

-----------------------------------------------------------------------------
\* approve: a grant, or the fact that the request is due or outdated.
Approve(g) ==
  LET p == approval[g] IN
  /\ p.asked /\ ~Refused(g) /\ ~p.granted
  /\ approval' = [approval EXCEPT
       ![g].expired = p.due,
       ![g].revoked = ~p.due /\ policy # p.version,
       ![g].granted = ~p.due /\ policy = p.version]
  /\ UNCHANGED <<world, effect, tool, call, ran>>

Deny(g) ==
  /\ approval[g].asked /\ ~Refused(g) /\ ~approval[g].granted
  /\ approval' = [approval EXCEPT ![g].denied = TRUE, ![g].withdrawn = TRUE]
  /\ UNCHANGED <<world, effect, tool, call, ran>>

\* revoke; withdrawn remembers that it, or deny, reported success.
Revoke(g) ==
  /\ approval[g].granted /\ ~Consumed(g)
  /\ approval' = [approval EXCEPT ![g].revoked = TRUE, ![g].withdrawn = TRUE]
  /\ UNCHANGED <<world, effect, tool, call, ran>>

\* The expiry of an approval request passes.
TimePasses(g) ==
  /\ approval[g].asked /\ ~approval[g].due
  /\ approval' = [approval EXCEPT ![g].due = TRUE]
  /\ UNCHANGED <<world, effect, tool, call, ran>>

\* The control plane: a new policy version, the end of the attempt, the next.
ChangePolicy ==
  /\ policy < MaxPolicy
  /\ policy' = policy + 1
  /\ UNCHANGED <<rule, attempt, live, approval, effect, tool, call, ran>>

LoseAttempt ==
  /\ live
  /\ live' = FALSE
  /\ UNCHANGED <<rule, policy, attempt, approval, effect, tool, call, ran>>

AcceptAttempt ==
  /\ ~live /\ attempt < MaxAttempt
  /\ attempt' = attempt + 1 /\ live' = TRUE
  /\ UNCHANGED <<rule, policy, approval, effect, tool, call, ran>>

Next ==
  \/ \E q \in Request :
       \/ \E a \in 1 .. attempt, g \in Request \cup {None} : Enter(q, a, g)
       \/ RecordRequest(q) \/ Ask(q) \/ Recheck(q) \/ Start(q)
       \/ Bind(q) \/ BindCommit(q) \/ Consume(q) \/ ConsumeCommit(q) \/ ApprovedStart(q)
       \/ Authorize(q) \/ Launch(q) \/ ProcessStops(q) \/ Wait(q) \/ RecordReceipt(q)
       \/ End(q) \/ Crash(q)
       \/ Approve(q) \/ Deny(q) \/ Revoke(q) \/ TimePasses(q)
  \/ ChangePolicy \/ LoseAttempt \/ AcceptAttempt

Spec == Init /\ [][Next]_vars

-----------------------------------------------------------------------------
\* A denial or revocation that reported success holds: no command is started
\* under that approval, whatever call was between its checks and its reservation
\* (deny, revoke, bind_to_attempt, consume_and_intend).
RefusalsHold ==
  \A q, g \in Request :
    approval[g].withdrawn => tool[q].start = None \/ tool[q].start.under # g

\* What the streams say happened did happen: a receipt "applied" and a
\* completed or cancelled end belong to a command that stopped, a receipt
\* "not_applied" to one that never ran, and a command runs only after its
\* start, under at most one consumed grant, which no other command used
\* (execute, record_effect_receipt, _record_terminal).
RecordsAreTrue ==
  \A q \in Request :
    LET t == tool[q] IN
    /\ ran[q] # "no" => t.start # None
    /\ t.terminal = "completed" => ran[q] = "stopped"
    /\ t.terminal = "cancelled" => ran[q] # "running"
    /\ t.start # None /\ t.start.under # None =>
         LET g == t.start.under IN
         /\ effect[g].by = t.start.by
         /\ approval[g].bound = t.start.by
         /\ effect[g].receipt = "applied" => ran[q] = "stopped"
         /\ effect[g].receipt = "not_applied" => ran[q] = "no"
         /\ \A r \in Request : r # q => tool[r].start = None \/ tool[r].start.under # g

\* An execution starts only while its attempt is the current one and the policy
\* state is the one its decision was made on: a fence or a new policy version
\* that was committed first always wins (_consume_grant_and_start,
\* _consume_approved_and_start).
StartsHaveAuthority ==
  [][\A q \in Request : tool[q].start = None /\ tool'[q].start # None =>
       /\ live /\ tool'[q].start.by = attempt
       /\ Decision(policy) # "deny"
       /\ (rule = "needs_approval") =
            (tool'[q].start.under # None /\ approval[tool'[q].start.under].version = policy)]_vars
=============================================================================
