------------------------- MODULE RunLifecycleProofs -------------------------
(***************************************************************************)
(* Proofs about RunLifecycle, for every graph, every bound and every       *)
(* number of calls.  What an event does to a projection is described in    *)
(* LifecycleEventsProofs; everything here uses these descriptions only.    *)
(* IInv carries the theorems on nodes, attempts and outcomes; WInv adds    *)
(* what a running Run needs to have work left.                             *)
(***************************************************************************)
EXTENDS RunLifecycle, LifecycleEventsProofs, WellFoundedInduction

\* The inductive invariant.
IInv ==
  /\ TypeOK
  /\ Ordered(life) /\ Accounted(life) /\ Stands(result, life)
  /\ TerminalIsQuiet

-----------------------------------------------------------------------------
LEMMA InitIInv == Init => IInv
<1> SUFFICES ASSUME Init PROVE IInv
  OBVIOUS
<1>1. /\ life \in States /\ Ordered(life) /\ Accounted(life)
  BY InitializedFacts DEF Init
<1>2. TypeOK
  BY <1>1 DEF Init, TypeOK, Initialized
<1>3. Stands(result, life)
  BY DEF Init, Stands
<1>4. TerminalIsQuiet
  BY DEF Init, Initialized, TerminalIsQuiet, Final
<1> QED
  BY <1>1, <1>2, <1>3, <1>4 DEF IInv

\* An operation that only moves the status of a Run that has not ended.
LEMMA StatusStep ==
  ASSUME IInv, NEW s \in States, SameButStatus(s, life'), life' \in States,
         s.node = life.node, s.deps = life.deps, s.limit = life.limit,
         s.attempts = life.attempts,
         life'.request # None <=> life'.status = "awaiting_user",
         life'.status \in Final => Idle(life'),
         pausedFor' \subseteq Reason, resumed' \in BOOLEAN, asked' \subseteq Request,
         result' = result
  PROVE  IInv'
<1>1. life \in States /\ Ordered(life) /\ Accounted(life) /\ Stands(result, life)
  BY DEF IInv, TypeOK
<1>2. /\ life'.node = life.node /\ life'.deps = life.deps
      /\ life'.limit = life.limit /\ life'.attempts = life.attempts
  BY DEF SameButStatus
<1>3. Ordered(life') /\ Accounted(life') /\ Stands(result', life')
  BY <1>1, <1>2, KeepsGraph
<1>4. TypeOK'
  BY DEF IInv, TypeOK
<1> QED
  BY <1>3, <1>4 DEF IInv, TerminalIsQuiet

\* Every operation on the Run as a whole keeps the invariant, and none applies
\* to a Run that has ended.
LEMMA RunOperations ==
  ASSUME IInv
  PROVE  /\ StartRun \/ ResumeRun \/ RequestCancel => IInv' /\ life.status \notin Final
         /\ \A reason \in Reason : PauseRun(reason) => IInv' /\ life.status \notin Final
         /\ \A q \in Request : AwaitUser(q) \/ RecordUserResponse(q)
                                 => IInv' /\ life.status \notin Final
<1>1. /\ life \in States /\ (life.request # None <=> life.status = "awaiting_user")
      /\ pausedFor \subseteq Reason /\ resumed \in BOOLEAN /\ asked \subseteq Request
  BY DEF IInv, TypeOK
<1>2. SameButStatus(life, life)
  BY DEF SameButStatus
<1>3. ASSUME life' = Concluded([life EXCEPT !.status = "running"]),
             life.status \in {"created", "paused"},
             pausedFor' = pausedFor, resumed' \in BOOLEAN, asked' = asked, result' = result
      PROVE  IInv'
  <2>1. /\ life' \in States /\ SameButStatus(life, life') /\ Settles("running", life')
    BY <1>1, <1>3, RunningFacts
  <2>2. life'.request # None <=> life'.status = "awaiting_user"
    BY <1>1, <1>3, <2>1 DEF SameButStatus, Settles
  <2>3. life'.status \in Final => Idle(life')
    BY <2>1 DEF Settles, Final
  <2> QED
    BY <1>1, <1>3, <2>1, <2>2, <2>3, StatusStep
<1>4. StartRun => IInv' /\ life.status \notin Final
  BY <1>1, <1>3 DEF StartRun, RunStarted, KeysUnchanged, Final
<1>5. ResumeRun => IInv' /\ life.status \notin Final
  BY <1>1, <1>3 DEF ResumeRun, RunResumed, Final
<1>6. ASSUME RequestCancel PROVE IInv' /\ life.status \notin Final
  <2>1. life' = [life EXCEPT !.status = "cancelling", !.request = None]
    BY <1>6 DEF RequestCancel, RunCancellationRequested
  <2> DEFINE s == [life EXCEPT !.request = None]
  <2>2. /\ life' \in States /\ life'.status = "cancelling" /\ life'.request = None
        /\ s \in States /\ SameButStatus(s, life')
        /\ s.node = life.node /\ s.deps = life.deps /\ s.limit = life.limit
        /\ s.attempts = life.attempts
    BY <1>1, <2>1 DEF States, RunStatuses, SameButStatus
  <2> HIDE DEF s
  <2>3. /\ pausedFor' \subseteq Reason /\ resumed' \in BOOLEAN /\ asked' \subseteq Request
        /\ result' = result /\ life.status \notin Final
    BY <1>1, <1>6 DEF RequestCancel, KeysUnchanged, Final
  <2>4. life'.status \notin Final
    BY <2>2 DEF Final
  <2> QED
    BY <2>2, <2>3, <2>4, StatusStep
<1>7. ASSUME NEW reason \in Reason, PauseRun(reason)
      PROVE  IInv' /\ life.status \notin Final
  <2>1. life' = [life EXCEPT !.status = "paused"] /\ life.status = "running"
    BY <1>7 DEF PauseRun, RunPaused
  <2>2. /\ life' \in States /\ life'.status = "paused" /\ SameButStatus(life, life')
    BY <1>1, <2>1 DEF States, RunStatuses, SameButStatus
  <2>3. /\ pausedFor' \subseteq Reason /\ resumed' \in BOOLEAN /\ asked' \subseteq Request
        /\ result' = result
    BY <1>1, <1>7 DEF PauseRun
  <2>4. life'.request # None <=> life'.status = "awaiting_user"
    BY <1>1, <2>1, <2>2 DEF SameButStatus
  <2>5. life'.status \notin Final /\ life.status \notin Final
    BY <2>1, <2>2 DEF Final
  <2> QED
    BY <1>1, <2>2, <2>3, <2>4, <2>5, StatusStep
<1>8. ASSUME NEW q \in Request, AwaitUser(q)
      PROVE  IInv' /\ life.status \notin Final
  <2>1. /\ life' = [life EXCEPT !.status = "awaiting_user", !.request = q]
        /\ life.status = "running"
    BY <1>8 DEF AwaitUser, RunAwaitingUser
  <2> DEFINE s == [life EXCEPT !.request = q]
  <2>2. /\ life' \in States /\ life'.status = "awaiting_user" /\ life'.request = q
        /\ s \in States /\ SameButStatus(s, life')
        /\ s.node = life.node /\ s.deps = life.deps /\ s.limit = life.limit
        /\ s.attempts = life.attempts
    BY <1>1, <2>1 DEF States, RunStatuses, SameButStatus
  <2> HIDE DEF s
  <2>3. /\ pausedFor' \subseteq Reason /\ resumed' \in BOOLEAN /\ asked' \subseteq Request
        /\ result' = result
    BY <1>1, <1>8 DEF AwaitUser
  <2>4. life'.request # None
    BY <2>2, BoundAssumption
  <2>5. life'.status \notin Final /\ life.status \notin Final
    BY <2>1, <2>2 DEF Final
  <2> QED
    BY <2>2, <2>3, <2>4, <2>5, StatusStep
<1>9. ASSUME NEW q \in Request, RecordUserResponse(q)
      PROVE  IInv' /\ life.status \notin Final
  <2> DEFINE s == [life EXCEPT !.request = None]
  <2>1. life' = RunUserResponseReceived(life) /\ life.status = "awaiting_user"
    BY <1>9 DEF RecordUserResponse
  <2>2. life' \in States /\ SameButStatus(s, life') /\ Settles("running", life')
    BY <1>1, <2>1, ResponseFacts
  <2>3. /\ s \in States /\ s.request = None
        /\ s.node = life.node /\ s.deps = life.deps /\ s.limit = life.limit
        /\ s.attempts = life.attempts
    BY <1>1 DEF States
  <2> HIDE DEF s
  <2>4. /\ pausedFor' \subseteq Reason /\ resumed' \in BOOLEAN /\ asked' \subseteq Request
        /\ result' = result
    BY <1>1, <1>9 DEF RecordUserResponse, KeysUnchanged
  <2>5. life'.request = None /\ life'.status # "awaiting_user"
    BY <2>2, <2>3 DEF SameButStatus, Settles
  <2>6. life'.status \in Final => Idle(life')
    BY <2>2 DEF Settles, Final
  <2>7. life.status \notin Final
    BY <2>1 DEF Final
  <2> QED
    BY <2>2, <2>3, <2>4, <2>5, <2>6, <2>7, StatusStep
<1> QED
  BY <1>4, <1>5, <1>6, <1>7, <1>8, <1>9

\* append_nodes keeps the invariant.
LEMMA AppendStep ==
  ASSUME IInv, NEW batch \in SUBSET (Node \ Present(life)),
         NEW d \in [batch -> SUBSET (Present(life) \cup batch)],
         NEW m \in [batch -> 1 .. MaxAttempts],
         AppendNodes(batch, d, m)
  PROVE  IInv' /\ life.status \notin Final
<1>1. /\ life \in States /\ (life.request # None <=> life.status = "awaiting_user")
      /\ Ordered(life) /\ Accounted(life) /\ Stands(result, life)
  BY DEF IInv, TypeOK
<1>2. /\ life.status \in {"created", "running"}
      /\ life' = GraphNodesAppended(life, batch, d, m)
      /\ pausedFor' = pausedFor /\ resumed' = resumed /\ asked' = asked /\ result' = result
  BY DEF AppendNodes, KeysUnchanged
<1>3. /\ batch \in SUBSET Node /\ batch \cap Present(life) = {}
      /\ d \in [batch -> SUBSET Node]
  <2>1. Present(life) \cup batch \subseteq Node
    BY DEF Present
  <2> QED
    BY <2>1
<1>4. Appended(life, life', batch, d, m)
  BY <1>1, <1>2, <1>3, AppendFacts
<1>5. /\ life' \in States /\ life'.request = life.request
      /\ Settles(life.status, life')
  BY <1>4 DEF Appended
<1>6. Ordered(life') /\ Accounted(life') /\ Stands(result', life')
  BY <1>1, <1>2, <1>3, AppendKeeps
<1>7. life'.request # None <=> life'.status = "awaiting_user"
  BY <1>1, <1>2, <1>5 DEF Settles
<1>8. TypeOK'
  BY <1>2, <1>5, <1>7 DEF IInv, TypeOK
<1>9. TerminalIsQuiet' /\ life.status \notin Final
  BY <1>2, <1>5 DEF TerminalIsQuiet, Settles, Final
<1> QED
  BY <1>6, <1>8, <1>9 DEF IInv

\* record_attempt_accepted keeps the invariant.
LEMMA AcceptStep ==
  ASSUME IInv, NEW n \in Node, RecordAttemptAccepted(n)
  PROVE  IInv' /\ life.status \notin Final
<1>1. /\ life \in States /\ (life.request # None <=> life.status = "awaiting_user")
      /\ Ordered(life) /\ Accounted(life) /\ Stands(result, life)
      /\ result = << >> \/ result \in Results
  BY DEF IInv, TypeOK, Results, Generation
<1>2. /\ life.status = "running" /\ life.node[n] = "ready"
      /\ Len(life.attempts[n]) < life.limit[n]
      /\ life' = AttemptAccepted(life, n)
      /\ pausedFor' = pausedFor /\ resumed' = resumed /\ asked' = asked /\ result' = result
  BY DEF RecordAttemptAccepted, KeysUnchanged
<1>3. Accepted(life, life', n)
  BY <1>1, <1>2, AcceptFacts
<1>4. /\ life' \in States /\ life'.request = life.request
      /\ Settles(life.status, life')
  BY <1>3 DEF Accepted
<1>5. /\ Ordered(life') /\ Accounted(life')
      /\ \A r \in Results : Stands(r, life) => Stands(r, life')
  BY <1>1, <1>2, <1>3, AcceptKeeps
<1>6. Stands(result', life')
  <2>1. CASE result = << >>
    BY <1>2, <2>1 DEF Stands
  <2>2. CASE result \in Results
    BY <1>1, <1>2, <1>5, <2>2
  <2> QED
    BY <1>1, <2>1, <2>2
<1>7. life'.request # None <=> life'.status = "awaiting_user"
  BY <1>1, <1>2, <1>4 DEF Settles
<1>8. TypeOK'
  BY <1>2, <1>4, <1>7 DEF IInv, TypeOK
<1>9. TerminalIsQuiet' /\ life.status \notin Final
  BY <1>2, <1>4 DEF TerminalIsQuiet, Settles, Final
<1> QED
  BY <1>5, <1>6, <1>8, <1>9 DEF IInv

\* Each of the three ways to record the end of an attempt keeps the invariant:
\* a node of a Run that has ended has no active attempt to end.
LEMMA EndStep ==
  ASSUME IInv, NEW n \in Node, NEW g \in Generation,
         NEW outcome \in AttemptStatuses \ {"accepted"}, NEW status,
         IsCurrent(life, n, g, status), RecordEnd(n, g, outcome)
  PROVE  IInv' /\ life.status \notin Final
<1>1. /\ life \in States /\ (life.request # None <=> life.status = "awaiting_user")
      /\ Ordered(life) /\ Accounted(life) /\ TerminalIsQuiet
  BY DEF IInv, TypeOK
<1>2. /\ life.node[n] \in Active /\ g = Len(life.attempts[n])
      /\ life' = AttemptEnded(life, n, outcome) /\ result' = <<n, g, outcome>>
      /\ pausedFor' = pausedFor /\ resumed' = resumed /\ asked' = asked
  BY DEF IsCurrent, RecordEnd, KeysUnchanged
<1>3. life.attempts[n] # << >>
  BY <1>1, <1>2 DEF Accounted, AccountedAt, Active
<1>4. Ended(life, life', n, outcome)
  BY <1>1, <1>2, <1>3, EndFacts
<1>5. /\ life' \in States /\ life'.request = life.request
      /\ Settles(life.status, life')
  BY <1>4 DEF Ended
<1>6. Ordered(life') /\ Accounted(life') /\ Stands(result', life')
  BY <1>1, <1>2, <1>4, EndKeeps
<1>7. life.status \notin Final
  BY <1>1, <1>2 DEF TerminalIsQuiet, Idle
<1>8. life'.request # None <=> life'.status = "awaiting_user"
  BY <1>1, <1>5 DEF Settles
<1>9. result' \in Node \X Generation \X AttemptStatuses
  BY <1>2
<1>10. TypeOK'
  BY <1>2, <1>5, <1>8, <1>9 DEF IInv, TypeOK
<1>11. TerminalIsQuiet'
  BY <1>5, <1>7 DEF TerminalIsQuiet, Settles
<1> QED
  BY <1>6, <1>7, <1>10, <1>11 DEF IInv

\* complete_cancellation_if_idle keeps the invariant.
LEMMA CompleteStep ==
  ASSUME IInv, CompleteCancellation
  PROVE  IInv' /\ life.status \notin Final
<1>1. /\ life \in States /\ (life.request # None <=> life.status = "awaiting_user")
      /\ Ordered(life) /\ Accounted(life) /\ Stands(result, life)
  BY DEF IInv, TypeOK
<1>2. /\ life.status = "cancelling" /\ Idle(life)
      /\ life' = RunCancelled(life)
      /\ pausedFor' = pausedFor /\ resumed' = resumed /\ asked' = asked /\ result' = result
  BY DEF CompleteCancellation, MayComplete, KeysUnchanged
<1>3. Cancelled(life, life')
  BY <1>1, <1>2, CancelFacts
<1>4. life' \in States /\ life'.request = life.request /\ life'.status = "cancelled"
  BY <1>3 DEF Cancelled
<1>5. Ordered(life') /\ Accounted(life') /\ Idle(life') /\ Stands(result', life')
  BY <1>1, <1>2, <1>3, CancelKeeps
<1>6. TypeOK'
  BY <1>1, <1>2, <1>4 DEF IInv, TypeOK
<1>7. TerminalIsQuiet' /\ life.status \notin Final
  BY <1>2, <1>5 DEF TerminalIsQuiet, Final
<1> QED
  BY <1>5, <1>6, <1>7 DEF IInv

\* Every step keeps the invariant, and only a Run that has not ended takes one.
LEMMA NextStep == IInv /\ Next => IInv' /\ life.status \notin Final
<1> SUFFICES ASSUME IInv, Next PROVE IInv' /\ life.status \notin Final
  OBVIOUS
<1>1. ASSUME NEW batch \in SUBSET (Node \ Present(life)),
             NEW d \in [batch -> SUBSET (Present(life) \cup batch)],
             NEW m \in [batch -> 1 .. MaxAttempts], AppendNodes(batch, d, m)
      PROVE  IInv' /\ life.status \notin Final
  BY <1>1, AppendStep
<1>2. CASE StartRun \/ ResumeRun \/ RequestCancel
  BY <1>2, RunOperations
<1>3. CASE CompleteCancellation
  BY <1>3, CompleteStep
<1>4. ASSUME NEW reason \in Reason, PauseRun(reason)
      PROVE  IInv' /\ life.status \notin Final
  BY <1>4, RunOperations
<1>5. ASSUME NEW q \in Request, AwaitUser(q) \/ RecordUserResponse(q)
      PROVE  IInv' /\ life.status \notin Final
  BY <1>5, RunOperations
<1>6. ASSUME NEW n \in Node, RecordAttemptAccepted(n)
      PROVE  IInv' /\ life.status \notin Final
  BY <1>6, AcceptStep
<1>7. ASSUME NEW n \in Node, NEW g \in Generation,
             NEW outcome \in {"succeeded", "failed", "outcome_unknown"},
             RecordAttemptCompleted(n, g, outcome)
      PROVE  IInv' /\ life.status \notin Final
  BY <1>7, EndStep DEF RecordAttemptCompleted, AttemptStatuses
<1>8. ASSUME NEW n \in Node, NEW g \in Generation, RecordAttemptReconciled(n, g)
      PROVE  IInv' /\ life.status \notin Final
  BY <1>8, EndStep DEF RecordAttemptReconciled, AttemptStatuses
<1>9. ASSUME NEW n \in Node, NEW g \in Generation, RecordAttemptCancelled(n, g)
      PROVE  IInv' /\ life.status \notin Final
  BY <1>9, EndStep DEF RecordAttemptCancelled, AttemptStatuses
<1> QED
  BY <1>1, <1>2, <1>3, <1>4, <1>5, <1>6, <1>7, <1>8, <1>9 DEF Next

\* Every part of the invariant reads the variables only.
LEMMA Stutter == IInv /\ UNCHANGED vars => IInv'
BY DEF IInv, vars, TypeOK, Ordered, Accounted, AccountedAt, Stands, TerminalIsQuiet,
       Unblocked, LastAttempt, Idle, Final, States, Generation

\* The invariant holds in every reachable state.
THEOREM Invariance == Spec => []IInv
<1>1. IInv /\ [Next]_vars => IInv'
  BY NextStep, Stutter
<1> QED
  BY <1>1, InitIInv, PTL DEF Spec

-----------------------------------------------------------------------------
\* The projection and the seen keys keep their shape.
THEOREM TypeCorrect == Spec => []TypeOK
<1>1. IInv => TypeOK
  BY DEF IInv
<1> QED
  BY <1>1, Invariance, PTL

\* No node starts before its dependencies have succeeded, and none is left
\* waiting once they have, whatever is appended while the Run executes.
THEOREM OrderKept == Spec => []DependenciesFirst
<1>1. IInv => DependenciesFirst
  BY DEF IInv, Ordered, DependenciesFirst, Present
<1> QED
  BY <1>1, Invariance, PTL

\* A node never has two attempts in flight nor more than its limit allows.
THEOREM AttemptsAccounted == Spec => []OneActiveAttempt
<1>1. IInv => OneActiveAttempt
  BY DEF IInv, Accounted, AccountedAt, OneActiveAttempt, Present
<1> QED
  BY <1>1, Invariance, PTL

\* Fencing: a result stands with the attempt of the generation that sent it.
THEOREM ResultsFenced == Spec => []ResultsHitTheirAttempt
<1>1. IInv => ResultsHitTheirAttempt
  BY DEF IInv, Stands, ResultsHitTheirAttempt
<1> QED
  BY <1>1, Invariance, PTL

\* A Run that ended has left no attempt running or unreconciled.
THEOREM QuietAtTheEnd == Spec => []TerminalIsQuiet
<1>1. IInv => TerminalIsQuiet
  BY DEF IInv
<1> QED
  BY <1>1, Invariance, PTL

\* A Run that ended takes no further step: every guard needs a Run or a node
\* that is still open.
THEOREM EndIsForever == Spec => TerminalForever
<1>1. IInv /\ [Next]_vars => [life.status \in Final => life' = life]_vars
  BY NextStep DEF vars
<1> QED
  BY <1>1, Invariance, PTL DEF Spec, TerminalForever

-----------------------------------------------------------------------------
\* What a step may do to the outcomes of attempts.
OutcomesKept(s, t) ==
  \A n \in Node : \A i \in 1 .. Len(s.attempts[n]) :
    \/ s.attempts[n][i] = "accepted" \/ t.attempts[n][i] = s.attempts[n][i]
    \/ s.attempts[n][i] = "outcome_unknown" /\ t.attempts[n][i] = "failed"

\* Ending an attempt changes the outcome of that attempt only, which was in
\* flight or, for a reconciliation, unknown.
LEMMA EndOutcome ==
  ASSUME IInv, NEW n \in Node, NEW g \in Generation,
         NEW outcome \in AttemptStatuses \ {"accepted"}, NEW status,
         IsCurrent(life, n, g, status), RecordEnd(n, g, outcome),
         status = "accepted" \/ (status = "outcome_unknown" /\ outcome = "failed")
  PROVE  OutcomesKept(life, life')
<1> DEFINE tries == life.attempts[n]
<1>1. life \in States /\ Accounted(life)
  BY DEF IInv, TypeOK
<1>2. /\ life.node[n] \in Active /\ tries[Len(tries)] = status
      /\ life' = AttemptEnded(life, n, outcome)
  BY DEF IsCurrent, RecordEnd, LastAttempt
<1>3. tries # << >>
  BY <1>1, <1>2 DEF Accounted, AccountedAt, Active
<1>4. Ended(life, life', n, outcome)
  BY <1>1, <1>2, <1>3, EndFacts
<1>5. /\ life'.attempts[n] = [tries EXCEPT ![Len(tries)] = outcome]
      /\ \A k \in Node \ {n} : life'.attempts[k] = life.attempts[k]
  BY <1>1, <1>4 DEF Ended, States
<1>6. tries \in Seq(AttemptStatuses)
  BY <1>1 DEF States
<1>7. \A i \in 1 .. Len(tries) : i # Len(tries) => life'.attempts[n][i] = tries[i]
  BY <1>5, <1>6, ExceptSeq
<1>8. Len(tries) \in 1 .. Len(tries) => life'.attempts[n][Len(tries)] = outcome
  BY <1>5, <1>6, ExceptSeq
<1>9. ASSUME NEW i \in 1 .. Len(tries)
      PROVE  \/ tries[i] = "accepted" \/ life'.attempts[n][i] = tries[i]
             \/ tries[i] = "outcome_unknown" /\ life'.attempts[n][i] = "failed"
  <2>1. CASE i = Len(tries)
    BY <1>2, <1>8, <2>1
  <2>2. CASE i # Len(tries)
    BY <1>7, <2>2
  <2> QED
    BY <2>1, <2>2
<1> QED
  BY <1>5, <1>9 DEF OutcomesKept

\* The other operations leave every outcome as it is.
LEMMA OutcomeStep == IInv /\ Next => OutcomesKept(life, life')
<1> SUFFICES ASSUME IInv, Next PROVE OutcomesKept(life, life')
  OBVIOUS
<1>1. life \in States
  BY DEF IInv, TypeOK
<1>2. life'.attempts = life.attempts => OutcomesKept(life, life')
  BY DEF OutcomesKept
<1>3. ASSUME NEW batch \in SUBSET (Node \ Present(life)),
             NEW d \in [batch -> SUBSET (Present(life) \cup batch)],
             NEW m \in [batch -> 1 .. MaxAttempts], AppendNodes(batch, d, m)
      PROVE  OutcomesKept(life, life')
  <2>1. batch \in SUBSET Node /\ d \in [batch -> SUBSET Node]
    <3>1. Present(life) \cup batch \subseteq Node
      BY DEF Present
    <3> QED
      BY <3>1
  <2>2. Appended(life, life', batch, d, m)
    BY <1>1, <1>3, <2>1, AppendFacts DEF AppendNodes
  <2> QED
    BY <1>2, <2>2 DEF Appended
<1>4. CASE StartRun \/ ResumeRun
  <2>1. SameButStatus(life, life')
    BY <1>1, <1>4, RunningFacts DEF StartRun, ResumeRun, RunStarted, RunResumed
  <2> QED
    BY <1>2, <2>1 DEF SameButStatus
<1>5. CASE RequestCancel
  BY <1>1, <1>2, <1>5 DEF RequestCancel, RunCancellationRequested, States
<1>6. CASE CompleteCancellation
  <2>1. Cancelled(life, life')
    BY <1>1, <1>6, CancelFacts DEF CompleteCancellation
  <2> QED
    BY <1>2, <2>1 DEF Cancelled
<1>7. ASSUME NEW reason \in Reason, PauseRun(reason) PROVE OutcomesKept(life, life')
  BY <1>1, <1>2, <1>7 DEF PauseRun, RunPaused, States
<1>8. ASSUME NEW q \in Request, AwaitUser(q) PROVE OutcomesKept(life, life')
  BY <1>1, <1>2, <1>8 DEF AwaitUser, RunAwaitingUser, States
<1>9. ASSUME NEW q \in Request, RecordUserResponse(q) PROVE OutcomesKept(life, life')
  <2>1. SameButStatus([life EXCEPT !.request = None], life')
    BY <1>1, <1>9, ResponseFacts DEF RecordUserResponse
  <2>2. life'.attempts = life.attempts
    BY <1>1, <2>1 DEF SameButStatus, States
  <2> QED
    BY <1>2, <2>2
<1>10. ASSUME NEW n \in Node, RecordAttemptAccepted(n) PROVE OutcomesKept(life, life')
  <2> DEFINE tries == life.attempts[n]
  <2>1. Accepted(life, life', n)
    BY <1>1, <1>10, AcceptFacts DEF RecordAttemptAccepted
  <2>2. /\ life'.attempts[n] = Append(tries, "accepted")
        /\ \A k \in Node \ {n} : life'.attempts[k] = life.attempts[k]
    BY <1>1, <2>1 DEF Accepted, States
  <2>3. tries \in Seq(AttemptStatuses)
    BY <1>1 DEF States
  <2>4. \A i \in 1 .. Len(tries) : life'.attempts[n][i] = tries[i]
    BY <2>2, <2>3
  <2> QED
    BY <2>2, <2>4 DEF OutcomesKept
<1>11. ASSUME NEW n \in Node, NEW g \in Generation,
              NEW outcome \in {"succeeded", "failed", "outcome_unknown"},
              RecordAttemptCompleted(n, g, outcome)
       PROVE  OutcomesKept(life, life')
  BY <1>11, EndOutcome DEF RecordAttemptCompleted, AttemptStatuses
<1>12. ASSUME NEW n \in Node, NEW g \in Generation, RecordAttemptReconciled(n, g)
       PROVE  OutcomesKept(life, life')
  BY <1>12, EndOutcome DEF RecordAttemptReconciled, AttemptStatuses
<1>13. ASSUME NEW n \in Node, NEW g \in Generation, RecordAttemptCancelled(n, g)
       PROVE  OutcomesKept(life, life')
  BY <1>13, EndOutcome DEF RecordAttemptCancelled, AttemptStatuses
<1> QED
  BY <1>3, <1>4, <1>5, <1>6, <1>7, <1>8, <1>9, <1>10, <1>11, <1>12, <1>13 DEF Next

\* No late answer overwrites the outcome of an attempt: only an unknown one
\* may still turn, and only into a failure.
THEOREM OutcomesStand == Spec => OutcomesAreFinal
<1>1. IInv /\ [Next]_vars =>
        [\A n \in Node : \A i \in 1 .. Len(life.attempts[n]) :
           LET before == life.attempts[n][i]
               after == life'.attempts[n][i]
           IN \/ before = "accepted" \/ after = before
              \/ before = "outcome_unknown" /\ after = "failed"]_vars
  BY OutcomeStep DEF OutcomesKept
<1> QED
  BY <1>1, Invariance, PTL DEF Spec, OutcomesAreFinal

-----------------------------------------------------------------------------
\* The graph of s is closed under dependencies and can be ranked, which is
\* what validate_graph_append leaves behind.
Rooted(s) ==
  /\ \A n \in Present(s) : s.deps[n] \subseteq Present(s)
  /\ Ranked(Present(s), s.deps)

\* A Run that has started has a node, and only a cancelled Run or one being
\* cancelled has a cancelled node.
Peopled(s) ==
  /\ s.status \in {"running", "paused", "awaiting_user"} => Present(s) # {}
  /\ s.status \notin {"cancelling", "cancelled"} => \A n \in Node : s.node[n] # "cancelled"

\* A graph without live, failed or cancelled nodes has succeeded: among the
\* nodes still blocked one of least rank would have nothing to wait for.
LEMMA NothingBlocked ==
  ASSUME NEW s \in States, Ordered(s), Rooted(s),
         \A n \in Node : s.node[n] \notin Live \cup {"failed", "cancelled"}
  PROVE  \A n \in Present(s) : s.node[n] = "succeeded"
<1> DEFINE waiting == {n \in Node : s.node[n] = "blocked"}
<1>1. \A n \in Present(s) : s.node[n] = "succeeded" \/ n \in waiting
  BY DEF Present, States, NodeStatuses, Live, Active
<1>2. PICK rank \in [Present(s) -> 0 .. MaxDepth] :
        \A n \in Present(s) : \A p \in s.deps[n] : rank[p] < rank[n]
  BY DEF Rooted, Ranked
<1>3. waiting \subseteq Present(s)
  BY DEF Present
<1>4. SUFFICES ASSUME waiting # {} PROVE FALSE
  BY <1>1
<1> DEFINE ranks == {rank[n] : n \in waiting}
<1>5. ranks \subseteq Nat /\ ranks # {}
  BY <1>2, <1>3, <1>4, BoundAssumption
<1> HIDE DEF ranks
<1>6. PICK least \in ranks : \A y \in ranks : <<y, least>> \notin OpToRel(<, Nat)
  BY <1>5, WFMin, NatLessThanWellFounded, Zenon
<1>7. \A y \in ranks : ~(y < least)
  BY <1>5, <1>6 DEF OpToRel
<1>8. PICK n \in waiting : rank[n] = least
  BY DEF ranks
<1>9. PICK p \in s.deps[n] : s.node[p] # "succeeded"
  BY DEF Ordered, Unblocked
<1>10. p \in waiting
  BY <1>1, <1>3, <1>9 DEF Rooted
<1>11. rank[p] \in ranks /\ rank[p] < least
  BY <1>2, <1>3, <1>8, <1>10 DEF ranks
<1> QED
  BY <1>7, <1>11

\* The invariant behind RunningHasWork.
WInv == IInv /\ Rooted(life) /\ Peopled(life) /\ Unfinished(life)

LEMMA InitWInv == Init => WInv
<1> SUFFICES ASSUME Init PROVE WInv
  OBVIOUS
<1>1. \A n \in Node : life.node[n] = "absent"
  BY DEF Init, Initialized
<1>2. Present(life) = {} /\ life.status = "created"
  BY <1>1 DEF Init, Initialized, Present
<1>3. Ranked({}, life.deps)
  <2>1. [n \in {} |-> 0] \in [{} -> 0 .. MaxDepth]
    OBVIOUS
  <2> QED
    BY <2>1 DEF Ranked
<1>4. Rooted(life)
  BY <1>2, <1>3 DEF Rooted
<1> QED
  BY <1>1, <1>2, <1>4, InitIInv DEF WInv, Peopled, Unfinished

\* Whatever keeps the nodes that exist and their dependencies keeps the graph.
LEMMA SameGraph ==
  ASSUME NEW s, NEW t, Present(t) = Present(s), t.deps = s.deps, Rooted(s)
  PROVE  Rooted(t)
BY DEF Rooted

\* An accepted append leaves a graph that validate_graph_append admitted.
LEMMA AppendWork ==
  ASSUME WInv, NEW batch \in SUBSET (Node \ Present(life)),
         NEW d \in [batch -> SUBSET (Present(life) \cup batch)],
         NEW m \in [batch -> 1 .. MaxAttempts],
         AppendNodes(batch, d, m)
  PROVE  Rooted(life') /\ Peopled(life') /\ Unfinished(life')
<1>1. life \in States /\ Rooted(life) /\ Peopled(life)
  BY DEF WInv, IInv, TypeOK
<1>2. batch \in SUBSET Node /\ d \in [batch -> SUBSET Node]
  <2>1. Present(life) \cup batch \subseteq Node
    BY DEF Present
  <2> QED
    BY <2>1
<1>3. Appended(life, life', batch, d, m)
  BY <1>1, <1>2, AppendFacts DEF AppendNodes
<1>4. /\ batch # {} /\ life.status \in {"created", "running"}
      /\ Ranked(Present(life) \cup batch, ExtendedDeps(life, batch, d))
  BY DEF AppendNodes, ValidAppend
<1>5. /\ life'.deps = ExtendedDeps(life, batch, d)
      /\ \A n \in Node \ batch : life'.node[n] = life.node[n]
      /\ \A n \in batch : life'.node[n] \in {"ready", "blocked"}
      /\ Settles(life.status, life')
  BY <1>3 DEF Appended
<1>6. Present(life') = Present(life) \cup batch
  BY <1>5 DEF Present
<1>7. \A n \in Node : life'.deps[n] = IF n \in batch THEN d[n] ELSE life.deps[n]
  BY <1>5 DEF ExtendedDeps
<1>8. \A n \in Present(life') : life'.deps[n] \subseteq Present(life')
  <2> SUFFICES ASSUME NEW n \in Present(life') PROVE life'.deps[n] \subseteq Present(life')
    OBVIOUS
  <2>1. n \in Node
    BY DEF Present
  <2>2. CASE n \in batch
    BY <1>6, <1>7, <2>1, <2>2
  <2>3. CASE n \notin batch
    BY <1>1, <1>6, <1>7, <2>1, <2>3 DEF Rooted
  <2> QED
    BY <2>2, <2>3
<1>9. Rooted(life')
  BY <1>4, <1>5, <1>6, <1>8 DEF Rooted
<1>10. Peopled(life')
  BY <1>1, <1>4, <1>5, <1>6 DEF Peopled
<1>11. Unfinished(life')
  BY <1>4, <1>5, <1>6 DEF Settles
<1> QED
  BY <1>9, <1>10, <1>11

\* So do the operations on attempts: no node appears or vanishes, and only a
\* Run being cancelled takes a stop receipt.
LEMMA AcceptWork ==
  ASSUME WInv, NEW n \in Node, RecordAttemptAccepted(n)
  PROVE  Rooted(life') /\ Peopled(life') /\ Unfinished(life')
<1>1. /\ life \in States /\ Rooted(life) /\ Peopled(life)
      /\ life.status = "running" /\ life.node[n] = "ready"
  BY DEF WInv, IInv, TypeOK, RecordAttemptAccepted
<1>2. Accepted(life, life', n)
  BY <1>1, AcceptFacts DEF RecordAttemptAccepted
<1>3. /\ life'.deps = life.deps /\ Settles(life.status, life')
      /\ life'.node[n] = "running"
      /\ \A k \in Node \ {n} : life'.node[k] = life.node[k]
  BY <1>1, <1>2 DEF Accepted, States
<1>4. Present(life') = Present(life) /\ Present(life) # {}
  BY <1>1, <1>3 DEF Present
<1>5. Peopled(life')
  BY <1>1, <1>3, <1>4 DEF Peopled
<1> QED
  BY <1>1, <1>3, <1>4, <1>5, SameGraph DEF Settles

LEMMA EndWork ==
  ASSUME WInv, NEW n \in Node, NEW g \in Generation,
         NEW outcome \in AttemptStatuses \ {"accepted"}, NEW status,
         IsCurrent(life, n, g, status), RecordEnd(n, g, outcome),
         outcome = "cancelled" => life.status = "cancelling"
  PROVE  Rooted(life') /\ Peopled(life') /\ Unfinished(life')
<1>1. /\ life \in States /\ Rooted(life) /\ Peopled(life) /\ Accounted(life)
      /\ life.node[n] \in Active /\ life' = AttemptEnded(life, n, outcome)
  BY DEF WInv, IInv, TypeOK, IsCurrent, RecordEnd
<1>2. life.attempts[n] # << >>
  BY <1>1 DEF Accounted, AccountedAt, Active
<1>3. Ended(life, life', n, outcome)
  BY <1>1, <1>2, EndFacts
<1>4. /\ life'.deps = life.deps /\ Settles(life.status, life')
      /\ life'.node[n] = NodeAfter(life, n, outcome)
      /\ \A k \in Node \ {n} : life'.node[k] = IF Freed(life, n, outcome, k) THEN "ready"
                                               ELSE life.node[k]
  BY <1>3 DEF Ended
<1>5. life'.node[n] # "absent" /\ (life'.node[n] = "cancelled" => outcome = "cancelled")
  <2>1. outcome \in {"succeeded", "failed", "outcome_unknown", "cancelled"}
    BY DEF AttemptStatuses
  <2> QED
    BY <1>4, <2>1 DEF NodeAfter
<1>6. Present(life') = Present(life) /\ Present(life) # {}
  BY <1>1, <1>4, <1>5 DEF Present, Freed, Active
<1>7. Peopled(life')
  <2>1. ASSUME life'.status \notin {"cancelling", "cancelled"}, NEW k \in Node
        PROVE  life'.node[k] # "cancelled"
    <3>1. life.status \notin {"cancelling", "cancelled"}
      BY <1>4, <2>1 DEF Settles
    <3>2. life.node[k] # "cancelled"
      BY <1>1, <3>1 DEF Peopled
    <3>3. CASE k = n
      BY <1>5, <3>1, <3>3
    <3>4. CASE k # n
      BY <1>4, <3>2, <3>4
    <3> QED
      BY <3>3, <3>4
  <2> QED
    BY <1>6, <2>1 DEF Peopled
<1> QED
  BY <1>1, <1>4, <1>6, <1>7, SameGraph DEF Settles

\* An operation that leaves the nodes alone and gives a Run with nodes, which
\* is not being cancelled, a status under which something is left to do.
LEMMA StatusWork ==
  ASSUME WInv, life'.node = life.node, life'.deps = life.deps,
         Present(life) # {}, life.status \notin {"cancelling", "cancelled"},
         Present(life') # {} => Unfinished(life')
  PROVE  Rooted(life') /\ Peopled(life') /\ Unfinished(life')
<1>1. Present(life') = Present(life)
  BY DEF Present
<1>2. Rooted(life')
  BY <1>1, SameGraph DEF WInv
<1> QED
  BY <1>1, <1>2 DEF WInv, Peopled

\* The operations on the Run as a whole: a Run starts with a node at least, and
\* one that is taken up again has them still.
LEMMA RunWork ==
  ASSUME WInv
  PROVE  /\ StartRun \/ ResumeRun \/ RequestCancel \/ CompleteCancellation
              => Rooted(life') /\ Peopled(life') /\ Unfinished(life')
         /\ \A reason \in Reason : PauseRun(reason)
              => Rooted(life') /\ Peopled(life') /\ Unfinished(life')
         /\ \A q \in Request : AwaitUser(q) \/ RecordUserResponse(q)
              => Rooted(life') /\ Peopled(life') /\ Unfinished(life')
<1>1. life \in States /\ Rooted(life) /\ Peopled(life)
  BY DEF WInv, IInv, TypeOK
<1>2. CASE StartRun \/ ResumeRun
  <2>1. /\ life' = Concluded([life EXCEPT !.status = "running"])
        /\ Present(life) # {} /\ life.status \in {"created", "paused"}
    BY <1>1, <1>2 DEF StartRun, ResumeRun, RunStarted, RunResumed, Peopled
  <2>2. SameButStatus(life, life') /\ Settles("running", life')
    BY <1>1, <2>1, RunningFacts
  <2> QED
    BY <2>1, <2>2, StatusWork DEF SameButStatus, Settles
<1>3. CASE RequestCancel
  <2>1. /\ life' = [life EXCEPT !.status = "cancelling", !.request = None]
    BY <1>3 DEF RequestCancel, RunCancellationRequested
  <2>2. life'.status = "cancelling" /\ life'.node = life.node /\ life'.deps = life.deps
    BY <1>1, <2>1 DEF States
  <2>3. Present(life') = Present(life)
    BY <2>2 DEF Present
  <2> QED
    BY <1>1, <2>2, <2>3, SameGraph DEF Peopled, Unfinished
<1>4. CASE CompleteCancellation
  <2>1. Cancelled(life, life')
    BY <1>1, <1>4, CancelFacts DEF CompleteCancellation
  <2>2. /\ life'.status = "cancelled" /\ life'.deps = life.deps
        /\ \A n \in Node : life'.node[n] = IF life.node[n] \in {"blocked", "ready"}
                                           THEN "cancelled" ELSE life.node[n]
    BY <2>1 DEF Cancelled
  <2>3. Present(life') = Present(life)
    BY <2>2 DEF Present
  <2> QED
    BY <1>1, <2>2, <2>3, SameGraph DEF Peopled, Unfinished
<1>5. ASSUME NEW reason \in Reason, PauseRun(reason)
      PROVE  Rooted(life') /\ Peopled(life') /\ Unfinished(life')
  <2>1. life' = [life EXCEPT !.status = "paused"] /\ life.status = "running"
    BY <1>5 DEF PauseRun, RunPaused
  <2>2. life'.status = "paused" /\ life'.node = life.node /\ life'.deps = life.deps
    BY <1>1, <2>1 DEF States
  <2> QED
    BY <1>1, <2>1, <2>2, StatusWork DEF Peopled, Unfinished
<1>6. ASSUME NEW q \in Request, AwaitUser(q)
      PROVE  Rooted(life') /\ Peopled(life') /\ Unfinished(life')
  <2>1. /\ life' = [life EXCEPT !.status = "awaiting_user", !.request = q]
        /\ life.status = "running"
    BY <1>6 DEF AwaitUser, RunAwaitingUser
  <2>2. /\ life'.status = "awaiting_user" /\ life'.node = life.node
        /\ life'.deps = life.deps
    BY <1>1, <2>1 DEF States
  <2> QED
    BY <1>1, <2>1, <2>2, StatusWork DEF Peopled, Unfinished
<1>7. ASSUME NEW q \in Request, RecordUserResponse(q)
      PROVE  Rooted(life') /\ Peopled(life') /\ Unfinished(life')
  <2>1. life' = RunUserResponseReceived(life) /\ life.status = "awaiting_user"
    BY <1>7 DEF RecordUserResponse
  <2>2. SameButStatus([life EXCEPT !.request = None], life') /\ Settles("running", life')
    BY <1>1, <2>1, ResponseFacts
  <2>3. life'.node = life.node /\ life'.deps = life.deps
    BY <1>1, <2>2 DEF SameButStatus, States
  <2> QED
    BY <1>1, <2>1, <2>2, <2>3, StatusWork DEF Peopled, Settles
<1> QED
  BY <1>2, <1>3, <1>4, <1>5, <1>6, <1>7

\* Every step keeps the invariant.
LEMMA NextWork == WInv /\ [Next]_vars => WInv'
<1> SUFFICES ASSUME WInv, [Next]_vars PROVE WInv'
  OBVIOUS
<1>1. IInv'
  BY NextStep, Stutter DEF WInv
<1> SUFFICES Rooted(life') /\ Peopled(life') /\ Unfinished(life')
  BY <1>1 DEF WInv
<1>2. ASSUME NEW batch \in SUBSET (Node \ Present(life)),
             NEW d \in [batch -> SUBSET (Present(life) \cup batch)],
             NEW m \in [batch -> 1 .. MaxAttempts], AppendNodes(batch, d, m)
      PROVE  Rooted(life') /\ Peopled(life') /\ Unfinished(life')
  BY <1>2, AppendWork
<1>3. CASE StartRun \/ ResumeRun \/ RequestCancel \/ CompleteCancellation
  BY <1>3, RunWork
<1>4. ASSUME NEW reason \in Reason, PauseRun(reason)
      PROVE  Rooted(life') /\ Peopled(life') /\ Unfinished(life')
  BY <1>4, RunWork
<1>5. ASSUME NEW q \in Request, AwaitUser(q) \/ RecordUserResponse(q)
      PROVE  Rooted(life') /\ Peopled(life') /\ Unfinished(life')
  BY <1>5, RunWork
<1>6. ASSUME NEW n \in Node, RecordAttemptAccepted(n)
      PROVE  Rooted(life') /\ Peopled(life') /\ Unfinished(life')
  BY <1>6, AcceptWork
<1>7. ASSUME NEW n \in Node, NEW g \in Generation,
             NEW outcome \in {"succeeded", "failed", "outcome_unknown"},
             RecordAttemptCompleted(n, g, outcome)
      PROVE  Rooted(life') /\ Peopled(life') /\ Unfinished(life')
  BY <1>7, EndWork DEF RecordAttemptCompleted, AttemptStatuses
<1>8. ASSUME NEW n \in Node, NEW g \in Generation, RecordAttemptReconciled(n, g)
      PROVE  Rooted(life') /\ Peopled(life') /\ Unfinished(life')
  BY <1>8, EndWork DEF RecordAttemptReconciled, AttemptStatuses
<1>9. ASSUME NEW n \in Node, NEW g \in Generation, RecordAttemptCancelled(n, g)
      PROVE  Rooted(life') /\ Peopled(life') /\ Unfinished(life')
  BY <1>9, EndWork DEF RecordAttemptCancelled, AttemptStatuses
<1>10. CASE UNCHANGED vars
  BY <1>10 DEF vars, WInv
<1>11. Next \/ UNCHANGED vars
  OBVIOUS
<1> QED
  BY <1>2, <1>3, <1>4, <1>5, <1>6, <1>7, <1>8, <1>9, <1>10, <1>11 DEF Next

\* A running Run always has a node to start, to wait for or to reconcile.
LEMMA WorkInSight == WInv => RunningHasWork
<1> SUFFICES ASSUME WInv, life.status = "running", \A n \in Node : life.node[n] \notin Live
             PROVE  FALSE
  BY DEF RunningHasWork
<1>1. life \in States /\ Ordered(life) /\ Rooted(life)
  BY DEF WInv, IInv, TypeOK
<1>2. \A n \in Node : life.node[n] # "cancelled"
  BY DEF WInv, Peopled
<1>3. /\ \E n \in Node : life.node[n] \notin {"absent", "succeeded"}
      /\ \A n \in Node : life.node[n] # "failed"
  BY DEF WInv, Unfinished
<1>4. \A n \in Present(life) : life.node[n] = "succeeded"
  BY <1>1, <1>2, <1>3, NothingBlocked
<1> QED
  BY <1>3, <1>4 DEF Present

\* No Run stays running with nothing to do: the trailing check of the reducer
\* ends it, and a graph that admits a ranking cannot block on itself.
THEOREM WorkRemains == Spec => []RunningHasWork
BY InitWInv, NextWork, WorkInSight, PTL DEF Spec
=============================================================================
