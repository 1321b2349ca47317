------------------------- MODULE ProviderCallsProofs -------------------------
(***************************************************************************)
(* Proofs about provider calls for every number of calls, attempts, tasks  *)
(* and reconcilers: the variables keep their shape, and a call is handed   *)
(* to a sender at most once (DispatchInv); what the journal says is true,  *)
(* a settlement charges what was proved, no request outlives its attempt   *)
(* and the startup audit passes (CallInv).  The steps are first reduced to *)
(* what they may do to each variable (Effects); every part of CallInv is   *)
(* then shown to survive whatever has these effects.                       *)
(***************************************************************************)
EXTENDS ProviderCalls, SequenceTheorems, TLAPS

\* A task or host call that has left its first stage knows its call, and what
\* it took along.
StagesFilled ==
  /\ \A i \in Invoker :
       /\ gateway[i].stage # "idle" => gateway[i].call \in Call
       /\ gateway[i].stage = "answered" => gateway[i].outcome \in Outcomes
  /\ \A r \in Reconciler :
       /\ recon[r].stage # "idle" => recon[r].call \in Call
       /\ recon[r].stage \in {"verified", "persisted", "settled"} => recon[r].proof \in Proofs

TypeInv == TypeOK /\ StagesFilled

\* The stages keep what they need when a task or a host call takes a step.
GatewayTyped ==
  /\ gateway \in [Invoker -> Invocations]
  /\ \A i \in Invoker :
       /\ gateway[i].stage # "idle" => gateway[i].call \in Call
       /\ gateway[i].stage = "answered" => gateway[i].outcome \in Outcomes

ReconTyped ==
  /\ recon \in [Reconciler -> Reconciliations]
  /\ \A r \in Reconciler :
       /\ recon[r].stage # "idle" => recon[r].call \in Call
       /\ recon[r].stage \in {"verified", "persisted", "settled"} => recon[r].proof \in Proofs

Rest ==
  /\ stream \in [Call -> Seq(Events)]
  /\ attempt \in [Attempt -> Attempts]
  /\ wire \in [Call -> Wires]
  /\ sent \in [Call -> Nat]
  /\ said \in [Invoker -> {<<>>} \cup (Call \X Outcomes)]

\* The type invariant, split for the steps.
LEMMA TypeParts == TypeInv <=> GatewayTyped /\ ReconTyped /\ Rest
BY DEF TypeInv, TypeOK, StagesFilled, GatewayTyped, ReconTyped, Rest

\* A task that moves to a stage with its call and an outcome keeps the shape.
LEMMA GatewayMoves ==
  ASSUME GatewayTyped, NEW i \in Invoker, NEW c \in Call, NEW o \in Outcomes \cup {None},
         NEW s \in {"credential", "claimed", "ready", "waiting", "answered"},
         s = "answered" => o \in Outcomes,
         At(i, s, c, o)
  PROVE  GatewayTyped'
<1>1. [stage |-> s, call |-> c, outcome |-> o] \in Invocations
  BY DEF Invocations
<1> QED
  BY <1>1 DEF GatewayTyped, At

\* So does one that returns.
LEMMA GatewayReturns ==
  ASSUME GatewayTyped, NEW i \in Invoker, gateway' = [gateway EXCEPT ![i] = Idle]
  PROVE  GatewayTyped'
<1>1. Idle \in Invocations /\ Idle.stage = "idle"
  BY DEF Invocations, Idle
<1> QED
  BY <1>1 DEF GatewayTyped

\* The same of a host call of reconcile.
LEMMA ReconMoves ==
  ASSUME ReconTyped, NEW r \in Reconciler, NEW c \in Call, NEW p \in Proofs \cup {None},
         NEW s \in {"checked", "verified", "persisted", "settled"},
         s # "checked" => p \in Proofs,
         To(r, s, c, p)
  PROVE  ReconTyped'
<1>1. [stage |-> s, call |-> c, proof |-> p] \in Reconciliations
  BY DEF Reconciliations
<1> QED
  BY <1>1 DEF ReconTyped, To

\* A host call that returns.
LEMMA ReconReturns ==
  ASSUME ReconTyped, NEW r \in Reconciler, recon' = [recon EXCEPT ![r] = Resting]
  PROVE  ReconTyped'
<1>1. Resting \in Reconciliations /\ Resting.stage = "idle"
  BY DEF Reconciliations, Resting
<1> QED
  BY <1>1 DEF ReconTyped

\* An append of an event keeps the streams' shape and starts no stream anew.
LEMMA Appended ==
  ASSUME stream \in [Call -> Seq(Events)], NEW c \in Call, NEW e \in Events, AppendTo(c, e)
  PROVE  /\ stream' \in [Call -> Seq(Events)]
         /\ stream'[c] # <<>>
         /\ \A d \in Call \ {c} : stream'[d] = stream[d]
<1>1. stream[c] \in Seq(Events)
  OBVIOUS
<1>2. Append(stream[c], e) \in Seq(Events) /\ Append(stream[c], e) # <<>>
  BY <1>1
<1> QED
  BY <1>2 DEF AppendTo

\* A pending call has a proof.
LEMMA PendingProof ==
  ASSUME NEW c \in Call, Pending(c)
  PROVE  ProofOf(c) \in Proofs
<1>1. OutcomesOf(c) # {} => (CHOOSE o \in OutcomesOf(c) : TRUE) \in Outcomes
  BY DEF OutcomesOf
<1>2. ProofsOf(c) # {}
  BY <1>1 DEF Pending, Status, Outcomes
<1> QED
  BY <1>2 DEF ProofOf, ProofsOf

\* A proof gives figures that settle an attempt.
LEMMA ReconciledType ==
  ASSUME NEW e \in Attempts, NEW f \in Figures
  PROVE  Reconciled(e, f) \in Attempts
BY DEF Reconciled, Attempts

\* The figures a proof turns into.
LEMMA FiguresType ==
  ASSUME NEW c \in Call, NEW p \in Proofs
  PROVE  FiguresOf(c, p) \in Figures
BY DEF FiguresOf, Figures, Proofs

\* The events the module appends.
LEMMA EventsType ==
  /\ <<"intent">> \in Events /\ <<"settlement">> \in Events
  /\ \A o \in Outcomes : <<"outcome", o>> \in Events
  /\ \A p \in Proofs : <<"reconciliation", p>> \in Events
BY DEF Events

-----------------------------------------------------------------------------
\* The gateway, the provider and the network keep the shape.
LEMMA GatewayStepTyped ==
  ASSUME TypeInv, NEW i \in Invoker, Gateway(i)
  PROVE  TypeInv'
<1>1. GatewayTyped /\ ReconTyped /\ Rest
  BY TypeParts
<1>2. ReconTyped' /\ attempt' = attempt
  BY <1>1 DEF Gateway, Invoke, RecordIntent, ReadBack, Transmit, TransportRefuses, Answered,
              RecordOutcome, GatewayCrashes, ReconTyped
<1>3. (TypeInv <=> GatewayTyped /\ ReconTyped /\ Rest)'
  BY TypeParts, PTL
<1> SUFFICES GatewayTyped' /\ Rest'
  BY <1>2, <1>3
<1>4. ASSUME NEW c \in Call, Invoke(i, c)  PROVE GatewayTyped' /\ Rest'
  <2>1. At(i, "credential", c, None) /\ UNCHANGED <<stream, attempt, wire, sent, said>>
    BY <1>4 DEF Invoke
  <2>2. GatewayTyped'
    BY <1>1, <2>1, GatewayMoves
  <2> QED
    BY <1>1, <2>1, <2>2 DEF Rest
<1>5. CASE RecordIntent(i)
  <2>1. gateway[i].call \in Call
    BY <1>1, <1>5 DEF RecordIntent, GatewayTyped
  <2>2. GatewayTyped'
    BY <1>1, <1>5, <2>1, GatewayMoves, GatewayReturns DEF RecordIntent
  <2>3. stream' \in [Call -> Seq(Events)]
    BY <1>1, <1>5, <2>1, Appended, EventsType DEF RecordIntent, Rest
  <2>4. UNCHANGED <<attempt, wire, sent, said>>
    BY <1>5 DEF RecordIntent
  <2> QED
    BY <1>1, <2>2, <2>3, <2>4 DEF Rest
<1>6. CASE ReadBack(i) \/ TransportRefuses(i) \/ Answered(i)
  <2>1. gateway[i].call \in Call
    BY <1>1, <1>6 DEF ReadBack, TransportRefuses, Answered, GatewayTyped
  <2>2. \/ At(i, "ready", gateway[i].call, None)
        \/ \E o \in Outcomes : At(i, "answered", gateway[i].call, o)
    BY <1>6 DEF ReadBack, TransportRefuses, Answered, Answers, Outcomes
  <2>3. GatewayTyped'
    BY <1>1, <2>1, <2>2, GatewayMoves
  <2>4. UNCHANGED <<stream, attempt, wire, sent, said>>
    BY <1>6 DEF ReadBack, TransportRefuses, Answered
  <2> QED
    BY <1>1, <2>3, <2>4 DEF Rest
<1>7. CASE Transmit(i)
  <2>1. gateway[i].call \in Call
    BY <1>1, <1>7 DEF Transmit, GatewayTyped
  <2>2. GatewayTyped'
    BY <1>1, <1>7, <2>1, GatewayMoves DEF Transmit
  <2>3. [wire[gateway[i].call] EXCEPT !.state = "sending"] \in Wires
    BY ZenonT(60), <1>1, <2>1 DEF Rest, Wires
  <2>4. sent' \in [Call -> Nat] /\ wire' \in [Call -> Wires]
    BY <1>1, <1>7, <2>1, <2>3 DEF Transmit, Rest
  <2>5. UNCHANGED <<stream, attempt, said>>
    BY <1>7 DEF Transmit
  <2> QED
    BY <1>1, <2>2, <2>4, <2>5 DEF Rest
<1>8. CASE RecordOutcome(i)
  <2> DEFINE c == gateway[i].call  o == gateway[i].outcome
  <2>1. c \in Call /\ o \in Outcomes
    BY <1>1, <1>8 DEF RecordOutcome, GatewayTyped
  <2>2. GatewayTyped'
    BY <1>1, <1>8, GatewayReturns DEF RecordOutcome
  <2>3. stream' \in [Call -> Seq(Events)]
    BY <1>1, <1>8, <2>1, Appended, EventsType DEF RecordOutcome, Rest
  <2>4. PICK recorded \in {FALSE, Recordable(c)} : said' = [said EXCEPT ![i] = <<c, Told(recorded, o)>>]
    BY <1>8 DEF RecordOutcome
  <2>5. Told(recorded, o) \in Outcomes
    BY <2>1 DEF Told, Outcomes
  <2>6. said' \in [Invoker -> {<<>>} \cup (Call \X Outcomes)]
    BY <1>1, <2>1, <2>4, <2>5 DEF Rest
  <2>7. UNCHANGED <<attempt, wire, sent>>
    BY <1>8 DEF RecordOutcome
  <2> QED
    BY <1>1, <2>2, <2>3, <2>6, <2>7 DEF Rest
<1>9. CASE GatewayCrashes(i)
  <2>1. GatewayTyped'
    BY <1>1, <1>9, GatewayReturns DEF GatewayCrashes
  <2> QED
    BY <1>1, <1>9, <2>1 DEF GatewayCrashes, Rest
<1> QED
  BY <1>4, <1>5, <1>6, <1>7, <1>8, <1>9 DEF Gateway

\* The provider and the network keep the types.
LEMMA NetworkStepTyped ==
  ASSUME TypeInv, NEW c \in Call, Receive(c) \/ SenderEnds(c) \/ Lose(c)
  PROVE  TypeInv'
<1>1. GatewayTyped /\ ReconTyped /\ Rest
  BY TypeParts
<1>2. wire' \in [Call -> Wires]
  <2>1. \A u \in Usage : [state |-> "arrived", usage |-> u] \in Wires
    BY DEF Wires
  <2>2. /\ [wire[c] EXCEPT !.state = "received"] \in Wires
        /\ [wire[c] EXCEPT !.state = "lost"] \in Wires
    BY <1>1 DEF Rest, Wires
  <2>3. wire \in [Call -> Wires]
    BY <1>1 DEF Rest
  <2> QED
    BY <2>1, <2>2, <2>3 DEF Receive, SenderEnds, Lose
<1>3. UNCHANGED <<stream, attempt, sent, gateway, said, recon>>
  BY DEF Receive, SenderEnds, Lose
<1>4. (TypeInv <=> GatewayTyped /\ ReconTyped /\ Rest)'
  BY TypeParts, PTL
<1> QED
  BY <1>1, <1>2, <1>3, <1>4 DEF GatewayTyped, ReconTyped, Rest

\* The scheduler keeps the shape.
LEMMA SchedulerStepTyped ==
  ASSUME TypeInv, NEW a \in Attempt, Scheduler(a)
  PROVE  TypeInv'
<1>1. GatewayTyped /\ ReconTyped /\ Rest
  BY TypeParts
<1>2. attempt' \in [Attempt -> Attempts]
  <2>1. attempt \in [Attempt -> Attempts]
    BY <1>1 DEF Rest
  <2>2. CASE MarkUnknown(a) \/ \E status \in {"succeeded", "failed"} : Release(a, status)
    <3>1. attempt[a].status = "accepted" /\ attempt[a].figures = None
      BY <2>1, <2>2 DEF MarkUnknown, Release, Attempts
    <3>2. \A s \in {"outcome_unknown", "succeeded", "failed"} : [attempt[a] EXCEPT !.status = s] \in Attempts
      BY <2>1, <3>1 DEF Attempts
    <3> QED
      BY <2>1, <2>2, <3>2 DEF MarkUnknown, Release
  <2>3. ASSUME NEW u \in Usage \cup {None}, NEW t \in Time, HostReconciles(a, u, t)
        PROVE  attempt' \in [Attempt -> Attempts]
    <3>1. [call |-> None, usage |-> u, at |-> t] \in Figures
      BY DEF Figures
    <3>2. Reconciled(attempt[a], [call |-> None, usage |-> u, at |-> t]) \in Attempts
      BY <2>1, <3>1, ReconciledType
    <3> QED
      BY <2>1, <2>3, <3>2 DEF HostReconciles
  <2> QED
    BY <2>2, <2>3 DEF Scheduler
<1>3. UNCHANGED <<stream, wire, sent, gateway, said, recon>>
  BY DEF Scheduler, MarkUnknown, Release, HostReconciles
<1>4. (TypeInv <=> GatewayTyped /\ ReconTyped /\ Rest)'
  BY TypeParts, PTL
<1> QED
  BY <1>1, <1>2, <1>3, <1>4 DEF GatewayTyped, ReconTyped, Rest

\* Reconciliation keeps the shape.
LEMMA ReconcilingStepTyped ==
  ASSUME TypeInv, NEW r \in Reconciler, Reconciling(r)
  PROVE  TypeInv'
<1>1. GatewayTyped /\ ReconTyped /\ Rest
  BY TypeParts
<1>2. GatewayTyped' /\ UNCHANGED <<wire, sent, said>>
  BY <1>1 DEF Reconciling, ReadCall, Replay, Verify, Persist, SettleAttempt, Mark,
              ReconcilerStops, GatewayTyped
<1>3. (TypeInv <=> GatewayTyped /\ ReconTyped /\ Rest)'
  BY TypeParts, PTL
<1> SUFFICES /\ ReconTyped'
             /\ stream' \in [Call -> Seq(Events)]
             /\ attempt' \in [Attempt -> Attempts]
  BY <1>1, <1>2, <1>3 DEF Rest
<1>4. stream \in [Call -> Seq(Events)] /\ attempt \in [Attempt -> Attempts]
  BY <1>1 DEF Rest
<1>5. ASSUME NEW c \in Call, ReadCall(r, c) \/ Replay(r, c)
      PROVE  ReconTyped' /\ UNCHANGED <<stream, attempt>>
  <2>1. Pending(c) => ProofOf(c) \in Proofs
    BY PendingProof
  <2> QED
    BY <1>1, <1>5, <2>1, ReconMoves DEF ReadCall, Replay
<1>6. CASE Verify(r)
  <2>1. recon[r].call \in Call
    BY <1>1, <1>6 DEF Verify, ReconTyped
  <2>2. PICK p \in Proofs : To(r, "verified", recon[r].call, p)
    BY <1>6 DEF Verify, Evidence
  <2>3. ReconTyped'
    BY <1>1, <2>1, <2>2, ReconMoves
  <2> QED
    BY <1>4, <1>6, <2>3 DEF Verify
<1>7. CASE Persist(r)
  <2>1. recon[r].call \in Call /\ recon[r].proof \in Proofs
    BY <1>1, <1>7 DEF Persist, ReconTyped
  <2>2. ReconTyped'
    BY <1>1, <1>7, <2>1, ReconMoves, ReconReturns DEF Persist
  <2>3. stream' \in [Call -> Seq(Events)]
    BY <1>4, <1>7, <2>1, Appended, EventsType DEF Persist
  <2> QED
    BY <1>4, <1>7, <2>2, <2>3 DEF Persist
<1>8. CASE SettleAttempt(r)
  <2> DEFINE c == recon[r].call  p == recon[r].proof  a == AttemptOf[c]
  <2>1. c \in Call /\ p \in Proofs
    BY <1>1, <1>8 DEF SettleAttempt, ReconTyped
  <2>2. ReconTyped'
    BY <1>1, <1>8, <2>1, ReconMoves, ReconReturns DEF SettleAttempt
  <2>3. a \in Attempt
    BY <2>1, CallAssumption
  <2>4. Reconciled(attempt[a], FiguresOf(c, p)) \in Attempts
    BY <1>4, <2>1, <2>3, FiguresType, ReconciledType
  <2>5. \/ attempt' = [attempt EXCEPT ![a] = Reconciled(attempt[a], FiguresOf(c, p))]
        \/ UNCHANGED attempt
    BY <1>8 DEF SettleAttempt
  <2>6. attempt' \in [Attempt -> Attempts]
    <3> HIDE DEF a, c, p
    <3> QED
      BY <1>4, <2>4, <2>5
  <2> QED
    BY <1>4, <1>8, <2>2, <2>6 DEF SettleAttempt
<1>9. CASE Mark(r)
  <2>1. recon[r].call \in Call
    BY <1>1, <1>9 DEF Mark, ReconTyped
  <2>2. stream' \in [Call -> Seq(Events)]
    BY <1>4, <1>9, <2>1, Appended, EventsType DEF Mark
  <2> QED
    BY <1>1, <1>4, <1>9, <2>2, ReconReturns DEF Mark
<1>10. CASE ReconcilerStops(r)
  BY <1>1, <1>4, <1>10, ReconReturns DEF ReconcilerStops
<1> QED
  BY <1>4, <1>5, <1>6, <1>7, <1>8, <1>9, <1>10 DEF Reconciling

\* Startup keeps the shape, for every set of calls a crash left pending.
LEMMA StartupTyped ==
  ASSUME TypeInv, Startup
  PROVE  TypeInv'
<1>1. GatewayTyped /\ ReconTyped /\ Rest
  BY TypeParts
<1>2. stream \in [Call -> Seq(Events)] /\ attempt \in [Attempt -> Attempts]
  BY <1>1 DEF Rest
<1>3. stream' \in [Call -> Seq(Events)]
  <2>1. ASSUME NEW c \in Call
        PROVE  (IF Pending(c) THEN Append(stream[c], <<"settlement">>) ELSE stream[c]) \in Seq(Events)
    <3>1. stream[c] \in Seq(Events)
      BY <1>2
    <3>2. Append(stream[c], <<"settlement">>) \in Seq(Events)
      BY <3>1, EventsType
    <3> QED
      BY <3>1, <3>2
  <2> QED
    BY <2>1 DEF Startup
<1>4. attempt' \in [Attempt -> Attempts]
  <2>1. ASSUME NEW a \in Attempt
        PROVE  AfterSettlements[a] \in Attempts
    <3> DEFINE c == CHOOSE x \in PendingOf(a) : TRUE
    <3>1. CASE PendingOf(a) = {}
      BY <1>2, <3>1 DEF AfterSettlements
    <3>2. CASE PendingOf(a) # {}
      <4>1. c \in Call /\ Pending(c)
        BY <3>2 DEF PendingOf, CallsOf
      <4>2. Reconciled(attempt[a], FiguresOf(c, ProofOf(c))) \in Attempts
        BY <1>2, <4>1, PendingProof, FiguresType, ReconciledType
      <4>3. AfterSettlements[a] = Reconciled(attempt[a], FiguresOf(c, ProofOf(c)))
        BY <3>2 DEF AfterSettlements
      <4> QED
        BY <4>2, <4>3
    <3> QED
      BY <3>1, <3>2
  <2>2. AfterSettlements \in [Attempt -> Attempts]
    <3>1. AfterSettlements = [a \in Attempt |-> AfterSettlements[a]]
      BY DEF AfterSettlements
    <3> QED
      BY <2>1, <3>1
  <2> QED
    BY <2>2 DEF Startup
<1>5. UNCHANGED <<wire, sent, gateway, said, recon>>
  BY DEF Startup
<1>6. (TypeInv <=> GatewayTyped /\ ReconTyped /\ Rest)'
  BY TypeParts, PTL
<1> QED
  BY <1>1, <1>3, <1>4, <1>5, <1>6 DEF GatewayTyped, ReconTyped, Rest

\* The type invariant holds at first, and every step keeps it.
LEMMA TypeStart == Init => TypeInv
<1> SUFFICES ASSUME Init PROVE TypeInv
  OBVIOUS
<1>1. Idle \in Invocations /\ Idle.stage = "idle" /\ Resting \in Reconciliations /\ Resting.stage = "idle"
  BY DEF Idle, Invocations, Resting, Reconciliations
<1>2. GatewayTyped /\ ReconTyped
  BY <1>1 DEF Init, GatewayTyped, ReconTyped
<1>3. stream \in [Call -> Seq(Events)]
  BY DEF Init
<1>4. attempt \in [Attempt -> Attempts]
  BY DEF Init, Attempts
<1>5. wire \in [Call -> Wires] /\ sent \in [Call -> Nat]
  BY DEF Init, Wires
<1>6. said \in [Invoker -> {<<>>} \cup (Call \X Outcomes)]
  BY DEF Init
<1> QED
  BY <1>2, <1>3, <1>4, <1>5, <1>6, TypeParts DEF Rest

\* Every step keeps the type invariant.
LEMMA TypeStep == TypeInv /\ [Next]_vars => TypeInv'
<1> SUFFICES ASSUME TypeInv, [Next]_vars PROVE TypeInv'
  OBVIOUS
<1>1. CASE UNCHANGED vars
  BY <1>1 DEF vars, TypeInv, TypeOK, StagesFilled
<1>2. CASE Next
  BY <1>2, GatewayStepTyped, NetworkStepTyped, SchedulerStepTyped, ReconcilingStepTyped,
     StartupTyped DEF Next
<1> QED
  BY <1>1, <1>2

\* The variables of the gateway, the journal and the reconciliation keep their
\* shape in every behaviour.
THEOREM TypeCorrect == Spec => []TypeOK
<1>1. TypeInv => TypeOK
  BY DEF TypeInv
<1> QED
  BY <1>1, TypeStart, TypeStep, PTL DEF Spec

-----------------------------------------------------------------------------
\* A task that holds the claim of a call and has not sent it.
Owns(i, c) == gateway[i].stage \in {"claimed", "ready"} /\ gateway[i].call = c

\* The journal, the owner and the sender's counter agree: a call without a
\* stream has no owner and was not sent, an owner has not sent its call, and a
\* call has one owner.
ClaimInv ==
  \A c \in Call :
    /\ stream[c] = <<>> => sent[c] = 0 /\ \A i \in Invoker : ~Owns(i, c)
    /\ \A i \in Invoker : Owns(i, c) => sent[c] = 0
    /\ \A i, j \in Invoker : Owns(i, c) /\ Owns(j, c) => i = j

DispatchInv == TypeInv /\ ClaimInv /\ DispatchedOnce

\* What a step must do to ownership: only RecordIntent makes an owner, and
\* streams only grow.
NoNewOwner == \A i \in Invoker, c \in Call : Owns(i, c)' => Owns(i, c)
StreamsGrow == \A c \in Call : stream[c] # <<>> => stream'[c] # <<>>

\* Such a step that sends nothing keeps the invariant.
LEMMA NothingSent ==
  ASSUME ClaimInv, DispatchedOnce, NoNewOwner, StreamsGrow, sent' = sent
  PROVE  ClaimInv' /\ DispatchedOnce'
<1>1. \A c \in Call : stream'[c] = <<>> => stream[c] = <<>>
  BY DEF StreamsGrow
<1> QED
  BY <1>1 DEF ClaimInv, NoNewOwner, DispatchedOnce

\* A task that does not enter a claiming stage makes no owner.
LEMMA TaskMoves ==
  ASSUME TypeInv, NEW i \in Invoker, NEW g,
         gateway' = [gateway EXCEPT ![i] = g],
         g.stage \in {"claimed", "ready"} =>
           gateway[i].stage \in {"claimed", "ready"} /\ g.call = gateway[i].call
  PROVE  NoNewOwner
<1>1. DOMAIN gateway = Invoker
  BY DEF TypeInv, TypeOK
<1>2. \A j \in Invoker : gateway'[j] = IF j = i THEN g ELSE gateway[j]
  BY <1>1
<1> QED
  BY <1>2 DEF NoNewOwner, Owns

\* Every other step leaves the gateway and the counter alone.
LEMMA OtherSteps ==
  ASSUME DispatchInv, StreamsGrow, UNCHANGED <<gateway, sent>>
  PROVE  ClaimInv' /\ DispatchedOnce'
BY NothingSent DEF DispatchInv, NoNewOwner, Owns

\* No step shortens a stream.
LEMMA StreamsOnlyGrow ==
  ASSUME TypeInv, Next
  PROVE  StreamsGrow
<1>1. stream \in [Call -> Seq(Events)]
  BY DEF TypeInv, TypeOK
<1>2. ASSUME NEW c \in Call, NEW e \in Events, AppendTo(c, e)  PROVE StreamsGrow
  BY <1>1, <1>2, Appended DEF StreamsGrow
<1>3. ASSUME UNCHANGED stream  PROVE StreamsGrow
  BY <1>3 DEF StreamsGrow
<1>4. ASSUME NEW i \in Invoker, Gateway(i)  PROVE StreamsGrow
  <2>1. CASE RecordIntent(i) \/ RecordOutcome(i)
    <3>1. gateway[i].call \in Call /\ (RecordOutcome(i) => gateway[i].outcome \in Outcomes)
      BY <2>1 DEF RecordIntent, RecordOutcome, TypeInv, StagesFilled
    <3> QED
      BY <1>2, <1>3, <2>1, <3>1, EventsType DEF RecordIntent, RecordOutcome
  <2>2. CASE ~(RecordIntent(i) \/ RecordOutcome(i))
    BY <1>3, <1>4, <2>2 DEF Gateway, Invoke, ReadBack, Transmit, TransportRefuses, Answered,
                            GatewayCrashes
  <2> QED
    BY <2>1, <2>2
<1>5. ASSUME NEW c \in Call, Receive(c) \/ SenderEnds(c) \/ Lose(c)  PROVE StreamsGrow
  BY <1>3, <1>5 DEF Receive, SenderEnds, Lose
<1>6. ASSUME NEW a \in Attempt, Scheduler(a)  PROVE StreamsGrow
  BY <1>3, <1>6 DEF Scheduler, MarkUnknown, Release, HostReconciles
<1>7. ASSUME NEW r \in Reconciler, Reconciling(r)  PROVE StreamsGrow
  <2>1. CASE Persist(r) \/ Mark(r)
    <3>1. recon[r].call \in Call /\ (Persist(r) => recon[r].proof \in Proofs)
      BY <2>1 DEF Persist, Mark, TypeInv, StagesFilled
    <3> QED
      BY <1>2, <1>3, <2>1, <3>1, EventsType DEF Persist, Mark
  <2>2. CASE ~(Persist(r) \/ Mark(r))
    BY <1>3, <1>7, <2>2 DEF Reconciling, ReadCall, Replay, Verify, SettleAttempt, ReconcilerStops
  <2> QED
    BY <2>1, <2>2
<1>8. CASE Startup
  <2>1. ASSUME NEW c \in Call, stream[c] # <<>>
        PROVE  stream'[c] # <<>>
    <3>1. stream[c] \in Seq(Events)
      BY <1>1
    <3>2. Append(stream[c], <<"settlement">>) # <<>>
      BY <3>1, EventsType
    <3> QED
      BY <1>8, <2>1, <3>2 DEF Startup
  <2> QED
    BY <2>1 DEF StreamsGrow
<1> QED
  BY <1>4, <1>5, <1>6, <1>7, <1>8 DEF Next

\* The two steps a dispatch is made of: the claim, and the hand-over.
LEMMA ClaimStep ==
  ASSUME DispatchInv, StreamsGrow, NEW i \in Invoker, RecordIntent(i)
  PROVE  ClaimInv' /\ DispatchedOnce'
<1> DEFINE c == gateway[i].call
<1>1. c \in Call /\ sent' = sent
  BY DEF RecordIntent, DispatchInv, TypeInv, StagesFilled
<1>2. DOMAIN gateway = Invoker /\ stream \in [Call -> Seq(Events)]
  BY DEF DispatchInv, TypeInv, TypeOK
<1>3. CASE ~Claimable(c)
  <2>1. gateway' = [gateway EXCEPT ![i] = Idle] /\ Idle.stage = "idle"
    BY <1>3 DEF RecordIntent, Idle
  <2>2. NoNewOwner
    BY <2>1, TaskMoves DEF DispatchInv
  <2> QED
    BY <1>1, <2>2, NothingSent DEF DispatchInv
<1>4. CASE Claimable(c)
  <2>1. stream[c] = <<>> /\ AppendTo(c, <<"intent">>) /\ At(i, "claimed", c, None)
    BY <1>4 DEF RecordIntent, Claimable
  <2>2. stream'[c] # <<>> /\ \A d \in Call \ {c} : stream'[d] = stream[d]
    BY <1>1, <1>2, <2>1, Appended, EventsType
  <2>3. \A j \in Invoker : gateway'[j] = IF j = i THEN [stage |-> "claimed", call |-> c, outcome |-> None]
                                                ELSE gateway[j]
    BY <1>2, <2>1 DEF At
  <2>4. \A j \in Invoker, d \in Call : Owns(j, d)' <=> IF j = i THEN d = c ELSE Owns(j, d)
    BY <2>3 DEF Owns
  <2>5. sent[c] = 0 /\ \A j \in Invoker : ~Owns(j, c)
    BY <1>1, <2>1 DEF DispatchInv, ClaimInv
  <2>6. ASSUME NEW d \in Call
        PROVE  /\ stream'[d] = <<>> => sent'[d] = 0 /\ \A j \in Invoker : ~Owns(j, d)'
               /\ \A j \in Invoker : Owns(j, d)' => sent'[d] = 0
               /\ \A j, k \in Invoker : Owns(j, d)' /\ Owns(k, d)' => j = k
    <3> HIDE DEF c
    <3>1. CASE d = c
      BY <1>1, <2>2, <2>4, <2>5, <3>1
    <3>2. CASE d # c
      <4>1. \A j \in Invoker : Owns(j, d)' => Owns(j, d)
        BY <2>4, <3>2
      <4> QED
        BY <1>1, <2>2, <3>2, <4>1 DEF DispatchInv, ClaimInv
    <3> QED
      BY <3>1, <3>2
  <2> QED
    BY <1>1, <2>6 DEF ClaimInv, DispatchInv, DispatchedOnce
<1> QED
  BY <1>3, <1>4

\* A call is handed over by its one owner, who has not sent it yet.
LEMMA SendStep ==
  ASSUME DispatchInv, StreamsGrow, NEW i \in Invoker, Transmit(i)
  PROVE  ClaimInv' /\ DispatchedOnce'
<1> DEFINE c == gateway[i].call
<1>1. c \in Call /\ Owns(i, c)
  BY DEF Transmit, DispatchInv, TypeInv, StagesFilled, Owns
<1>2. DOMAIN gateway = Invoker /\ sent \in [Call -> Nat]
  BY DEF DispatchInv, TypeInv, TypeOK
<1>3. sent[c] = 0 /\ stream[c] # <<>> /\ \A j \in Invoker : Owns(j, c) => j = i
  BY <1>1 DEF DispatchInv, ClaimInv
<1>4. sent'[c] = 1 /\ \A d \in Call \ {c} : sent'[d] = sent[d]
  BY <1>1, <1>2, <1>3 DEF Transmit
<1>5. \A j \in Invoker : gateway'[j] = IF j = i THEN [stage |-> "waiting", call |-> c, outcome |-> None]
                                              ELSE gateway[j]
  BY <1>2 DEF Transmit, At
<1>6. \A j \in Invoker, d \in Call : Owns(j, d)' => Owns(j, d) /\ d # c
  <2>1. \A d \in Call : ~Owns(i, d)'
    BY <1>5 DEF Owns
  <2>2. \A j \in Invoker \ {i}, d \in Call : Owns(j, d)' <=> Owns(j, d)
    BY <1>5 DEF Owns
  <2> QED
    BY <1>3, <2>1, <2>2
<1>7. stream' = stream
  BY DEF Transmit
<1>8. ASSUME NEW d \in Call
      PROVE  /\ stream'[d] = <<>> => sent'[d] = 0 /\ \A j \in Invoker : ~Owns(j, d)'
             /\ \A j \in Invoker : Owns(j, d)' => sent'[d] = 0
             /\ \A j, k \in Invoker : Owns(j, d)' /\ Owns(k, d)' => j = k
             /\ sent'[d] <= 1
  <2> HIDE DEF c
  <2>1. CASE d = c
    BY <1>3, <1>4, <1>6, <1>7, <2>1
  <2>2. CASE d # c
    BY <1>4, <1>6, <1>7, <2>2 DEF DispatchInv, ClaimInv, DispatchedOnce
  <2> QED
    BY <2>1, <2>2
<1> QED
  BY <1>8 DEF ClaimInv, DispatchedOnce

\* Claims and hand-overs together.
LEMMA DispatchStep == DispatchInv /\ [Next]_vars => DispatchInv'
<1> SUFFICES ASSUME DispatchInv, [Next]_vars PROVE DispatchInv'
  OBVIOUS
<1>1. TypeInv'
  BY TypeStep DEF DispatchInv
<1> SUFFICES ClaimInv' /\ DispatchedOnce'
  BY <1>1 DEF DispatchInv
<1>2. CASE UNCHANGED vars
  BY <1>2 DEF vars, DispatchInv, ClaimInv, DispatchedOnce, Owns
<1>3. CASE Next
  <2>1. StreamsGrow
    BY <1>3, StreamsOnlyGrow DEF DispatchInv
  <2>2. ASSUME NEW i \in Invoker, Gateway(i)  PROVE ClaimInv' /\ DispatchedOnce'
    <3>1. CASE RecordIntent(i)
      BY <2>1, <3>1, ClaimStep
    <3>2. CASE Transmit(i)
      BY <2>1, <3>2, SendStep
    <3>3. ASSUME NEW g, gateway' = [gateway EXCEPT ![i] = g], sent' = sent,
                 g.stage \in {"claimed", "ready"} =>
                   gateway[i].stage \in {"claimed", "ready"} /\ g.call = gateway[i].call
          PROVE  ClaimInv' /\ DispatchedOnce'
      <4>1. NoNewOwner
        BY <3>3, TaskMoves DEF DispatchInv
      <4> QED
        BY <2>1, <3>3, <4>1, NothingSent DEF DispatchInv
    <3>4. CASE RecordOutcome(i) \/ GatewayCrashes(i)
      BY <3>3, <3>4 DEF RecordOutcome, GatewayCrashes, Idle
    <3>5. CASE TransportRefuses(i) \/ Answered(i) \/ \E c \in Call : Invoke(i, c)
      BY <3>3, <3>5 DEF TransportRefuses, Answered, Invoke, At
    <3>6. CASE ReadBack(i)
      BY <3>3, <3>6 DEF ReadBack, At
    <3> QED
      BY <2>2, <3>1, <3>2, <3>4, <3>5, <3>6 DEF Gateway
  <2>3. ASSUME UNCHANGED <<gateway, sent>>  PROVE ClaimInv' /\ DispatchedOnce'
    BY <2>1, <2>3, OtherSteps
  <2>4. ASSUME ~\E i \in Invoker : Gateway(i)  PROVE UNCHANGED <<gateway, sent>>
    BY <1>3, <2>4 DEF Next, Receive, SenderEnds, Lose, Scheduler, MarkUnknown, Release, HostReconciles,
       Reconciling, ReadCall, Replay, Verify, Persist, SettleAttempt, Mark, ReconcilerStops, Startup
  <2> QED
    BY <2>2, <2>3, <2>4
<1> QED
  BY <1>2, <1>3

\* However many tasks invoke a call, however often they or the process die, it
\* is handed to a sender at most once.
THEOREM SentOnce == Spec => []DispatchedOnce
<1>1. Init => DispatchInv
  <2>1. Init => ClaimInv /\ DispatchedOnce
    BY DEF Init, ClaimInv, DispatchedOnce, Owns, Idle
  <2> QED
    BY <2>1, TypeStart DEF DispatchInv
<1>2. DispatchInv => DispatchedOnce
  BY DEF DispatchInv
<1> QED
  BY <1>1, <1>2, DispatchStep, PTL DEF Spec

-----------------------------------------------------------------------------
\* What the journal says is true, settlements charge what was proved, and the
\* startup audit passes.

Intent == <<"intent">>
Outcome(o) == <<"outcome", o>>
Proof(p) == <<"reconciliation", p>>
Marker == <<"settlement">>

\* The streams the journal writes.
History(c) ==
  \/ stream[c] = <<>> \/ stream[c] = <<Intent>>
  \/ \E o \in Outcomes : stream[c] = <<Intent, Outcome(o)>>
  \/ \E p \in Proofs :
       \/ stream[c] = <<Intent, Proof(p)>>
       \/ stream[c] = <<Intent, Outcome("unknown"), Proof(p)>>
       \/ stream[c] = <<Intent, Proof(p), Marker>>
       \/ stream[c] = <<Intent, Outcome("unknown"), Proof(p), Marker>>

\* The request cannot arrive any more.
Gone(c) == stream[c] # <<>> /\ wire[c].state \in {"none", "lost"} /\ ~MaySend(c)

\* What an outcome says of the request, and a proof.
Says(c, o) ==
  /\ o = "not_sent" => Gone(c)
  /\ o \in {"known_success", "known_failure"} => wire[c].state = "received"

Proved(c, p) ==
  /\ p.usage = None => Gone(c)
  /\ p.usage # None => wire[c].state = "received" /\ wire[c].usage = p.usage

\* The attempt's outcome is unknown or was reconciled.
Parked(a) == attempt[a].status = "outcome_unknown" \/ attempt[a].figures # None

\* Nothing is on the wire of a call that is not claimed or not handed over.
Fresh == \A c \in Call : stream[c] = <<>> \/ MaySend(c) => wire[c].state = "none"

Truthful ==
  /\ \A i \in Invoker :
       gateway[i].stage = "answered" => Says(gateway[i].call, gateway[i].outcome)
  /\ \A c \in Call : \A o \in OutcomesOf(c) : Says(c, o)
  /\ \A c \in Call : \A p \in ProofsOf(c) : Proved(c, p)

\* A reconciliation under way, and a proof: what they rest on.
Grounded(r) ==
  LET c == recon[r].call
      a == AttemptOf[c]
  IN
  /\ recon[r].stage # "idle" => stream[c] # <<>> /\ Parked(a)
  /\ recon[r].stage = "verified" => Proved(c, recon[r].proof)
  /\ recon[r].stage \in {"persisted", "settled"} => recon[r].proof \in ProofsOf(c)
  /\ recon[r].stage = "settled" => attempt[a].figures = FiguresOf(c, recon[r].proof)

Settling ==
  /\ \A r \in Reconciler : Grounded(r)
  /\ \A c \in Call : ProofsOf(c) # {} => Parked(AttemptOf[c])
  /\ SettledAsProved

\* Under the dispatch authority an attempt has one call, whose state decides
\* whether the attempt may be let go.
OneCall ==
  \A c, d \in Call :
    AttemptOf[c] = AttemptOf[d] /\ stream[c] # <<>> /\ stream[d] # <<>> => c = d

FiguresAreProved ==
  \A a \in Attempt :
    attempt[a].figures # None =>
      \/ \A c \in CallsOf(a) : stream[c] = <<>>
      \/ \E c \in CallsOf(a) : \E p \in ProofsOf(c) : attempt[a].figures = FiguresOf(c, p)

Held == OneCall /\ NoSenderAfterRelease /\ UnresolvedStayHeld /\ FiguresAreProved

CallInv ==
  /\ DispatchInv
  /\ \A c \in Call : History(c)
  /\ Fresh /\ Truthful /\ Settling
  /\ Owned => Held

-----------------------------------------------------------------------------
\* What is read off a stream.

\* The events of a short stream.
LEMMA Ranges ==
  /\ Range(<<>>) = {}
  /\ \A a : Range(<<a>>) = {a}
  /\ \A a, b : Range(<<a, b>>) = {a, b}
  /\ \A a, b, x : Range(<<a, b, x>>) = {a, b, x}
  /\ \A a, b, x, y : Range(<<a, b, x, y>>) = {a, b, x, y}
BY DEF Range

\* An append adds one event.
LEMMA AppendRange ==
  ASSUME NEW s \in Seq(Events), NEW e \in Events
  PROVE  Range(Append(s, e)) = Range(s) \cup {e}
<1> DEFINE n == Len(s)
<1>1. n \in Nat /\ DOMAIN s = 1 .. n
  OBVIOUS
<1>2. /\ DOMAIN Append(s, e) = 1 .. (n + 1) /\ Append(s, e)[n + 1] = e
      /\ \A i \in 1 .. n : Append(s, e)[i] = s[i]
  OBVIOUS
<1> HIDE DEF n
<1>3. 1 .. (n + 1) = (1 .. n) \cup {n + 1}
  BY <1>1
<1> QED
  BY <1>1, <1>2, <1>3 DEF Range

\* Different events are different.
LEMMA EventsDiffer ==
  /\ Intent # Marker
  /\ \A o \in Outcomes : Outcome(o) # Intent /\ Outcome(o) # Marker
  /\ \A p \in Proofs : Proof(p) # Intent /\ Proof(p) # Marker
  /\ \A o \in Outcomes, p \in Proofs : Outcome(o) # Proof(p)
  /\ \A o, x \in Outcomes : Outcome(o) = Outcome(x) => o = x
  /\ \A p, q \in Proofs : Proof(p) = Proof(q) => p = q
BY DEF Intent, Marker, Outcome, Proof

\* The projection of a stream.
LEMMA Projection ==
  ASSUME NEW c \in Call
  PROVE  /\ OutcomesOf(c) = {o \in Outcomes : Outcome(o) \in Log(c)}
         /\ ProofsOf(c) = {p \in Proofs : Proof(p) \in Log(c)}
         /\ stream[c] = <<>> => Status(c) = "absent"
         /\ stream[c] # <<>> /\ Marker \in Log(c) => Status(c) = "reconciled"
         /\ stream[c] # <<>> /\ Marker \notin Log(c) =>
              /\ ProofsOf(c) # {} => Status(c) = "settlement_pending"
              /\ ProofsOf(c) = {} /\ OutcomesOf(c) # {} =>
                   Status(c) = CHOOSE o \in OutcomesOf(c) : TRUE
              /\ ProofsOf(c) = {} /\ OutcomesOf(c) = {} => Status(c) = "dispatching"
BY DEF OutcomesOf, ProofsOf, Status, Outcome, Proof, Marker

\* What each stream the journal writes says of its call.
Reads(c, outcomes, proofs, status) ==
  OutcomesOf(c) = outcomes /\ ProofsOf(c) = proofs /\ Status(c) = status

Readings(c) ==
  /\ stream[c] = <<>> => Reads(c, {}, {}, "absent")
  /\ stream[c] = <<Intent>> => Reads(c, {}, {}, "dispatching")
  /\ \A o \in Outcomes : stream[c] = <<Intent, Outcome(o)>> => Reads(c, {o}, {}, o)
  /\ \A p \in Proofs :
       /\ stream[c] = <<Intent, Proof(p)>> => Reads(c, {}, {p}, "settlement_pending")
       /\ stream[c] = <<Intent, Outcome("unknown"), Proof(p)>> =>
            Reads(c, {"unknown"}, {p}, "settlement_pending")
       /\ stream[c] = <<Intent, Proof(p), Marker>> => Reads(c, {}, {p}, "reconciled")
       /\ stream[c] = <<Intent, Outcome("unknown"), Proof(p), Marker>> =>
            Reads(c, {"unknown"}, {p}, "reconciled")

\* The projection of every stream the journal writes.
LEMMA ReadingsHold == \A c \in Call : Readings(c)
<1> SUFFICES ASSUME NEW c \in Call PROVE Readings(c)
  OBVIOUS
<1> USE EventsDiffer, Projection
<1> HIDE DEF Intent, Marker, Outcome, Proof
<1>1. ASSUME stream[c] = <<>>
      PROVE  Reads(c, {}, {}, "absent")
  <2>1. Log(c) = {}
    BY <1>1, Ranges DEF Log
  <2>2. OutcomesOf(c) = {} /\ ProofsOf(c) = {}
    BY <2>1
  <2> QED
    BY <1>1, <2>2 DEF Reads
<1>2. ASSUME stream[c] # <<>>, NEW L, Log(c) = L, Marker \notin L,
             \A o \in Outcomes : Outcome(o) \notin L, \A p \in Proofs : Proof(p) \notin L
      PROVE  Reads(c, {}, {}, "dispatching")
  <2>1. OutcomesOf(c) = {} /\ ProofsOf(c) = {}
    BY <1>2
  <2> QED
    BY <1>2, <2>1 DEF Reads
<1>3. ASSUME stream[c] # <<>>, NEW o \in Outcomes, Log(c) = {Intent, Outcome(o)}
      PROVE  Reads(c, {o}, {}, o)
  <2>1. OutcomesOf(c) = {o} /\ ProofsOf(c) = {}
    BY <1>3
  <2>2. Marker \notin Log(c) /\ OutcomesOf(c) # {} /\ (CHOOSE x \in OutcomesOf(c) : TRUE) = o
    BY <1>3, <2>1
  <2> QED
    BY <1>3, <2>1, <2>2 DEF Reads
<1>4. ASSUME stream[c] # <<>>, NEW p \in Proofs
      PROVE  /\ Log(c) = {Intent, Proof(p)} => Reads(c, {}, {p}, "settlement_pending")
             /\ Log(c) = {Intent, Proof(p), Marker} => Reads(c, {}, {p}, "reconciled")
             /\ Log(c) = {Intent, Outcome("unknown"), Proof(p)} =>
                  Reads(c, {"unknown"}, {p}, "settlement_pending")
             /\ Log(c) = {Intent, Outcome("unknown"), Proof(p), Marker} =>
                  Reads(c, {"unknown"}, {p}, "reconciled")
  <2>1. ASSUME NEW O, NEW L, Log(c) = L, Proof(p) \in L,
               \A q \in Proofs : Proof(q) \in L => q = p,
               O = {o \in Outcomes : Outcome(o) \in L}
        PROVE  Reads(c, O, {p}, IF Marker \in L THEN "reconciled" ELSE "settlement_pending")
    <3>1. ProofsOf(c) = {p} /\ OutcomesOf(c) = O
      BY <2>1
    <3>2. ProofsOf(c) # {} /\ stream[c] # <<>>
      BY <1>4, <3>1
    <3>3. Marker \in L => Status(c) = "reconciled"
      BY <2>1, <3>2
    <3>4. Marker \notin L => Status(c) = "settlement_pending"
      BY <2>1, <3>2
    <3> QED
      BY <3>1, <3>3, <3>4 DEF Reads
  <2>2. \A L : L \in {{Intent, Proof(p)}, {Intent, Proof(p), Marker}} =>
          {o \in Outcomes : Outcome(o) \in L} = {}
    OBVIOUS
  <2>3. \A L : L \in {{Intent, Outcome("unknown"), Proof(p)},
                      {Intent, Outcome("unknown"), Proof(p), Marker}} =>
          {o \in Outcomes : Outcome(o) \in L} = {"unknown"}
    <3>1. "unknown" \in Outcomes
      BY DEF Outcomes
    <3> QED
      BY <3>1
  <2>4. Log(c) = {Intent, Proof(p)} => Reads(c, {}, {p}, "settlement_pending")
    BY <2>1, <2>2
  <2>5. Log(c) = {Intent, Proof(p), Marker} => Reads(c, {}, {p}, "reconciled")
    BY <2>1, <2>2
  <2>6. Log(c) = {Intent, Outcome("unknown"), Proof(p)} =>
          Reads(c, {"unknown"}, {p}, "settlement_pending")
    <3>1. "unknown" \in Outcomes
      BY DEF Outcomes
    <3> QED
      BY <2>1, <2>3, <3>1
  <2>7. Log(c) = {Intent, Outcome("unknown"), Proof(p), Marker} =>
          Reads(c, {"unknown"}, {p}, "reconciled")
    <3>1. "unknown" \in Outcomes
      BY DEF Outcomes
    <3> QED
      BY <2>1, <2>3, <3>1
  <2> QED
    BY <2>4, <2>5, <2>6, <2>7
<1>5. stream[c] = <<Intent>> => Reads(c, {}, {}, "dispatching")
  <2> SUFFICES ASSUME stream[c] = <<Intent>> PROVE Reads(c, {}, {}, "dispatching")
    OBVIOUS
  <2>1. Log(c) = {Intent} /\ stream[c] # <<>>
    BY Ranges DEF Log
  <2> QED
    BY <1>2, <2>1
<1>6. \A o \in Outcomes : stream[c] = <<Intent, Outcome(o)>> => Reads(c, {o}, {}, o)
  <2> SUFFICES ASSUME NEW o \in Outcomes, stream[c] = <<Intent, Outcome(o)>>
               PROVE  Reads(c, {o}, {}, o)
    OBVIOUS
  <2>1. Log(c) = {Intent, Outcome(o)} /\ stream[c] # <<>>
    BY Ranges DEF Log
  <2> QED
    BY <1>3, <2>1
<1>7. ASSUME NEW p \in Proofs
      PROVE  /\ stream[c] = <<Intent, Proof(p)>> => Reads(c, {}, {p}, "settlement_pending")
             /\ stream[c] = <<Intent, Outcome("unknown"), Proof(p)>> =>
                  Reads(c, {"unknown"}, {p}, "settlement_pending")
             /\ stream[c] = <<Intent, Proof(p), Marker>> => Reads(c, {}, {p}, "reconciled")
             /\ stream[c] = <<Intent, Outcome("unknown"), Proof(p), Marker>> =>
                  Reads(c, {"unknown"}, {p}, "reconciled")
  <2> DEFINE u == Outcome("unknown")
  <2>1. ASSUME NEW x, NEW y, NEW z
        PROVE  /\ stream[c] = <<x, y>> => Log(c) = {x, y} /\ stream[c] # <<>>
               /\ stream[c] = <<x, y, z>> => Log(c) = {x, y, z} /\ stream[c] # <<>>
    <3>1. stream[c] = <<x, y>> => Log(c) = {x, y} /\ stream[c] # <<>>
      BY Ranges DEF Log
    <3>2. stream[c] = <<x, y, z>> => Log(c) = {x, y, z} /\ stream[c] # <<>>
      BY Ranges DEF Log
    <3> QED
      BY <3>1, <3>2
  <2>2. ASSUME NEW x, NEW y, NEW z, NEW w
        PROVE  stream[c] = <<x, y, z, w>> => Log(c) = {x, y, z, w} /\ stream[c] # <<>>
    BY Ranges DEF Log
  <2>3. stream[c] = <<Intent, Proof(p)>> => Reads(c, {}, {p}, "settlement_pending")
    BY <1>4, <2>1
  <2>4. stream[c] = <<Intent, u, Proof(p)>> => Reads(c, {"unknown"}, {p}, "settlement_pending")
    BY <1>4, <2>1
  <2>5. stream[c] = <<Intent, Proof(p), Marker>> => Reads(c, {}, {p}, "reconciled")
    BY <1>4, <2>1
  <2>6. stream[c] = <<Intent, u, Proof(p), Marker>> => Reads(c, {"unknown"}, {p}, "reconciled")
    BY <1>4, <2>2
  <2> QED
    BY <2>3, <2>4, <2>5, <2>6
<1> QED
  BY <1>1, <1>5, <1>6, <1>7 DEF Readings

\* The streams of unresolved, pending and settled calls.
LEMMA UnresolvedStream ==
  \A c \in Call : History(c) =>
    (Unresolved(c) <=> stream[c] = <<Intent>> \/ stream[c] = <<Intent, Outcome("unknown")>>)
<1> SUFFICES ASSUME NEW c \in Call, History(c)
             PROVE  Unresolved(c) <=> stream[c] = <<Intent>> \/ stream[c] = <<Intent, Outcome("unknown")>>
  OBVIOUS
<1> HIDE DEF Intent, Outcome, Proof, Marker
<1>1. Readings(c)
  BY ReadingsHold
<1>2. "unknown" \in Outcomes /\ "dispatching" \notin Outcomes
  BY DEF Outcomes
<1>3. CASE stream[c] = <<>>
  <2>1. Status(c) = "absent"
    BY <1>1, <1>3 DEF Readings, Reads
  <2> QED
    BY <1>3, <2>1 DEF Unresolved
<1>4. CASE stream[c] = <<Intent>>
  BY <1>1, <1>4 DEF Unresolved, Readings, Reads
<1>5. ASSUME NEW o \in Outcomes, stream[c] = <<Intent, Outcome(o)>>
      PROVE  Unresolved(c) <=> stream[c] = <<Intent>> \/ stream[c] = <<Intent, Outcome("unknown")>>
  <2>1. Status(c) = o
    BY <1>1, <1>5 DEF Readings, Reads
  <2>2. Unresolved(c) <=> o = "unknown"
    BY <1>2, <2>1 DEF Unresolved
  <2>3. stream[c] # <<Intent>>
    BY <1>5
  <2>4. stream[c] = <<Intent, Outcome("unknown")>> => Outcome(o) = Outcome("unknown")
    BY <1>5
  <2> QED
    BY <1>2, <1>5, <2>2, <2>3, <2>4, EventsDiffer
<1>6. ASSUME NEW p \in Proofs, stream[c] = <<Intent, Proof(p)>>
      PROVE  Unresolved(c) <=> stream[c] = <<Intent>> \/ stream[c] = <<Intent, Outcome("unknown")>>
  <2>1. ~Unresolved(c)
    BY <1>1, <1>6 DEF Unresolved, Readings, Reads
  <2>2. stream[c] = <<Intent, Outcome("unknown")>> => Outcome("unknown") = Proof(p)
    BY <1>6
  <2> QED
    BY <1>2, <1>6, <2>1, <2>2, EventsDiffer
<1>7. ASSUME NEW p \in Proofs,
             \/ stream[c] = <<Intent, Outcome("unknown"), Proof(p)>>
             \/ stream[c] = <<Intent, Proof(p), Marker>>
             \/ stream[c] = <<Intent, Outcome("unknown"), Proof(p), Marker>>
      PROVE  Unresolved(c) <=> stream[c] = <<Intent>> \/ stream[c] = <<Intent, Outcome("unknown")>>
  <2>1. ~Unresolved(c)
    BY <1>1, <1>7 DEF Unresolved, Readings, Reads
  <2> QED
    BY <1>7, <2>1
<1> QED
  BY <1>3, <1>4, <1>5, <1>6, <1>7 DEF History

\* An unresolved call has no proof.
LEMMA NoProofYet ==
  \A c \in Call : History(c) /\ Unresolved(c) => ProofsOf(c) = {}
<1> SUFFICES ASSUME NEW c \in Call, History(c), Unresolved(c)
             PROVE  ProofsOf(c) = {}
  OBVIOUS
<1> HIDE DEF Intent, Outcome, Proof, Marker
<1>1. "unknown" \in Outcomes
  BY DEF Outcomes
<1> QED
  BY <1>1, UnresolvedStream, ReadingsHold DEF Readings, Reads

\* A stream that holds proof p, as far as it was settled.
ProvedStream(c, p) ==
  stream[c] = <<Intent, Proof(p)>> \/ stream[c] = <<Intent, Outcome("unknown"), Proof(p)>>
SettledStream(c, p) ==
  \/ stream[c] = <<Intent, Proof(p), Marker>>
  \/ stream[c] = <<Intent, Outcome("unknown"), Proof(p), Marker>>

\* Such a stream has one proof, and is pending or settled.
LEMMA ProvedReads ==
  \A c \in Call : \A p \in Proofs :
    /\ ProvedStream(c, p) => ProofsOf(c) = {p} /\ ProofOf(c) = p /\ Pending(c)
    /\ SettledStream(c, p) =>
         ProofsOf(c) = {p} /\ ProofOf(c) = p /\ Status(c) = "reconciled"
<1> SUFFICES ASSUME NEW c \in Call, NEW p \in Proofs
             PROVE  /\ ProvedStream(c, p) => ProofsOf(c) = {p} /\ ProofOf(c) = p /\ Pending(c)
                    /\ SettledStream(c, p) =>
                         ProofsOf(c) = {p} /\ ProofOf(c) = p /\ Status(c) = "reconciled"
  OBVIOUS
<1> HIDE DEF Intent, Outcome, Proof, Marker
<1>1. ProofsOf(c) = {p} => ProofOf(c) = p
  BY DEF ProofOf
<1>2. /\ ProvedStream(c, p) => ProofsOf(c) = {p} /\ Pending(c)
      /\ SettledStream(c, p) => ProofsOf(c) = {p} /\ Status(c) = "reconciled"
  BY ReadingsHold DEF ProvedStream, SettledStream, Readings, Reads, Pending
<1> QED
  BY <1>1, <1>2

\* Conversely, a call that is pending or settled, or has a proof at all.
LEMMA PendingStream ==
  \A c \in Call : History(c) =>
    /\ Pending(c) => \E p \in Proofs : ProvedStream(c, p)
    /\ Status(c) = "reconciled" => \E p \in Proofs : SettledStream(c, p)
    /\ ProofsOf(c) # {} => \E p \in Proofs : ProvedStream(c, p) \/ SettledStream(c, p)
<1> SUFFICES ASSUME NEW c \in Call, History(c)
             PROVE  /\ Pending(c) => \E p \in Proofs : ProvedStream(c, p)
                    /\ Status(c) = "reconciled" => \E p \in Proofs : SettledStream(c, p)
                    /\ ProofsOf(c) # {} => \E p \in Proofs : ProvedStream(c, p) \/ SettledStream(c, p)
  OBVIOUS
<1> HIDE DEF Intent, Outcome, Proof, Marker
<1>1. CASE \E p \in Proofs : ProvedStream(c, p) \/ SettledStream(c, p)
  <2>1. PICK p \in Proofs : ProvedStream(c, p) \/ SettledStream(c, p)
    BY <1>1
  <2>2. /\ ProvedStream(c, p) => Status(c) = "settlement_pending"
        /\ SettledStream(c, p) => Status(c) = "reconciled"
    BY ProvedReads DEF Pending
  <2> QED
    BY <2>1, <2>2 DEF Pending
<1>2. CASE ~\E p \in Proofs : ProvedStream(c, p) \/ SettledStream(c, p)
  <2>1. \/ stream[c] = <<>> \/ stream[c] = <<Intent>>
        \/ \E o \in Outcomes : stream[c] = <<Intent, Outcome(o)>>
    BY <1>2 DEF History, ProvedStream, SettledStream
  <2>2. ProofsOf(c) = {} /\ Status(c) \in {"absent", "dispatching"} \cup Outcomes
    BY <2>1, ReadingsHold DEF Readings, Reads
  <2> QED
    BY <2>2 DEF Pending, Outcomes
<1> QED
  BY <1>1, <1>2

\* A call with a known outcome has no proof.
LEMMA KnownStream ==
  \A c \in Call : History(c) =>
    \A o \in {"known_success", "known_failure"} : Status(c) = o => o \in OutcomesOf(c)
<1> SUFFICES ASSUME NEW c \in Call, History(c), NEW o \in {"known_success", "known_failure"},
                    Status(c) = o
             PROVE  o \in OutcomesOf(c)
  OBVIOUS
<1>1. Readings(c)
  BY ReadingsHold
<1>2. stream[c] # <<>> /\ Status(c) # "dispatching" /\ Status(c) # "reconciled"
      /\ Status(c) # "settlement_pending"
  BY <1>1 DEF Readings, Reads
<1>3. OutcomesOf(c) # {} /\ Status(c) = CHOOSE x \in OutcomesOf(c) : TRUE
  BY <1>2, Projection
<1> QED
  BY <1>3

-----------------------------------------------------------------------------
\* What a step may do to the gateway, the wire, the journal, the attempts and
\* the reconciliations.  The invariant is kept by whatever has these effects.

Claims(c) == Claimable(c) /\ AppendTo(c, Intent) /\ UNCHANGED <<attempt, wire>>

OwnerEffect ==
  \A i \in Invoker, c \in Call : Owns(i, c)' => Owns(i, c) \/ Claims(c)

AnswerEffect ==
  \A i \in Invoker :
    \/ gateway'[i] = gateway[i]
    \/ gateway'[i].stage # "answered"
    \/ Says(gateway[i].call, gateway[i].outcome)'

WireEffect ==
  \A c \in Call :
    \/ wire'[c] = wire[c]
    \/ MaySend(c) /\ ~MaySend(c)'
    \/ wire[c].state \in {"sending", "arrived"}

Records(c, e) == stream'[c] = Append(stream[c], e)

StreamEffect ==
  \A c \in Call :
    \/ stream'[c] = stream[c]
    \/ Claims(c)
    \/ \E i \in Invoker :
         /\ gateway[i].stage = "answered" /\ gateway[i].call = c
         /\ stream[c] = <<Intent>> /\ Records(c, Outcome(gateway[i].outcome))
    \/ \E r \in Reconciler :
         /\ recon[r].stage = "verified" /\ recon[r].call = c
         /\ Unresolved(c) /\ Records(c, Proof(recon[r].proof))
    \/ /\ Pending(c) /\ Records(c, Marker)
       /\ attempt'[AttemptOf[c]].figures = FiguresOf(c, ProofOf(c))

Released(a) ==
  \E s \in {"succeeded", "failed"} :
    MayRelease(a, s) /\ attempt'[a] = [status |-> s, figures |-> None]
Settled(a) ==
  \E f \in Figures :
    MayReconcile(a, f) /\ attempt'[a] = [status |-> "failed", figures |-> f]

AttemptEffect ==
  \A a \in Attempt :
    \/ attempt'[a] = attempt[a]
    \/ /\ attempt[a].status = "accepted"
       /\ attempt'[a] = [status |-> "outcome_unknown", figures |-> None]
    \/ attempt[a].status = "accepted" /\ Released(a) /\ UNCHANGED <<stream, gateway, wire>>
    \/ /\ attempt[a].status = "outcome_unknown" /\ attempt[a].figures = None
       /\ Settled(a) /\ UNCHANGED <<gateway, wire>>

ReconEffect == \A r \in Reconciler : recon'[r] = recon[r] \/ Grounded(r)'

Effects ==
  OwnerEffect /\ AnswerEffect /\ WireEffect /\ StreamEffect /\ AttemptEffect /\ ReconEffect

\* What is left alone has no effect.
LEMMA NoEffect ==
  /\ UNCHANGED gateway => OwnerEffect /\ AnswerEffect
  /\ UNCHANGED wire => WireEffect
  /\ UNCHANGED stream => StreamEffect
  /\ UNCHANGED attempt => AttemptEffect
  /\ UNCHANGED recon => ReconEffect
<1>1. UNCHANGED gateway => OwnerEffect
  BY DEF OwnerEffect, Owns
<1>2. UNCHANGED gateway => AnswerEffect
  BY DEF AnswerEffect
<1>3. UNCHANGED wire => WireEffect
  BY DEF WireEffect
<1>4. UNCHANGED stream => StreamEffect
  BY DEF StreamEffect
<1>5. UNCHANGED attempt => AttemptEffect
  BY DEF AttemptEffect
<1>6. UNCHANGED recon => ReconEffect
  BY DEF ReconEffect
<1> QED
  BY <1>1, <1>2, <1>3, <1>4, <1>5, <1>6

\* What the invariant says of the types, in the form the effects need.
LEMMA CallTypes ==
  ASSUME CallInv
  PROVE  /\ TypeInv /\ ClaimInv
         /\ stream \in [Call -> Seq(Events)] /\ attempt \in [Attempt -> Attempts]
         /\ wire \in [Call -> Wires] /\ DOMAIN gateway = Invoker /\ DOMAIN recon = Reconciler
         /\ \A c \in Call : AttemptOf[c] \in Attempt
         /\ \A i \in Invoker :
              /\ gateway[i].stage # "idle" => gateway[i].call \in Call
              /\ gateway[i].stage = "answered" => gateway[i].outcome \in Outcomes
         /\ \A r \in Reconciler :
              /\ recon[r].stage # "idle" => recon[r].call \in Call
              /\ recon[r].stage \in {"verified", "persisted", "settled"} =>
                   recon[r].proof \in Proofs
BY CallAssumption DEF CallInv, DispatchInv, TypeInv, TypeOK, StagesFilled

\* A task that moves on without a claim makes no owner.
LEMMA MovedTask ==
  ASSUME TypeInv, NEW i \in Invoker, NEW g,
         gateway' = [gateway EXCEPT ![i] = g],
         g.stage \in {"claimed", "ready"} =>
           gateway[i].stage \in {"claimed", "ready"} /\ g.call = gateway[i].call
  PROVE  OwnerEffect
BY TaskMoves DEF NoNewOwner, OwnerEffect

\* A task that is not answered now has no answer to account for.
LEMMA UnansweredTask ==
  ASSUME TypeInv, NEW i \in Invoker, NEW g, g.stage # "answered",
         gateway' = [gateway EXCEPT ![i] = g]
  PROVE  AnswerEffect
<1>1. DOMAIN gateway = Invoker
  BY DEF TypeInv, TypeOK
<1>2. \A j \in Invoker : gateway'[j] = IF j = i THEN g ELSE gateway[j]
  BY <1>1
<1> QED
  BY <1>2 DEF AnswerEffect

\* The one owner of a call gives it up.
LEMMA OwnerLeaves ==
  ASSUME TypeInv, ClaimInv, NEW i \in Invoker, NEW c \in Call, Owns(i, c), NEW g,
         gateway' = [gateway EXCEPT ![i] = g], g.stage \notin {"claimed", "ready"}
  PROVE  MaySend(c) /\ ~MaySend(c)'
<1>1. DOMAIN gateway = Invoker
  BY DEF TypeInv, TypeOK
<1>2. \A j \in Invoker : gateway'[j] = IF j = i THEN g ELSE gateway[j]
  BY <1>1
<1>3. \A j \in Invoker : Owns(j, c) => j = i
  BY DEF ClaimInv
<1>4. \A j \in Invoker : ~Owns(j, c)'
  BY <1>2, <1>3 DEF Owns
<1> QED
  BY <1>4 DEF MaySend, Owns

\* The gateway's steps have these effects.
LEMMA InvokeEffects ==
  ASSUME CallInv, NEW i \in Invoker, NEW c \in Call, Invoke(i, c)
  PROVE  Effects
<1>1. At(i, "credential", c, None) /\ UNCHANGED <<stream, attempt, wire, recon>>
  BY DEF Invoke
<1>2. OwnerEffect /\ AnswerEffect
  BY <1>1, CallTypes, MovedTask, UnansweredTask DEF At
<1> QED
  BY <1>1, <1>2, NoEffect DEF Effects

\* The intent makes the task the owner of its call.
LEMMA RecordIntentEffects ==
  ASSUME CallInv, NEW i \in Invoker, RecordIntent(i)
  PROVE  Effects
<1> DEFINE c == gateway[i].call
<1>1. c \in Call /\ gateway[i].stage = "credential"
  BY CallTypes DEF RecordIntent
<1>2. UNCHANGED <<attempt, wire, recon>>
  BY DEF RecordIntent
<1>3. CASE Claimable(c)
  <2>1. AppendTo(c, Intent) /\ At(i, "claimed", c, None)
    BY <1>3 DEF RecordIntent, Intent
  <2>2. Claims(c)
    BY <1>2, <1>3, <2>1 DEF Claims
  <2>3. AnswerEffect
    BY <2>1, CallTypes, UnansweredTask DEF At
  <2>4. OwnerEffect
    <3>1. \A j \in Invoker : gateway'[j] =
            IF j = i THEN [stage |-> "claimed", call |-> c, outcome |-> None] ELSE gateway[j]
      BY <2>1, CallTypes DEF At
    <3>2. \A j \in Invoker, d \in Call : Owns(j, d)' => Owns(j, d) \/ d = c
      BY <3>1 DEF Owns
    <3> QED
      BY <2>2, <3>2 DEF OwnerEffect
  <2>5. StreamEffect
    <3>1. \A d \in Call \ {c} : stream'[d] = stream[d]
      BY <2>1, CallTypes DEF AppendTo
    <3> QED
      BY <2>2, <3>1 DEF StreamEffect
  <2> QED
    BY <1>2, <2>3, <2>4, <2>5, NoEffect DEF Effects
<1>4. CASE ~Claimable(c)
  <2>1. gateway' = [gateway EXCEPT ![i] = Idle] /\ UNCHANGED stream /\ Idle.stage = "idle"
    BY <1>4 DEF RecordIntent, Idle
  <2>2. OwnerEffect /\ AnswerEffect
    BY <2>1, CallTypes, MovedTask, UnansweredTask
  <2> QED
    BY <1>2, <2>1, <2>2, NoEffect DEF Effects
<1> QED
  BY <1>3, <1>4

\* A task that answers for its call while the wire rests.
LEMMA AnsweredTask ==
  ASSUME CallInv, NEW i \in Invoker, gateway[i].stage # "idle", NEW o \in Outcomes,
         At(i, "answered", gateway[i].call, o), UNCHANGED <<stream, attempt, wire, recon>>,
         Says(gateway[i].call, o)'
  PROVE  Effects
<1> DEFINE g == [stage |-> "answered", call |-> gateway[i].call, outcome |-> o]
<1>1. gateway' = [gateway EXCEPT ![i] = g] /\ g.stage = "answered"
  BY DEF At
<1>2. OwnerEffect
  <2> HIDE DEF g
  <2> QED
    BY <1>1, CallTypes, MovedTask
<1>3. \A j \in Invoker : gateway'[j] = IF j = i THEN g ELSE gateway[j]
  BY <1>1, CallTypes
<1>4. gateway'[i].call = gateway[i].call /\ gateway'[i].outcome = o
  BY <1>3
<1>5. Says(gateway[i].call, gateway[i].outcome)'
  BY <1>4
<1>6. AnswerEffect
  <2> HIDE DEF g
  <2> QED
    BY <1>3, <1>5 DEF AnswerEffect
<1> QED
  BY <1>2, <1>6, NoEffect DEF Effects

\* The request of a claimed call that its owner gives up was never sent.
LEMMA GivenUp ==
  ASSUME CallInv, NEW i \in Invoker, gateway[i].stage \in {"claimed", "ready"},
         NEW o \in Outcomes, At(i, "answered", gateway[i].call, o), UNCHANGED <<stream, wire>>
  PROVE  Gone(gateway[i].call)'
<1>1. PICK c \in Call : c = gateway[i].call
  BY CallTypes
<1>2. Owns(i, c) /\ MaySend(c)
  BY <1>1 DEF Owns, MaySend
<1>3. stream[c] # <<>> /\ wire[c].state = "none"
  BY <1>2, CallTypes DEF ClaimInv, CallInv, Fresh
<1>4. gateway' = [gateway EXCEPT ![i] = [stage |-> "answered", call |-> c, outcome |-> o]]
  BY <1>1 DEF At
<1>5. ~MaySend(c)'
  <2> DEFINE g == [stage |-> "answered", call |-> c, outcome |-> o]
  <2>1. g.stage \notin {"claimed", "ready"}
    OBVIOUS
  <2> HIDE DEF g
  <2> QED
    BY <1>2, <1>4, <2>1, CallTypes, OwnerLeaves DEF g
<1>6. Gone(c)'
  BY <1>3, <1>5 DEF Gone
<1>7. gateway'[i].call = c
  BY <1>4, CallTypes
<1> QED
  BY <1>6, <1>7

\* The call is read back, or given up as not sent.
LEMMA ReadBackEffects ==
  ASSUME CallInv, NEW i \in Invoker, ReadBack(i)
  PROVE  Effects
<1>1. gateway[i].stage = "claimed" /\ UNCHANGED <<stream, attempt, wire, recon>>
  BY DEF ReadBack
<1>2. CASE At(i, "ready", gateway[i].call, None)
  <2>1. OwnerEffect /\ AnswerEffect
    BY <1>1, <1>2, CallTypes, MovedTask, UnansweredTask DEF At
  <2> QED
    BY <1>1, <2>1, NoEffect DEF Effects
<1>3. CASE At(i, "answered", gateway[i].call, "not_sent")
  <2>1. "not_sent" \in Outcomes /\ gateway[i].stage \in {"claimed", "ready"}
    BY <1>1 DEF Outcomes
  <2>2. Gone(gateway[i].call)'
    BY <1>1, <1>3, <2>1, GivenUp
  <2>3. Says(gateway[i].call, "not_sent")'
    BY <2>2 DEF Says
  <2> QED
    BY <1>1, <1>3, <2>1, <2>3, AnsweredTask
<1> QED
  BY <1>2, <1>3 DEF ReadBack

\* A refusal gives up the call before it is handed over.
LEMMA TransportRefusesEffects ==
  ASSUME CallInv, NEW i \in Invoker, TransportRefuses(i)
  PROVE  Effects
<1>1. gateway[i].stage = "ready" /\ UNCHANGED <<stream, attempt, wire, recon>>
  BY DEF TransportRefuses
<1>2. PICK o \in {"not_sent", "unknown"} : At(i, "answered", gateway[i].call, o)
  BY DEF TransportRefuses
<1>3. o \in Outcomes /\ gateway[i].stage \in {"claimed", "ready"}
  BY <1>1 DEF Outcomes
<1>4. Gone(gateway[i].call)'
  BY <1>1, <1>2, <1>3, GivenUp
<1>5. Says(gateway[i].call, o)'
  BY <1>2, <1>4 DEF Says
<1> QED
  BY <1>1, <1>2, <1>3, <1>5, AnsweredTask

\* What the gateway makes of an answer is true when it is made.
LEMMA AnsweredEffects ==
  ASSUME CallInv, NEW i \in Invoker, Answered(i)
  PROVE  Effects
<1>1. gateway[i].stage = "waiting" /\ UNCHANGED <<stream, attempt, wire, recon>>
  BY DEF Answered
<1>2. PICK c \in Call : c = gateway[i].call
  BY <1>1, CallTypes
<1>3. PICK o \in Answers(wire[c].state) : At(i, "answered", c, o)
  BY <1>2 DEF Answered
<1>4. o \in Outcomes
  BY DEF Answers, Outcomes
<1>5. gateway'[i].call = c /\ gateway' = [gateway EXCEPT ![i] = [stage |-> "answered", call |-> c, outcome |-> o]]
  BY <1>3, CallTypes DEF At
<1>6. Says(c, o)'
  <2>1. o \in {"known_success", "known_failure"} => wire[c].state = "received"
    BY DEF Answers
  <2>2. o = "not_sent" => wire[c].state = "lost"
    BY DEF Answers
  <2>3. ASSUME o = "not_sent" PROVE Gone(c)'
    <3>1. stream[c] # <<>> /\ ~MaySend(c)
      BY <2>2, <2>3 DEF CallInv, Fresh
    <3>2. \A j \in Invoker : ~Owns(j, c)
      BY <3>1 DEF MaySend, Owns
    <3>3. \A j \in Invoker : gateway'[j] = gateway[j] \/ gateway'[j].stage = "answered"
      BY <1>5, CallTypes
    <3>4. ~MaySend(c)'
      BY <3>2, <3>3 DEF MaySend, Owns
    <3> QED
      BY <1>1, <2>2, <2>3, <3>1, <3>4 DEF Gone
  <2> QED
    BY <1>1, <2>1, <2>3 DEF Says
<1>7. Says(gateway[i].call, o)'
  BY <1>5, <1>6
<1> QED
  BY <1>1, <1>2, <1>3, <1>4, <1>7, AnsweredTask

\* The owner gives its call to the wire.
LEMMA TransmitEffects ==
  ASSUME CallInv, NEW i \in Invoker, Transmit(i)
  PROVE  Effects
<1>1. PICK c \in Call : c = gateway[i].call
  BY CallTypes DEF Transmit
<1>2. /\ Owns(i, c) /\ wire' = [wire EXCEPT ![c].state = "sending"]
      /\ gateway' = [gateway EXCEPT ![i] = [stage |-> "waiting", call |-> c, outcome |-> None]]
      /\ UNCHANGED <<stream, attempt, recon>>
  BY <1>1 DEF Transmit, At, Owns
<1>3. OwnerEffect /\ AnswerEffect
  BY <1>2, CallTypes, MovedTask, UnansweredTask
<1>4. MaySend(c) /\ ~MaySend(c)'
  <2> DEFINE g == [stage |-> "waiting", call |-> c, outcome |-> None]
  <2>1. g.stage \notin {"claimed", "ready"}
    OBVIOUS
  <2> HIDE DEF g
  <2> QED
    BY <1>2, <2>1, CallTypes, OwnerLeaves DEF g
<1>5. \A d \in Call \ {c} : wire'[d] = wire[d]
  BY <1>2, CallTypes
<1>6. WireEffect
  BY <1>4, <1>5 DEF WireEffect
<1> QED
  BY <1>2, <1>3, <1>6, NoEffect DEF Effects

\* An outcome is recorded after the intent only.
LEMMA RecordOutcomeEffects ==
  ASSUME CallInv, NEW i \in Invoker, RecordOutcome(i)
  PROVE  Effects
<1>1. PICK c \in Call : c = gateway[i].call
  BY CallTypes DEF RecordOutcome
<1>2. /\ gateway[i].stage = "answered" /\ gateway' = [gateway EXCEPT ![i] = Idle]
      /\ UNCHANGED <<attempt, wire, recon>> /\ Idle.stage = "idle"
  BY DEF RecordOutcome, Idle
<1>3. OwnerEffect /\ AnswerEffect
  BY <1>2, CallTypes, MovedTask, UnansweredTask
<1>4. \/ UNCHANGED stream
      \/ stream[c] = <<Intent>> /\ AppendTo(c, Outcome(gateway[i].outcome))
  BY <1>1 DEF RecordOutcome, Recordable, Intent, Outcome
<1>5. StreamEffect
  <2>1. CASE UNCHANGED stream
    BY <2>1, NoEffect
  <2>2. CASE stream[c] = <<Intent>> /\ AppendTo(c, Outcome(gateway[i].outcome))
    <3>1. Records(c, Outcome(gateway[i].outcome)) /\ \A d \in Call \ {c} : stream'[d] = stream[d]
      BY <2>2, CallTypes DEF AppendTo, Records
    <3> QED
      BY <1>1, <1>2, <2>2, <3>1 DEF StreamEffect
  <2> QED
    BY <1>4, <2>1, <2>2
<1> QED
  BY <1>2, <1>3, <1>5, NoEffect DEF Effects

\* A task that dies leaves no owner and no answer.
LEMMA GatewayCrashesEffects ==
  ASSUME CallInv, NEW i \in Invoker, GatewayCrashes(i)
  PROVE  Effects
<1>1. /\ gateway' = [gateway EXCEPT ![i] = Idle] /\ Idle.stage = "idle"
      /\ UNCHANGED <<stream, attempt, wire, recon>>
  BY DEF GatewayCrashes, Idle
<1>2. OwnerEffect /\ AnswerEffect
  BY <1>1, CallTypes, MovedTask, UnansweredTask
<1> QED
  BY <1>1, <1>2, NoEffect DEF Effects

\* The steps of a task together.
LEMMA GatewayEffects ==
  ASSUME CallInv, NEW i \in Invoker, Gateway(i)
  PROVE  Effects
BY InvokeEffects, RecordIntentEffects, ReadBackEffects, TransmitEffects, TransportRefusesEffects,
   AnsweredEffects, RecordOutcomeEffects, GatewayCrashesEffects DEF Gateway

\* So have the provider's and the network's.
LEMMA NetworkEffects ==
  ASSUME CallInv, NEW c \in Call, Receive(c) \/ SenderEnds(c) \/ Lose(c)
  PROVE  Effects
<1>1. wire[c].state \in {"sending", "arrived"} /\ \A d \in Call \ {c} : wire'[d] = wire[d]
  BY CallTypes DEF Receive, SenderEnds, Lose
<1>2. WireEffect
  BY <1>1 DEF WireEffect
<1>3. UNCHANGED <<stream, attempt, gateway, recon>>
  BY DEF Receive, SenderEnds, Lose
<1> QED
  BY <1>2, <1>3, NoEffect DEF Effects

\* The scheduler's steps have these effects.
LEMMA ReconcilesFirst ==
  ASSUME CallInv, NEW a \in Attempt, NEW f \in Figures, Reconcilable(a, f),
         attempt' = [attempt EXCEPT ![a] = Reconciled(@, f)], UNCHANGED <<gateway, wire>>
  PROVE  AttemptEffect /\ attempt'[a].figures = f
<1>1. attempt \in [Attempt -> Attempts]
  BY CallTypes
<1>2. attempt' = [attempt EXCEPT ![a] = Reconciled(attempt[a], f)]
  OBVIOUS
<1>3. attempt'[a] = Reconciled(attempt[a], f) /\ \A b \in Attempt \ {a} : attempt'[b] = attempt[b]
  BY <1>1, <1>2
<1>4. f # None
  BY CallAssumption
<1>5. CASE attempt[a].figures = None
  <2>1. attempt'[a] = [status |-> "failed", figures |-> f]
    BY <1>3, <1>5 DEF Reconciled
  <2>2. attempt[a].status = "outcome_unknown" /\ MayReconcile(a, f)
    BY <1>4, <1>5 DEF Reconcilable, SameReconciliation
  <2>3. Settled(a) /\ attempt'[a].figures = f
    BY <2>1, <2>2 DEF Settled
  <2> QED
    BY <1>3, <1>5, <2>2, <2>3 DEF AttemptEffect
<1>6. CASE attempt[a].figures # None
  <2>1. attempt'[a] = attempt[a] /\ attempt[a].figures = f
    BY <1>3, <1>6 DEF Reconciled, Reconcilable, SameReconciliation
  <2> QED
    BY <1>3, <2>1 DEF AttemptEffect
<1> QED
  BY <1>5, <1>6

\* The scheduler lets an attempt go by its rule.
LEMMA SchedulerEffects ==
  ASSUME CallInv, NEW a \in Attempt, Scheduler(a)
  PROVE  Effects
<1>1. UNCHANGED <<stream, wire, gateway, recon>>
  BY DEF Scheduler, MarkUnknown, Release, HostReconciles
<1>2. attempt \in [Attempt -> Attempts]
  BY CallTypes
<1>3. ASSUME NEW s, attempt[a].status = "accepted", attempt' = [attempt EXCEPT ![a].status = s]
      PROVE  /\ attempt'[a] = [status |-> s, figures |-> None]
             /\ \A b \in Attempt \ {a} : attempt'[b] = attempt[b]
  <2>1. attempt[a] \in Attempts /\ attempt[a].figures = None
    BY <1>2, <1>3 DEF Attempts
  <2>2. attempt' = [attempt EXCEPT ![a] = [attempt[a] EXCEPT !.status = s]]
    BY <1>3
  <2>3. [attempt[a] EXCEPT !.status = s] = [status |-> s, figures |-> None]
    BY <2>1 DEF Attempts
  <2> QED
    BY <1>2, <2>2, <2>3
<1>4. CASE MarkUnknown(a)
  <2>1. AttemptEffect
    BY <1>3, <1>4 DEF MarkUnknown, AttemptEffect
  <2> QED
    BY <1>1, <2>1, NoEffect DEF Effects
<1>5. ASSUME NEW s \in {"succeeded", "failed"}, Release(a, s)
      PROVE  Effects
  <2>1. attempt[a].status = "accepted" /\ MayRelease(a, s)
        /\ attempt' = [attempt EXCEPT ![a].status = s]
    BY <1>5 DEF Release
  <2>2. Released(a)
    BY <1>3, <2>1 DEF Released
  <2>3. AttemptEffect
    BY <1>1, <1>3, <2>1, <2>2 DEF AttemptEffect
  <2> QED
    BY <1>1, <2>3, NoEffect DEF Effects
<1>6. ASSUME NEW u \in Usage \cup {None}, NEW t \in Time, HostReconciles(a, u, t)
      PROVE  Effects
  <2> DEFINE f == [call |-> None, usage |-> u, at |-> t]
  <2>1. f \in Figures
    BY DEF Figures
  <2>2. Reconcilable(a, f) /\ attempt' = [attempt EXCEPT ![a] = Reconciled(@, f)]
    BY <1>6 DEF HostReconciles
  <2> HIDE DEF f
  <2>3. AttemptEffect
    BY <1>1, <2>1, <2>2, ReconcilesFirst
  <2> QED
    BY <1>1, <2>3, NoEffect DEF Effects
<1> QED
  BY <1>4, <1>5, <1>6 DEF Scheduler

\* So have the steps of reconciliation.
\* A host call that moves on and stands on firm ground.
LEMMA MovedRecon ==
  ASSUME CallInv, NEW r \in Reconciler, NEW g, recon' = [recon EXCEPT ![r] = g], Grounded(r)'
  PROVE  ReconEffect
<1>1. \A q \in Reconciler : q = r \/ recon'[q] = recon[q]
  BY CallTypes
<1> QED
  BY <1>1 DEF ReconEffect

\* A host call that ends has nothing to account for.
LEMMA RestingRecon ==
  ASSUME CallInv, NEW r \in Reconciler, recon' = [recon EXCEPT ![r] = Resting]
  PROVE  ReconEffect
<1>1. recon'[r].stage = "idle"
  BY CallTypes DEF Resting
<1>2. Grounded(r)'
  BY <1>1 DEF Grounded
<1> QED
  BY <1>2, MovedRecon

\* What Grounded says of a host call about c.
LEMMA GroundedAt ==
  ASSUME CallInv, NEW r \in Reconciler, NEW c \in Call, recon[r].call = c
  PROVE  /\ recon[r].stage # "idle" => stream[c] # <<>> /\ Parked(AttemptOf[c])
         /\ recon[r].stage = "verified" => Proved(c, recon[r].proof)
         /\ recon[r].stage \in {"persisted", "settled"} => recon[r].proof \in ProofsOf(c)
         /\ recon[r].stage = "settled" =>
              attempt[AttemptOf[c]].figures = FiguresOf(c, recon[r].proof)
BY DEF CallInv, Settling, Grounded

\* A reconciliation starts on a call whose attempt is unknown.
LEMMA ReadCallEffects ==
  ASSUME CallInv, NEW r \in Reconciler, NEW c \in Call, ReadCall(r, c)
  PROVE  Effects
<1>1. /\ To(r, "checked", c, None) /\ UNCHANGED <<stream, attempt, wire, gateway>>
      /\ Unresolved(c) /\ attempt[AttemptOf[c]].status = "outcome_unknown"
  BY DEF ReadCall, Checkable
<1>2. stream[c] # <<>> /\ Parked(AttemptOf[c])
  BY <1>1 DEF Unresolved, Status, Parked
<1>3. recon'[r].call = c /\ recon'[r].stage = "checked"
  BY <1>1, CallTypes DEF To
<1>4. stream'[c] # <<>> /\ Parked(AttemptOf[c])'
  BY <1>1, <1>2 DEF Parked
<1>5. Grounded(r)'
  BY <1>3, <1>4 DEF Grounded
<1>6. ReconEffect
  BY <1>1, <1>5, MovedRecon DEF To
<1> QED
  BY <1>1, <1>6, NoEffect DEF Effects

\* A replayed proof is one the journal has.
LEMMA ReplayEffects ==
  ASSUME CallInv, NEW r \in Reconciler, NEW c \in Call, Replay(r, c)
  PROVE  Effects
<1>1. /\ To(r, "persisted", c, ProofOf(c)) /\ UNCHANGED <<stream, attempt, wire, gateway>>
      /\ Pending(c)
  BY DEF Replay
<1>2. PICK p \in Proofs : ProvedStream(c, p)
  BY <1>1, PendingStream DEF CallInv
<1>3. ProofsOf(c) = {p} /\ ProofOf(c) = p
  BY <1>2, ProvedReads
<1>4. stream[c] # <<>> /\ Parked(AttemptOf[c])
  BY <1>2, <1>3 DEF CallInv, Settling, ProvedStream
<1>5. recon'[r].call = c /\ recon'[r].stage = "persisted" /\ recon'[r].proof = p
  BY <1>1, <1>3, CallTypes DEF To
<1>6. stream'[c] # <<>> /\ Parked(AttemptOf[c])' /\ ProofsOf(c)' = {p}
  BY <1>1, <1>3, <1>4 DEF Parked, ProofsOf, Log
<1>7. Grounded(r)'
  BY <1>5, <1>6 DEF Grounded
<1>8. ReconEffect
  BY <1>1, <1>7, MovedRecon DEF To
<1> QED
  BY <1>1, <1>8, NoEffect DEF Effects

\* A verified proof is true when it is verified.
LEMMA VerifyEffects ==
  ASSUME CallInv, NEW r \in Reconciler, Verify(r)
  PROVE  Effects
<1>1. PICK c \in Call : c = recon[r].call
  BY CallTypes DEF Verify
<1>2. recon[r].stage = "checked" /\ Terminated(c) /\ UNCHANGED <<stream, attempt, wire, gateway>>
  BY <1>1 DEF Verify
<1>3. PICK p \in Evidence(c) : To(r, "verified", c, p)
  BY <1>1 DEF Verify
<1>4. stream[c] # <<>> /\ Parked(AttemptOf[c])
  BY <1>1, <1>2, GroundedAt
<1>5. Proved(c, p)
  BY <1>2, <1>3, <1>4 DEF Evidence, Terminated, Proved, Gone
<1>6. recon'[r].call = c /\ recon'[r].stage = "verified" /\ recon'[r].proof = p
  BY <1>3, CallTypes DEF To
<1>7. stream'[c] # <<>> /\ Parked(AttemptOf[c])' /\ Proved(c, p)'
  BY <1>2, <1>4, <1>5 DEF Parked, Proved, Gone, MaySend
<1>8. Grounded(r)'
  BY <1>6, <1>7 DEF Grounded
<1>9. ReconEffect
  BY <1>3, <1>8, MovedRecon DEF To
<1> QED
  BY <1>2, <1>9, NoEffect DEF Effects

\* The log of a call after an append to its stream.
LEMMA AppendLog ==
  ASSUME stream \in [Call -> Seq(Events)], NEW c \in Call, NEW e \in Events, Records(c, e)
  PROVE  Log(c)' = Log(c) \cup {e} /\ stream'[c] # <<>>
<1>1. stream[c] \in Seq(Events)
  OBVIOUS
<1>2. Range(Append(stream[c], e)) = Range(stream[c]) \cup {e} /\ Append(stream[c], e) # <<>>
  BY <1>1, AppendRange
<1> QED
  BY <1>2 DEF Log, Records

\* What the journal appends are events.
LEMMA KindsOfEvents ==
  /\ Intent \in Events /\ Marker \in Events
  /\ \A o \in Outcomes : Outcome(o) \in Events
  /\ \A p \in Proofs : Proof(p) \in Events
BY EventsType DEF Intent, Marker, Outcome, Proof

\* A proof follows an unresolved call only.
LEMMA PersistEffects ==
  ASSUME CallInv, NEW r \in Reconciler, Persist(r)
  PROVE  Effects
<1>1. PICK c \in Call : c = recon[r].call
  BY CallTypes DEF Persist
<1>2. PICK p \in Proofs : p = recon[r].proof
  BY CallTypes DEF Persist
<1>3. recon[r].stage = "verified" /\ UNCHANGED <<attempt, wire, gateway>>
  BY DEF Persist
<1>4. stream[c] # <<>> /\ Parked(AttemptOf[c]) /\ Parked(AttemptOf[c])'
  BY <1>1, <1>3, GroundedAt DEF Parked
<1>5. CASE Provable(c)
  <2>1. Unresolved(c) /\ AppendTo(c, Proof(p)) /\ To(r, "persisted", c, p)
    BY <1>1, <1>2, <1>5 DEF Persist, Provable, Proof
  <2>2. Records(c, Proof(p)) /\ \A d \in Call \ {c} : stream'[d] = stream[d]
    BY <2>1, CallTypes DEF AppendTo, Records
  <2>3. Log(c)' = Log(c) \cup {Proof(p)} /\ stream'[c] # <<>>
    BY <2>2, CallTypes, AppendLog, KindsOfEvents
  <2>4. p \in ProofsOf(c)'
    BY <2>3 DEF ProofsOf, Proof
  <2>5. recon'[r].call = c /\ recon'[r].stage = "persisted" /\ recon'[r].proof = p
    BY <2>1, CallTypes DEF To
  <2>6. Grounded(r)'
    BY <1>4, <2>3, <2>4, <2>5 DEF Grounded
  <2>7. ReconEffect
    BY <2>1, <2>6, MovedRecon DEF To
  <2>8. StreamEffect
    BY <1>1, <1>2, <1>3, <2>1, <2>2 DEF StreamEffect
  <2> QED
    BY <1>3, <2>7, <2>8, NoEffect DEF Effects
<1>6. CASE ~Provable(c) /\ p \in ProofsOf(c)
  <2>1. To(r, "persisted", c, p) /\ UNCHANGED stream
    BY <1>1, <1>2, <1>6 DEF Persist
  <2>2. recon'[r].call = c /\ recon'[r].stage = "persisted" /\ recon'[r].proof = p
    BY <2>1, CallTypes DEF To
  <2>3. stream'[c] # <<>> /\ ProofsOf(c)' = ProofsOf(c)
    BY <1>4, <2>1 DEF ProofsOf, Log
  <2>4. Grounded(r)'
    BY <1>4, <1>6, <2>2, <2>3 DEF Grounded
  <2>5. ReconEffect
    BY <2>1, <2>4, MovedRecon DEF To
  <2> QED
    BY <1>3, <2>1, <2>5, NoEffect DEF Effects
<1>7. CASE ~Provable(c) /\ p \notin ProofsOf(c)
  <2>1. recon' = [recon EXCEPT ![r] = Resting] /\ UNCHANGED stream
    BY <1>1, <1>2, <1>7 DEF Persist
  <2> QED
    BY <1>3, <2>1, RestingRecon, NoEffect DEF Effects
<1> QED
  BY <1>5, <1>6, <1>7

\* A settlement gives the attempt the figures of the proof.
LEMMA SettleAttemptEffects ==
  ASSUME CallInv, NEW r \in Reconciler, SettleAttempt(r)
  PROVE  Effects
<1>1. PICK c \in Call : c = recon[r].call
  BY CallTypes DEF SettleAttempt
<1>2. PICK p \in Proofs : p = recon[r].proof
  BY CallTypes DEF SettleAttempt
<1>3. PICK f \in Figures : f = FiguresOf(c, p)
  BY FiguresType
<1>4. PICK a \in Attempt : a = AttemptOf[c]
  BY CallTypes
<1>5. recon[r].stage = "persisted" /\ UNCHANGED <<stream, wire, gateway>>
  BY DEF SettleAttempt
<1>6. stream[c] # <<>> /\ Parked(a) /\ p \in ProofsOf(c)
  BY <1>1, <1>2, <1>4, <1>5, GroundedAt
<1>7. CASE Reconcilable(a, f)
  <2>1. /\ attempt' = [attempt EXCEPT ![a] = Reconciled(@, f)]
        /\ To(r, "settled", c, p)
    BY <1>1, <1>2, <1>3, <1>4, <1>7 DEF SettleAttempt
  <2>2. AttemptEffect /\ attempt'[a].figures = f
    BY <1>5, <1>7, <2>1, ReconcilesFirst
  <2>3. Parked(a)'
    <3>1. f # None
      BY CallAssumption
    <3> QED
      BY <2>2, <3>1 DEF Parked
  <2>4. recon'[r].call = c /\ recon'[r].stage = "settled" /\ recon'[r].proof = p
    BY <2>1, CallTypes DEF To
  <2>5. stream'[c] # <<>> /\ ProofsOf(c)' = ProofsOf(c)
    BY <1>5, <1>6 DEF ProofsOf, Log
  <2>6. Grounded(r)'
    BY <1>3, <1>4, <1>6, <2>2, <2>3, <2>4, <2>5 DEF Grounded
  <2>7. ReconEffect
    BY <2>1, <2>6, MovedRecon DEF To
  <2> QED
    BY <1>5, <2>2, <2>7, NoEffect DEF Effects
<1>8. CASE ~Reconcilable(a, f)
  <2>1. recon' = [recon EXCEPT ![r] = Resting] /\ UNCHANGED attempt
    BY <1>1, <1>2, <1>3, <1>4, <1>8 DEF SettleAttempt
  <2> QED
    BY <1>5, <2>1, RestingRecon, NoEffect DEF Effects
<1> QED
  BY <1>7, <1>8

\* The marker follows the settlement of the proof.
LEMMA MarkEffects ==
  ASSUME CallInv, NEW r \in Reconciler, Mark(r)
  PROVE  Effects
<1>1. PICK c \in Call : c = recon[r].call
  BY CallTypes DEF Mark
<1>2. PICK p \in Proofs : p = recon[r].proof
  BY CallTypes DEF Mark
<1>3. /\ recon[r].stage = "settled" /\ recon' = [recon EXCEPT ![r] = Resting]
      /\ UNCHANGED <<attempt, wire, gateway>>
  BY DEF Mark
<1>4. p \in ProofsOf(c) /\ attempt[AttemptOf[c]].figures = FiguresOf(c, p)
  BY <1>1, <1>2, <1>3, GroundedAt
<1>5. StreamEffect
  <2>1. CASE Pending(c)
    <3>1. AppendTo(c, Marker)
      BY <1>1, <2>1 DEF Mark, Markable, Marker
    <3>2. Records(c, Marker) /\ \A d \in Call \ {c} : stream'[d] = stream[d]
      BY <3>1, CallTypes DEF AppendTo, Records
    <3>3. PICK q \in Proofs : ProvedStream(c, q)
      BY <2>1, PendingStream DEF CallInv
    <3>4. ProofOf(c) = p
      BY <1>4, <3>3, ProvedReads
    <3> QED
      BY <1>3, <1>4, <2>1, <3>2, <3>4 DEF StreamEffect
  <2>2. CASE ~Pending(c)
    BY <1>1, <2>2, NoEffect DEF Mark, Markable
  <2> QED
    BY <2>1, <2>2
<1> QED
  BY <1>3, <1>5, RestingRecon, NoEffect DEF Effects

\* The steps of a reconciliation together.
LEMMA ReconcilingEffects ==
  ASSUME CallInv, NEW r \in Reconciler, Reconciling(r)
  PROVE  Effects
<1>1. CASE ReconcilerStops(r)
  <2>1. recon' = [recon EXCEPT ![r] = Resting] /\ UNCHANGED <<stream, attempt, wire, gateway>>
    BY <1>1 DEF ReconcilerStops
  <2> QED
    BY <2>1, RestingRecon, NoEffect DEF Effects
<1> QED
  BY <1>1, ReadCallEffects, ReplayEffects, VerifyEffects, PersistEffects, SettleAttemptEffects,
     MarkEffects DEF Reconciling

\* So has startup, which settles every pending call at once.
LEMMA StartupEffects ==
  ASSUME CallInv, Startup
  PROVE  Effects
<1>1. UNCHANGED <<wire, gateway, recon>> /\ SettlementsApply
  BY DEF Startup, Startable
<1>2. ASSUME NEW a \in Attempt, NEW d \in PendingOf(a)
      PROVE  \E f \in Figures :
               /\ f = FiguresOf(d, ProofOf(d)) /\ Reconcilable(a, f)
               /\ attempt'[a] = Reconciled(attempt[a], f)
  <2> DEFINE c == CHOOSE x \in PendingOf(a) : TRUE
  <2>1. c \in PendingOf(a)
    BY <1>2
  <2>2. /\ c \in Call /\ AttemptOf[c] = a /\ Pending(c)
        /\ d \in Call /\ AttemptOf[d] = a /\ Pending(d)
    BY <1>2, <2>1 DEF PendingOf, CallsOf
  <2>3. attempt'[a] = Reconciled(attempt[a], FiguresOf(c, ProofOf(c)))
    BY <1>2 DEF Startup, AfterSettlements
  <2> HIDE DEF c
  <2>4. FiguresOf(d, ProofOf(d)) = FiguresOf(c, ProofOf(c))
        /\ Reconcilable(a, FiguresOf(d, ProofOf(d)))
    BY <1>1, <1>2, <2>2 DEF SettlementsApply
  <2>5. FiguresOf(d, ProofOf(d)) \in Figures
    BY <2>2, PendingProof, FiguresType
  <2> QED
    BY <2>3, <2>4, <2>5
<1>3. AttemptEffect
  <2>1. ASSUME NEW a \in Attempt, attempt'[a] # attempt[a]
        PROVE  /\ attempt[a].status = "outcome_unknown" /\ attempt[a].figures = None
               /\ Settled(a)
    <3>1. PendingOf(a) # {}
      BY <2>1 DEF Startup, AfterSettlements
    <3>2. PICK d \in PendingOf(a) : TRUE
      BY <3>1
    <3>3. PICK f \in Figures : Reconcilable(a, f) /\ attempt'[a] = Reconciled(attempt[a], f)
      BY <1>2
    <3>4. attempt[a].figures = None /\ f # None
      BY <2>1, <3>3, CallAssumption DEF Reconciled
    <3>5. attempt'[a] = [status |-> "failed", figures |-> f]
      BY <3>3, <3>4 DEF Reconciled
    <3>6. attempt[a].status = "outcome_unknown" /\ MayReconcile(a, f)
      BY <3>3, <3>4 DEF Reconcilable, SameReconciliation
    <3> QED
      BY <3>4, <3>5, <3>6 DEF Settled
  <2> QED
    BY <1>1, <2>1 DEF AttemptEffect
<1>4. StreamEffect
  <2>1. ASSUME NEW c \in Call, Pending(c)
        PROVE  Records(c, Marker) /\ attempt'[AttemptOf[c]].figures = FiguresOf(c, ProofOf(c))
    <3>1. Records(c, Marker)
      BY <2>1 DEF Startup, Records, Marker
    <3>2. c \in PendingOf(AttemptOf[c]) /\ AttemptOf[c] \in Attempt
      BY <2>1, CallTypes DEF PendingOf, CallsOf
    <3>3. PICK f \in Figures :
            /\ f = FiguresOf(c, ProofOf(c)) /\ Reconcilable(AttemptOf[c], f)
            /\ attempt'[AttemptOf[c]] = Reconciled(attempt[AttemptOf[c]], f)
      BY <1>2, <3>2
    <3>4. Reconciled(attempt[AttemptOf[c]], f).figures = f
      BY <3>3 DEF Reconciled, Reconcilable, SameReconciliation
    <3> QED
      BY <3>1, <3>3, <3>4
  <2>2. \A c \in Call : ~Pending(c) => stream'[c] = stream[c]
    BY DEF Startup
  <2> QED
    BY <2>1, <2>2 DEF StreamEffect
<1> QED
  BY <1>1, <1>3, <1>4, NoEffect DEF Effects

\* Every step has these effects.
LEMMA StepEffects ==
  ASSUME CallInv, Next
  PROVE  Effects
BY GatewayEffects, NetworkEffects, SchedulerEffects, ReconcilingEffects, StartupEffects DEF Next

-----------------------------------------------------------------------------
\* What such a step leaves as it was.

\* A stream stays or gets one event.
LEMMA StreamStays ==
  ASSUME CallInv, StreamEffect, NEW c \in Call
  PROVE  \/ stream'[c] = stream[c]
         \/ \E e \in Events : Records(c, e)
<1>1. Claims(c) => Records(c, Intent)
  BY CallTypes DEF Claims, AppendTo, Records
<1>2. \A i \in Invoker : gateway[i].stage = "answered" => Outcome(gateway[i].outcome) \in Events
  BY CallTypes, KindsOfEvents
<1>3. \A r \in Reconciler : recon[r].stage = "verified" => Proof(recon[r].proof) \in Events
  BY CallTypes, KindsOfEvents
<1> QED
  BY <1>1, <1>2, <1>3, KindsOfEvents DEF StreamEffect

\* Nothing is taken out of a stream.
LEMMA LogStays ==
  ASSUME CallInv, StreamEffect, NEW c \in Call
  PROVE  /\ Log(c) \subseteq Log(c)'
         /\ stream[c] # <<>> => stream'[c] # <<>>
         /\ OutcomesOf(c) \subseteq OutcomesOf(c)' /\ ProofsOf(c) \subseteq ProofsOf(c)'
<1>1. CASE stream'[c] = stream[c]
  BY <1>1 DEF Log, OutcomesOf, ProofsOf
<1>2. CASE \E e \in Events : Records(c, e)
  <2>1. Log(c) \subseteq Log(c)' /\ stream'[c] # <<>>
    BY <1>2, CallTypes, AppendLog
  <2> QED
    BY <2>1 DEF OutcomesOf, ProofsOf
<1> QED
  BY <1>1, <1>2, StreamStays

\* Only a claim makes a task that may send.
LEMMA NoNewSender ==
  ASSUME OwnerEffect, NEW c \in Call, ~Claims(c), MaySend(c)'
  PROVE  MaySend(c)
<1>1. PICK i \in Invoker : Owns(i, c)'
  BY DEF MaySend, Owns
<1>2. Owns(i, c)
  BY <1>1 DEF OwnerEffect
<1> QED
  BY <1>2 DEF MaySend, Owns

\* A request without a sender stays where it is.
LEMMA WireStays ==
  ASSUME WireEffect, NEW c \in Call, ~MaySend(c), wire[c].state \notin {"sending", "arrived"}
  PROVE  wire'[c] = wire[c]
BY DEF WireEffect

\* A request that cannot arrive any more never will.
LEMMA GoneStays ==
  ASSUME CallInv, Effects, NEW c \in Call, Gone(c)
  PROVE  Gone(c)'
<1>1. stream[c] # <<>> /\ ~MaySend(c) /\ wire[c].state \in {"none", "lost"}
  BY DEF Gone
<1>2. stream'[c] # <<>> /\ ~Claims(c)
  BY <1>1, LogStays DEF Effects, Claims, Claimable
<1>3. ~MaySend(c)'
  BY <1>1, <1>2, NoNewSender DEF Effects
<1>4. wire'[c] = wire[c]
  BY <1>1, WireStays DEF Effects
<1> QED
  BY <1>1, <1>2, <1>3, <1>4 DEF Gone

\* A response that was received stays received.
LEMMA ReceivedStays ==
  ASSUME CallInv, Effects, NEW c \in Call, wire[c].state = "received"
  PROVE  wire'[c] = wire[c]
<1>1. ~MaySend(c)
  BY DEF CallInv, Fresh
<1> QED
  BY <1>1, WireStays DEF Effects

\* What was true of a call when it was said stays true.
LEMMA SaysStays ==
  ASSUME CallInv, Effects, NEW c \in Call
  PROVE  /\ \A o \in Outcomes : Says(c, o) => Says(c, o)'
         /\ \A p \in Proofs : Proved(c, p) => Proved(c, p)'
<1>1. Gone(c) => Gone(c)'
  BY GoneStays
<1>2. wire[c].state = "received" => wire'[c] = wire[c]
  BY ReceivedStays
<1> QED
  BY <1>1, <1>2 DEF Says, Proved

\* Figures are given once, and an attempt does not become accepted again.
LEMMA AttemptStays ==
  ASSUME CallInv, AttemptEffect, NEW a \in Attempt
  PROVE  /\ attempt[a].figures # None => attempt'[a].figures = attempt[a].figures
         /\ Parked(a) => Parked(a)'
         /\ attempt[a].status # "accepted" => attempt'[a].status # "accepted"
<1>1. attempt[a] \in Attempts
  BY CallTypes
<1>2. attempt[a].figures # None => attempt[a].status = "failed"
  BY <1>1 DEF Attempts
<1>3. attempt[a].figures # None => attempt'[a] = attempt[a]
  BY <1>2 DEF AttemptEffect
<1>4. ASSUME attempt[a].status = "outcome_unknown", attempt[a].figures = None
      PROVE  Parked(a)' /\ attempt'[a].status # "accepted"
  <2>1. attempt'[a] = attempt[a] \/ Settled(a)
    BY <1>4 DEF AttemptEffect
  <2>2. ASSUME Settled(a) PROVE attempt'[a].status = "failed" /\ attempt'[a].figures # None
    <3>1. PICK f \in Figures : attempt'[a] = [status |-> "failed", figures |-> f]
      BY <2>2 DEF Settled
    <3>2. f # None
      BY CallAssumption
    <3> QED
      BY <3>1, <3>2
  <2> QED
    BY <1>4, <2>1, <2>2 DEF Parked
<1>5. ASSUME attempt[a].status \notin {"accepted", "outcome_unknown"}
      PROVE  attempt'[a] = attempt[a]
  BY <1>5 DEF AttemptEffect
<1> QED
  BY <1>3, <1>4, <1>5 DEF Parked

-----------------------------------------------------------------------------
\* The parts of the invariant, one by one.

\* Nothing is sent for a call before it is handed over.
LEMMA FreshStep ==
  ASSUME CallInv, Effects
  PROVE  Fresh'
<1> SUFFICES ASSUME NEW c \in Call, stream'[c] = <<>> \/ MaySend(c)'
             PROVE  wire'[c].state = "none"
  BY DEF Fresh
<1>1. CASE Claims(c)
  BY <1>1 DEF Claims, Claimable, CallInv, Fresh
<1>2. CASE ~Claims(c)
  <2>1. stream[c] = <<>> \/ MaySend(c)
    BY <1>2, LogStays, NoNewSender DEF Effects
  <2>2. wire[c].state = "none"
    BY <2>1 DEF CallInv, Fresh
  <2>3. stream[c] = <<>> => ~MaySend(c)
    BY CallTypes DEF ClaimInv, MaySend, Owns
  <2>4. stream'[c] = <<>> => stream[c] = <<>>
    BY LogStays DEF Effects
  <2>5. ~(MaySend(c) /\ ~MaySend(c)')
    BY <2>3, <2>4
  <2>6. wire'[c] = wire[c]
    BY <2>2, <2>5 DEF Effects, WireEffect
  <2> QED
    BY <2>2, <2>6
<1> QED
  BY <1>1, <1>2

\* A proof of a call, or an outcome, is new only where it is recorded.
LEMMA NewEvents ==
  ASSUME CallInv, StreamEffect, NEW c \in Call
  PROVE  /\ \A o \in OutcomesOf(c)' \ OutcomesOf(c) : \E i \in Invoker :
              /\ gateway[i].stage = "answered" /\ gateway[i].call = c /\ gateway[i].outcome = o
              /\ stream[c] = <<Intent>> /\ Records(c, Outcome(o))
         /\ \A p \in ProofsOf(c)' \ ProofsOf(c) : \E r \in Reconciler :
              /\ recon[r].stage = "verified" /\ recon[r].call = c /\ recon[r].proof = p
              /\ Unresolved(c) /\ Records(c, Proof(p))
<1> USE EventsDiffer
<1> HIDE DEF Intent, Outcome, Proof, Marker
<1>1. /\ OutcomesOf(c) = {o \in Outcomes : Outcome(o) \in Log(c)}
      /\ ProofsOf(c) = {p \in Proofs : Proof(p) \in Log(c)}
      /\ OutcomesOf(c)' = {o \in Outcomes : Outcome(o) \in Log(c)'}
      /\ ProofsOf(c)' = {p \in Proofs : Proof(p) \in Log(c)'}
  BY DEF OutcomesOf, ProofsOf, Outcome, Proof
<1>2. CASE stream'[c] = stream[c]
  <2>1. Log(c)' = Log(c)
    BY <1>2 DEF Log
  <2> QED
    BY <1>1, <2>1
<1>3. ASSUME NEW e \in {Intent, Marker}, Records(c, e)
      PROVE  OutcomesOf(c)' = OutcomesOf(c) /\ ProofsOf(c)' = ProofsOf(c)
  <2>1. Log(c)' = Log(c) \cup {e}
    BY <1>3, CallTypes, AppendLog, KindsOfEvents
  <2> QED
    BY <1>1, <2>1
<1>4. ASSUME NEW x \in Outcomes, Records(c, Outcome(x))
      PROVE  OutcomesOf(c)' = OutcomesOf(c) \cup {x} /\ ProofsOf(c)' = ProofsOf(c)
  <2>1. Log(c)' = Log(c) \cup {Outcome(x)}
    BY <1>4, CallTypes, AppendLog, KindsOfEvents
  <2> QED
    BY <1>1, <2>1
<1>5. ASSUME NEW q \in Proofs, Records(c, Proof(q))
      PROVE  OutcomesOf(c)' = OutcomesOf(c) /\ ProofsOf(c)' = ProofsOf(c) \cup {q}
  <2>1. Log(c)' = Log(c) \cup {Proof(q)}
    BY <1>5, CallTypes, AppendLog, KindsOfEvents
  <2> QED
    BY <1>1, <2>1
<1>6. Claims(c) => Records(c, Intent)
  BY CallTypes DEF Claims, AppendTo, Records
<1>7. ASSUME NEW i \in Invoker, gateway[i].stage = "answered", gateway[i].call = c,
             stream[c] = <<Intent>>, Records(c, Outcome(gateway[i].outcome))
      PROVE  /\ OutcomesOf(c)' = OutcomesOf(c) \cup {gateway[i].outcome}
             /\ ProofsOf(c)' = ProofsOf(c)
  BY <1>4, <1>7, CallTypes
<1>8. ASSUME NEW r \in Reconciler, recon[r].stage = "verified", recon[r].call = c,
             Unresolved(c), Records(c, Proof(recon[r].proof))
      PROVE  /\ OutcomesOf(c)' = OutcomesOf(c)
             /\ ProofsOf(c)' = ProofsOf(c) \cup {recon[r].proof}
  BY <1>5, <1>8, CallTypes
<1>9. CASE Records(c, Intent) \/ Records(c, Marker)
  <2>1. OutcomesOf(c)' = OutcomesOf(c) /\ ProofsOf(c)' = ProofsOf(c)
    BY <1>3, <1>9
  <2> QED
    BY <2>1
<1>10. CASE \E i \in Invoker :
              /\ gateway[i].stage = "answered" /\ gateway[i].call = c
              /\ stream[c] = <<Intent>> /\ Records(c, Outcome(gateway[i].outcome))
  <2>1. PICK i \in Invoker :
          /\ gateway[i].stage = "answered" /\ gateway[i].call = c
          /\ stream[c] = <<Intent>> /\ Records(c, Outcome(gateway[i].outcome))
    BY <1>10
  <2>2. /\ OutcomesOf(c)' = OutcomesOf(c) \cup {gateway[i].outcome}
        /\ ProofsOf(c)' = ProofsOf(c)
    BY <1>7, <2>1
  <2> QED
    BY <2>1, <2>2
<1>11. CASE \E r \in Reconciler :
              /\ recon[r].stage = "verified" /\ recon[r].call = c
              /\ Unresolved(c) /\ Records(c, Proof(recon[r].proof))
  <2>1. PICK r \in Reconciler :
          /\ recon[r].stage = "verified" /\ recon[r].call = c
          /\ Unresolved(c) /\ Records(c, Proof(recon[r].proof))
    BY <1>11
  <2>2. /\ OutcomesOf(c)' = OutcomesOf(c)
        /\ ProofsOf(c)' = ProofsOf(c) \cup {recon[r].proof}
    BY <1>8, <2>1
  <2> QED
    BY <2>1, <2>2
<1> QED
  BY <1>2, <1>6, <1>9, <1>10, <1>11 DEF StreamEffect

\* What is recorded was true when it was found, and stays true.
LEMMA TruthfulStep ==
  ASSUME CallInv, Effects
  PROVE  Truthful'
<1>1. ASSUME NEW i \in Invoker, gateway'[i].stage = "answered"
      PROVE  Says(gateway[i].call, gateway[i].outcome)'
  <2>1. CASE gateway'[i] = gateway[i]
    <3>1. PICK c \in Call : c = gateway[i].call
      BY <1>1, <2>1, CallTypes
    <3>2. PICK o \in Outcomes : o = gateway[i].outcome
      BY <1>1, <2>1, CallTypes
    <3>3. Says(c, o)
      BY <1>1, <2>1, <3>1, <3>2 DEF CallInv, Truthful
    <3>4. Says(c, o)'
      BY <3>3, SaysStays
    <3> QED
      BY <2>1, <3>1, <3>2, <3>4
  <2>2. CASE gateway'[i] # gateway[i]
    BY <1>1, <2>2 DEF Effects, AnswerEffect
  <2> QED
    BY <2>1, <2>2
<1>2. ASSUME NEW c \in Call, NEW o \in OutcomesOf(c)'
      PROVE  Says(c, o)'
  <2>1. o \in Outcomes
    BY <1>2 DEF OutcomesOf
  <2>2. Says(c, o)
    <3>1. CASE o \in OutcomesOf(c)
      BY <3>1 DEF CallInv, Truthful
    <3>2. CASE o \notin OutcomesOf(c)
      <4>1. PICK i \in Invoker :
              gateway[i].stage = "answered" /\ gateway[i].call = c /\ gateway[i].outcome = o
        BY <1>2, <3>2, NewEvents DEF Effects
      <4> QED
        BY <4>1 DEF CallInv, Truthful
    <3> QED
      BY <3>1, <3>2
  <2> QED
    BY <2>1, <2>2, SaysStays
<1>3. ASSUME NEW c \in Call, NEW p \in ProofsOf(c)'
      PROVE  Proved(c, p)'
  <2>1. p \in Proofs
    BY <1>3 DEF ProofsOf
  <2>2. Proved(c, p)
    <3>1. CASE p \in ProofsOf(c)
      BY <3>1 DEF CallInv, Truthful
    <3>2. CASE p \notin ProofsOf(c)
      <4>1. PICK r \in Reconciler :
              recon[r].stage = "verified" /\ recon[r].call = c /\ recon[r].proof = p
        BY <1>3, <3>2, NewEvents DEF Effects
      <4> QED
        BY <4>1, GroundedAt
    <3> QED
      BY <3>1, <3>2
  <2> QED
    BY <2>1, <2>2, SaysStays
<1> QED
  BY <1>1, <1>2, <1>3 DEF Truthful

\* The streams of the journal, event by event.
LEMMA Appends ==
  \A a, b, x, y :
    /\ Append(<<a>>, b) = <<a, b>> /\ Append(<<a, b>>, x) = <<a, b, x>>
    /\ Append(<<a, b, x>>, y) = <<a, b, x, y>>
<1> TAKE a, b, x, y
<1>1. PICK S : a \in S /\ b \in S /\ x \in S /\ y \in S
  <2>1. /\ a \in {a, b, x, y} /\ b \in {a, b, x, y}
        /\ x \in {a, b, x, y} /\ y \in {a, b, x, y}
    OBVIOUS
  <2> QED
    BY <2>1
<1>2. ASSUME NEW s \in Seq(S), NEW t \in Seq(S), Len(s) = Len(t), \A i \in 1 .. Len(s) : s[i] = t[i]
      PROVE  s = t
  BY <1>2, SeqEqual
<1>3. /\ <<a>> \in Seq(S) /\ Len(<<a>>) = 1
      /\ <<a, b>> \in Seq(S) /\ Len(<<a, b>>) = 2
  BY <1>1
<1>4. /\ <<a, b, x>> \in Seq(S) /\ Len(<<a, b, x>>) = 3
      /\ <<a, b, x, y>> \in Seq(S) /\ Len(<<a, b, x, y>>) = 4
  BY <1>1
<1>5. Append(<<a>>, b) = <<a, b>>
  <2>1. /\ Append(<<a>>, b) \in Seq(S) /\ Len(Append(<<a>>, b)) = 2
        /\ \A i \in 1 .. 2 : Append(<<a>>, b)[i] = <<a, b>>[i]
    BY <1>1, <1>3
  <2> QED
    BY <1>2, <1>3, <2>1
<1>6. Append(<<a, b>>, x) = <<a, b, x>>
  <2>1. Append(<<a, b>>, x) \in Seq(S) /\ Len(Append(<<a, b>>, x)) = 3
    BY <1>1, <1>3
  <2>2. \A i \in 1 .. 3 : Append(<<a, b>>, x)[i] = <<a, b, x>>[i]
    BY <1>1, <1>3
  <2> QED
    BY <1>2, <1>4, <2>1, <2>2
<1>7. Append(<<a, b, x>>, y) = <<a, b, x, y>>
  <2>1. Append(<<a, b, x>>, y) \in Seq(S) /\ Len(Append(<<a, b, x>>, y)) = 4
    BY <1>1, <1>4
  <2>2. \A i \in 1 .. 4 : Append(<<a, b, x>>, y)[i] = <<a, b, x, y>>[i]
    BY <1>1, <1>4
  <2> QED
    BY <1>2, <1>4, <2>1, <2>2
<1> QED
  BY <1>5, <1>6, <1>7

\* A stream the journal may write is followed by another.
LEMMA HistoryStep ==
  ASSUME CallInv, StreamEffect, NEW c \in Call
  PROVE  History(c)'
<1> HIDE DEF Intent, Outcome, Proof, Marker
<1>1. History(c)
  BY DEF CallInv
<1>2. CASE stream'[c] = stream[c]
  BY <1>1, <1>2 DEF History
<1>3. CASE Claims(c)
  <2>1. stream[c] = <<>> /\ stream'[c] = Append(stream[c], Intent)
    BY <1>3, CallTypes DEF Claims, Claimable, AppendTo
  <2>2. stream'[c] = <<Intent>>
    BY <2>1
  <2> QED
    BY <2>2 DEF History
<1>4. ASSUME NEW i \in Invoker, gateway[i].stage = "answered", gateway[i].call = c,
             stream[c] = <<Intent>>, Records(c, Outcome(gateway[i].outcome))
      PROVE  History(c)'
  <2>1. PICK o \in Outcomes : o = gateway[i].outcome
    BY <1>4, CallTypes
  <2>2. stream'[c] = <<Intent, Outcome(o)>>
    BY <1>4, <2>1, Appends DEF Records
  <2> QED
    BY <2>2 DEF History
<1>5. ASSUME NEW r \in Reconciler, recon[r].stage = "verified", recon[r].call = c,
             Unresolved(c), Records(c, Proof(recon[r].proof))
      PROVE  History(c)'
  <2>1. PICK p \in Proofs : p = recon[r].proof
    BY <1>5, CallTypes
  <2>2. stream[c] = <<Intent>> \/ stream[c] = <<Intent, Outcome("unknown")>>
    BY <1>1, <1>5, UnresolvedStream
  <2>3. \/ stream'[c] = <<Intent, Proof(p)>>
        \/ stream'[c] = <<Intent, Outcome("unknown"), Proof(p)>>
    BY <1>5, <2>1, <2>2, Appends DEF Records
  <2> QED
    BY <2>3 DEF History
<1>6. ASSUME Pending(c), Records(c, Marker)
      PROVE  History(c)'
  <2>1. PICK p \in Proofs : ProvedStream(c, p)
    BY <1>1, <1>6, PendingStream
  <2>2. SettledStream(c, p)'
    <3>1. stream'[c] = Append(stream[c], Marker)
      BY <1>6 DEF Records
    <3>2. \/ stream'[c] = Append(<<Intent, Proof(p)>>, Marker)
          \/ stream'[c] = Append(<<Intent, Outcome("unknown"), Proof(p)>>, Marker)
      BY <2>1, <3>1 DEF ProvedStream
    <3> QED
      BY <3>2, Appends DEF SettledStream
  <2> QED
    BY <2>2 DEF History, SettledStream
<1> QED
  BY <1>2, <1>3, <1>4, <1>5, <1>6 DEF StreamEffect

\* A settled call is over, and a step settles a call only at its proof.
LEMMA SettledStep ==
  ASSUME CallInv, Effects, TypeInv', \A c \in Call : History(c)'
  PROVE  SettledAsProved'
<1>1. (\A c \in Call : History(c) =>
         /\ Pending(c) => \E p \in Proofs : ProvedStream(c, p)
         /\ Status(c) = "reconciled" => \E p \in Proofs : SettledStream(c, p)
         /\ ProofsOf(c) # {} => \E p \in Proofs : ProvedStream(c, p) \/ SettledStream(c, p))'
  BY PendingStream, PTL
<1>2. (\A c \in Call : \A p \in Proofs :
         /\ ProvedStream(c, p) => ProofsOf(c) = {p} /\ ProofOf(c) = p /\ Pending(c)
         /\ SettledStream(c, p) =>
              ProofsOf(c) = {p} /\ ProofOf(c) = p /\ Status(c) = "reconciled")'
  BY ProvedReads, PTL
<1> SUFFICES ASSUME NEW c \in Call, Status(c)' = "reconciled"
             PROVE  /\ attempt'[AttemptOf[c]].status = "failed"
                    /\ attempt'[AttemptOf[c]].figures = FiguresOf(c, ProofOf(c)')
  BY DEF SettledAsProved, FiguresOf
<1>3. PICK a \in Attempt : a = AttemptOf[c]
  BY CallTypes
<1>4. attempt'[a] \in Attempts
  BY DEF TypeInv, TypeOK
<1>5. PICK p \in Proofs : SettledStream(c, p)'
  BY <1>1
<1>6. ProofsOf(c)' = {p} /\ ProofOf(c)' = p
  BY <1>2, <1>5
<1>7. attempt'[a].figures = FiguresOf(c, p)
  <2>1. CASE stream'[c] = stream[c]
    <3>1. SettledStream(c, p)
      BY <1>5, <2>1 DEF SettledStream
    <3>2. Status(c) = "reconciled" /\ ProofOf(c) = p
      BY <3>1, ProvedReads
    <3>3. attempt[a].figures = FiguresOf(c, p)
      BY <1>3, <3>2 DEF CallInv, Settling, SettledAsProved
    <3>4. FiguresOf(c, p) # None
      BY FiguresType, CallAssumption
    <3> QED
      BY <3>3, <3>4, AttemptStays DEF Effects
  <2>2. CASE stream'[c] # stream[c]
    <3> HIDE DEF Intent, Outcome, Proof, Marker
    <3>1. \A s \in Seq(Events), e \in Events, x, y, z, w \in Events :
            /\ Append(s, e) = <<x, y, z>> => e = z
            /\ Append(s, e) = <<x, y, z, w>> => e = w
      <4>1. ASSUME NEW s \in Seq(Events), NEW e \in Events, NEW t \in Seq(Events),
                   Append(s, e) = t
            PROVE  t[Len(t)] = e
        <5>1. Len(t) = Len(s) + 1 /\ Append(s, e)[Len(s) + 1] = e
          BY <4>1
        <5> QED
          BY <4>1, <5>1
      <4> SUFFICES ASSUME NEW s \in Seq(Events), NEW e \in Events, NEW x \in Events,
                          NEW y \in Events, NEW z \in Events, NEW w \in Events
                   PROVE  /\ Append(s, e) = <<x, y, z>> => e = z
                          /\ Append(s, e) = <<x, y, z, w>> => e = w
        OBVIOUS
      <4>2. <<x, y, z>> \in Seq(Events) /\ Len(<<x, y, z>>) = 3 /\ <<x, y, z>>[3] = z
        OBVIOUS
      <4>3. <<x, y, z, w>> \in Seq(Events) /\ Len(<<x, y, z, w>>) = 4 /\ <<x, y, z, w>>[4] = w
        OBVIOUS
      <4>4. Append(s, e) = <<x, y, z>> => <<x, y, z>>[Len(<<x, y, z>>)] = e
        BY <4>1, <4>2
      <4>5. Append(s, e) = <<x, y, z, w>> => <<x, y, z, w>>[Len(<<x, y, z, w>>)] = e
        BY <4>1, <4>3
      <4> QED
        BY <4>2, <4>3, <4>4, <4>5
    <3>2. ASSUME NEW e \in Events, Records(c, e) PROVE e = Marker
      <4>1. stream[c] \in Seq(Events) /\ stream'[c] = Append(stream[c], e)
        BY <3>2, CallTypes DEF Records
      <4>2. \/ stream'[c] = <<Intent, Proof(p), Marker>>
            \/ stream'[c] = <<Intent, Outcome("unknown"), Proof(p), Marker>>
        BY <1>5 DEF SettledStream
      <4>3. "unknown" \in Outcomes
        BY DEF Outcomes
      <4>4. Intent \in Events /\ Marker \in Events /\ Proof(p) \in Events /\ Outcome("unknown") \in Events
        BY <4>3, KindsOfEvents
      <4> QED
        BY <3>1, <4>1, <4>2, <4>4
    <3>3. Claims(c) => Records(c, Intent)
      BY CallTypes DEF Claims, AppendTo, Records
    <3>4. ~Records(c, Intent) /\ \A o \in Outcomes : ~Records(c, Outcome(o))
      BY <3>2, KindsOfEvents, EventsDiffer
    <3>5. \A q \in Proofs : ~Records(c, Proof(q))
      BY <3>2, KindsOfEvents, EventsDiffer
    <3>6. Pending(c) /\ attempt'[AttemptOf[c]].figures = FiguresOf(c, ProofOf(c))
      BY <2>2, <3>3, <3>4, <3>5, CallTypes DEF Effects, StreamEffect
    <3>7. PICK q \in Proofs : ProvedStream(c, q)
      BY <3>6, PendingStream DEF CallInv
    <3>8. ProofsOf(c) = {q} /\ ProofOf(c) = q
      BY <3>7, ProvedReads
    <3>9. q = p
      BY <1>6, <3>8, LogStays DEF Effects
    <3> QED
      BY <1>3, <3>6, <3>8, <3>9
  <2> QED
    BY <2>1, <2>2
<1>8. FiguresOf(c, p) # None
  BY FiguresType, CallAssumption
<1>9. attempt'[a].status = "failed"
  BY <1>4, <1>7, <1>8 DEF Attempts
<1> QED
  BY <1>3, <1>6, <1>7, <1>9

\* What a reconciliation rests on stays.
LEMMA SettlingStep ==
  ASSUME CallInv, Effects, TypeInv', \A c \in Call : History(c)'
  PROVE  Settling'
<1>1. ASSUME NEW r \in Reconciler PROVE Grounded(r)'
  <2>1. CASE recon'[r] # recon[r]
    BY <2>1 DEF Effects, ReconEffect
  <2>2. CASE recon'[r] = recon[r] /\ recon[r].stage = "idle"
    BY <2>2 DEF Grounded
  <2>3. CASE recon'[r] = recon[r] /\ recon[r].stage # "idle"
    <3>1. PICK c \in Call : c = recon[r].call
      BY <2>3, CallTypes
    <3>2. stream[c] # <<>> /\ Parked(AttemptOf[c]) /\ AttemptOf[c] \in Attempt
      BY <2>3, <3>1, GroundedAt, CallTypes
    <3>3. stream'[c] # <<>> /\ Parked(AttemptOf[c])'
      BY <3>2, LogStays, AttemptStays DEF Effects
    <3>4. ASSUME recon[r].stage = "verified" PROVE Proved(c, recon[r].proof)'
      <4>1. PICK p \in Proofs : p = recon[r].proof
        BY <3>4, CallTypes
      <4>2. Proved(c, p)
        BY <3>1, <3>4, <4>1, GroundedAt
      <4>3. Proved(c, p)'
        BY <4>2, SaysStays
      <4> QED
        BY <2>3, <4>1, <4>3
    <3>5. recon[r].stage \in {"persisted", "settled"} => recon[r].proof \in ProofsOf(c)'
      BY <3>1, GroundedAt, LogStays DEF Effects
    <3>6. ASSUME recon[r].stage = "settled"
          PROVE  attempt'[AttemptOf[c]].figures = FiguresOf(c, recon[r].proof)
      <4>1. recon[r].proof \in Proofs
        BY <3>6, CallTypes
      <4>2. attempt[AttemptOf[c]].figures = FiguresOf(c, recon[r].proof)
        BY <3>1, <3>6, GroundedAt
      <4>3. FiguresOf(c, recon[r].proof) # None
        BY <4>1, FiguresType, CallAssumption
      <4> QED
        BY <3>2, <4>2, <4>3, AttemptStays DEF Effects
    <3> QED
      BY <2>3, <3>1, <3>3, <3>4, <3>5, <3>6 DEF Grounded
  <2> QED
    BY <2>1, <2>2, <2>3
<1>2. ASSUME NEW c \in Call, ProofsOf(c)' # {} PROVE Parked(AttemptOf[c])'
  <2>1. Parked(AttemptOf[c]) /\ AttemptOf[c] \in Attempt
    <3>1. CASE ProofsOf(c) # {}
      BY <3>1, CallTypes DEF CallInv, Settling
    <3>2. CASE ProofsOf(c) = {}
      <4>1. PICK r \in Reconciler : recon[r].stage = "verified" /\ recon[r].call = c
        BY <1>2, <3>2, NewEvents DEF Effects
      <4> QED
        BY <4>1, GroundedAt, CallTypes
    <3> QED
      BY <3>1, <3>2
  <2> QED
    BY <2>1, AttemptStays DEF Effects
<1> QED
  BY <1>1, <1>2, SettledStep DEF Settling

-----------------------------------------------------------------------------
\* The dispatch authority: one call per attempt, which decides when the attempt
\* may be let go.

\* A stream is opened by a claim.
LEMMA NewStream ==
  ASSUME CallInv, StreamEffect, NEW c \in Call, stream[c] = <<>>, stream'[c] # <<>>
  PROVE  Claims(c)
<1>1. Status(c) = "absent" /\ stream[c] # <<Intent>>
  BY Projection
<1> QED
  BY <1>1 DEF StreamEffect, Unresolved, Pending

\* Under the authority a claim finds no other call of its attempt.
LEMMA ClaimsAlone ==
  ASSUME CallInv, Owned, NEW c \in Call, Claims(c)
  PROVE  /\ attempt[AttemptOf[c]].status = "accepted"
         /\ \A d \in Call : d # c /\ AttemptOf[d] = AttemptOf[c] => stream'[d] = <<>>
<1>1. /\ attempt[AttemptOf[c]].status = "accepted"
      /\ \A d \in Call : d # c /\ AttemptOf[d] = AttemptOf[c] => stream[d] = <<>>
  BY DEF Claims, Claimable, Siblings
<1>2. \A d \in Call : d # c => stream'[d] = stream[d]
  BY CallTypes DEF Claims, AppendTo
<1> QED
  BY <1>1, <1>2

\* A call of which the journal knows nothing has no sender and is not awaited.
LEMMA NotStarted ==
  ASSUME CallInv, NEW c \in Call, stream[c] = <<>>
  PROVE  Terminated(c) /\ ~Unresolved(c) /\ ~Pending(c) /\ ProofsOf(c) = {}
<1>1. Status(c) = "absent"
  BY Projection
<1>2. ProofsOf(c) = {}
  BY ReadingsHold DEF Readings, Reads
<1>3. wire[c].state = "none"
  BY DEF CallInv, Fresh
<1>4. ~MaySend(c)
  BY CallTypes DEF ClaimInv, MaySend, Owns
<1> QED
  BY <1>1, <1>2, <1>3, <1>4 DEF Terminated, Unresolved, Pending

\* A call with a proof has no sender.
LEMMA ProvedTerminated ==
  ASSUME CallInv, NEW c \in Call, NEW p \in ProofsOf(c)
  PROVE  Terminated(c)
<1>1. Proved(c, p)
  BY DEF CallInv, Truthful
<1>2. CASE p.usage = None
  BY <1>1, <1>2 DEF Proved, Gone, Terminated
<1>3. CASE p.usage # None
  <2>1. wire[c].state = "received"
    BY <1>1, <1>3 DEF Proved
  <2>2. ~MaySend(c)
    BY <2>1 DEF CallInv, Fresh
  <2> QED
    BY <2>1, <2>2 DEF Terminated
<1> QED
  BY <1>2, <1>3

\* The calls of an attempt that may be let go are over, and nothing is unknown.
LEMMA LetGo ==
  ASSUME CallInv, Owned, NEW c \in Call,
         \/ \E s \in {"succeeded", "failed"} : MayRelease(AttemptOf[c], s)
         \/ \E f \in Figures : MayReconcile(AttemptOf[c], f)
  PROVE  Terminated(c) /\ ~Unresolved(c)
<1>1. PICK a \in Attempt : a = AttemptOf[c]
  BY CallTypes
<1>2. \A d \in CallsOf(a) : d \in Call /\ AttemptOf[d] = AttemptOf[c]
  BY <1>1 DEF CallsOf
<1>3. \A d \in CallsOf(a) : d # c /\ stream[d] # <<>> => stream[c] = <<>>
  BY <1>2 DEF CallInv, Held, OneCall
<1>4. CASE Untouched(a)
  <2>1. stream[c] = <<>>
    BY <1>1, <1>4 DEF Untouched, CallsOf
  <2> QED
    BY <2>1, NotStarted
<1>5. ASSUME NEW d \in CallsOf(a), Terminated(d), Status(d) \in {"known_success", "known_failure"}
      PROVE  Terminated(c) /\ ~Unresolved(c)
  <2>1. CASE d = c
    BY <1>5, <2>1 DEF Unresolved
  <2>2. CASE d # c
    <3>1. stream[d] # <<>>
      BY <1>2, <1>5, Projection
    <3>2. stream[c] = <<>>
      BY <1>3, <2>2, <3>1
    <3> QED
      BY <3>2, NotStarted
  <2> QED
    BY <2>1, <2>2
<1>6. ASSUME NEW d \in CallsOf(a), NEW p \in ProofsOf(d)
      PROVE  Terminated(c) /\ ~Unresolved(c)
  <2>1. CASE d = c
    <3>1. ~Unresolved(c)
      BY <1>6, <2>1, NoProofYet DEF CallInv
    <3>2. Terminated(c)
      BY <1>6, <2>1, ProvedTerminated
    <3> QED
      BY <3>1, <3>2
  <2>2. CASE d # c
    <3>1. stream[d] # <<>>
      BY <1>2, <1>6, NotStarted
    <3>2. stream[c] = <<>>
      BY <1>3, <2>2, <3>1
    <3> QED
      BY <3>2, NotStarted
  <2> QED
    BY <2>1, <2>2
<1>7. \/ Untouched(a)
      \/ \E d \in CallsOf(a) :
           Terminated(d) /\ Status(d) \in {"known_success", "known_failure"}
      \/ \E d \in CallsOf(a) : \E p \in Proofs : p \in ProofsOf(d)
  BY <1>1 DEF MayRelease, MayReconcile
<1> QED
  BY <1>4, <1>5, <1>6, <1>7

\* An attempt that is let go by a step was let go under that rule.
LEMMA LetGoStep ==
  ASSUME CallInv, Effects, Owned, NEW c \in Call, Holding(AttemptOf[c]), ~Holding(AttemptOf[c])'
  PROVE  /\ Terminated(c) /\ ~Unresolved(c)
         /\ wire'[c] = wire[c] /\ MaySend(c)' = MaySend(c)
<1>1. PICK a \in Attempt : a = AttemptOf[c]
  BY CallTypes
<1>2. (Released(a) \/ Settled(a)) /\ UNCHANGED <<gateway, wire>>
  <2>1. attempt'[a] # attempt[a] /\ attempt'[a].status # "outcome_unknown"
    BY <1>1 DEF Holding
  <2>2. [status |-> "outcome_unknown", figures |-> None].status = "outcome_unknown"
    OBVIOUS
  <2> QED
    BY <2>1, <2>2 DEF Effects, AttemptEffect
<1>3. \/ \E s \in {"succeeded", "failed"} : MayRelease(a, s)
      \/ \E f \in Figures : MayReconcile(a, f)
  BY <1>2 DEF Released, Settled
<1> QED
  BY <1>1, <1>2, <1>3, LetGo DEF MaySend

\* A call whose result is unknown was claimed now or was unknown before.
LEMMA UnresolvedBefore ==
  ASSUME CallInv, StreamEffect, NEW c \in Call, History(c)', Unresolved(c)'
  PROVE  Unresolved(c) \/ Claims(c)
<1> HIDE DEF Intent, Outcome, Proof, Marker
<1>1. ASSUME stream'[c] = stream[c]
      PROVE  Unresolved(c)
  BY <1>1 DEF Unresolved, Status, Log, OutcomesOf, ProofsOf
<1>2. stream[c] = <<Intent>> => Unresolved(c)
  BY UnresolvedStream DEF CallInv
<1>3. ~Records(c, Marker)
  <2>1. stream'[c] # <<>> /\ Marker \notin Log(c)'
    BY DEF Unresolved, Status, Marker
  <2>2. Records(c, Marker) => Marker \in Log(c)'
    BY CallTypes, AppendLog, KindsOfEvents
  <2> QED
    BY <2>1, <2>2
<1> QED
  BY <1>1, <1>2, <1>3 DEF StreamEffect

\* An attempt does not get a second call.
LEMMA OneCallStep ==
  ASSUME CallInv, Effects, Owned
  PROVE  OneCall'
<1> SUFFICES ASSUME NEW c \in Call, NEW d \in Call, AttemptOf[c] = AttemptOf[d],
                    stream'[c] # <<>>, stream'[d] # <<>>, c # d
             PROVE  FALSE
  BY DEF OneCall
<1>1. ~Claims(c) /\ ~Claims(d)
  BY ClaimsAlone
<1>2. stream[c] # <<>> /\ stream[d] # <<>>
  BY <1>1, NewStream DEF Effects
<1> QED
  BY <1>2 DEF CallInv, Held, OneCall

\* An attempt that is let go leaves no sender behind.
LEMMA NoSenderStep ==
  ASSUME CallInv, Effects, Owned
  PROVE  NoSenderAfterRelease'
<1> SUFFICES ASSUME NEW c \in Call, ~Holding(AttemptOf[c])'
             PROVE  wire'[c].state \notin {"sending", "arrived"} /\ ~MaySend(c)'
  BY DEF NoSenderAfterRelease
<1>1. CASE Holding(AttemptOf[c])
  BY <1>1, LetGoStep DEF Terminated
<1>2. CASE ~Holding(AttemptOf[c])
  <2>1. wire[c].state \notin {"sending", "arrived"} /\ ~MaySend(c)
    BY <1>2 DEF CallInv, Held, NoSenderAfterRelease
  <2>2. ~Claims(c)
    BY <1>2, ClaimsAlone DEF Holding
  <2> QED
    BY <2>1, <2>2, WireStays, NoNewSender DEF Effects
<1> QED
  BY <1>1, <1>2

\* An attempt with an unknown result is not let go.
LEMMA UnresolvedStep ==
  ASSUME CallInv, Effects, Owned, \A c \in Call : History(c)'
  PROVE  UnresolvedStayHeld'
<1> SUFFICES ASSUME NEW c \in Call, Unresolved(c)', ~Holding(AttemptOf[c])'
             PROVE  FALSE
  BY DEF UnresolvedStayHeld
<1>1. CASE Claims(c)
  <2>1. attempt' = attempt /\ attempt[AttemptOf[c]].status = "accepted"
    BY <1>1, ClaimsAlone DEF Claims
  <2> QED
    BY <2>1 DEF Holding
<1>2. CASE ~Claims(c)
  <2>1. Unresolved(c)
    BY <1>2, UnresolvedBefore DEF Effects
  <2>2. Holding(AttemptOf[c])
    BY <2>1 DEF CallInv, Held, UnresolvedStayHeld
  <2> QED
    BY <2>1, <2>2, LetGoStep
<1> QED
  BY <1>1, <1>2

\* An attempt is charged by the proof of its call, or never had one.
LEMMA FiguresStep ==
  ASSUME CallInv, Effects, Owned
  PROVE  FiguresAreProved'
<1> SUFFICES ASSUME NEW a \in Attempt, attempt'[a].figures # None
             PROVE  \/ \A c \in CallsOf(a) : stream'[c] = <<>>
                    \/ \E c \in CallsOf(a) : \E p \in ProofsOf(c)' :
                         attempt'[a].figures = FiguresOf(c, p)
  BY DEF FiguresAreProved, CallsOf, FiguresOf
<1>1. \A c \in CallsOf(a) : c \in Call /\ AttemptOf[c] = a
  BY DEF CallsOf
<1>2. \A c \in CallsOf(a) : ProofsOf(c) \subseteq ProofsOf(c)'
  BY <1>1, LogStays DEF Effects
<1>3. \A c \in CallsOf(a) : ~Claims(c)
  <2>1. SUFFICES ASSUME NEW c \in CallsOf(a), Claims(c) PROVE FALSE
    OBVIOUS
  <2>2. attempt[a].status = "accepted" /\ attempt' = attempt
    BY <1>1, <2>1, ClaimsAlone DEF Claims
  <2>3. attempt[a] \in Attempts
    BY CallTypes
  <2> QED
    BY <2>2, <2>3 DEF Attempts
<1>4. \A c \in CallsOf(a) : stream[c] = <<>> => stream'[c] = <<>>
  BY <1>1, <1>3, NewStream DEF Effects
<1>5. CASE attempt[a].figures # None
  <2>1. attempt'[a].figures = attempt[a].figures
    BY <1>5, AttemptStays DEF Effects
  <2>2. \/ \A c \in CallsOf(a) : stream[c] = <<>>
        \/ \E c \in CallsOf(a) : \E p \in ProofsOf(c) : attempt[a].figures = FiguresOf(c, p)
    BY <1>5 DEF CallInv, Held, FiguresAreProved
  <2> QED
    BY <1>2, <1>4, <2>1, <2>2
<1>6. CASE attempt[a].figures = None
  <2>1. ~Released(a) /\ attempt'[a] # [status |-> "outcome_unknown", figures |-> None]
    BY DEF Released
  <2>2. Settled(a)
    BY <1>6, <2>1 DEF Effects, AttemptEffect
  <2>3. PICK f \in Figures : MayReconcile(a, f) /\ attempt'[a].figures = f
    BY <2>2 DEF Settled
  <2>4. CASE Untouched(a)
    BY <1>4, <2>4 DEF Untouched
  <2>5. CASE \E c \in CallsOf(a), p \in Proofs : p \in ProofsOf(c) /\ f = FiguresOf(c, p)
    BY <1>2, <2>3, <2>5
  <2> QED
    BY <2>3, <2>4, <2>5 DEF MayReconcile
<1> QED
  BY <1>5, <1>6

-----------------------------------------------------------------------------
\* The invariant, and what follows from it.

\* The invariant holds at first.
LEMMA CallStart == Init => CallInv
<1> SUFFICES ASSUME Init PROVE CallInv
  OBVIOUS
<1>1. DispatchInv
  BY TypeStart DEF Init, DispatchInv, ClaimInv, DispatchedOnce, Owns, Idle
<1>2. /\ \A c \in Call : stream[c] = <<>> /\ wire[c].state = "none"
      /\ \A i \in Invoker : gateway[i].stage = "idle"
      /\ \A r \in Reconciler : recon[r].stage = "idle"
      /\ \A a \in Attempt : attempt[a].status = "accepted" /\ attempt[a].figures = None
  BY DEF Init, Idle, Resting
<1>3. \A c \in Call : Reads(c, {}, {}, "absent")
  BY <1>2, ReadingsHold DEF Readings
<1>4. (\A c \in Call : History(c)) /\ Fresh
  BY <1>2 DEF History, Fresh
<1>5. Truthful
  BY <1>2, <1>3 DEF Truthful, Reads
<1>6. Settling
  BY <1>2, <1>3 DEF Settling, Grounded, SettledAsProved, Reads
<1>7. Held
  <2>1. \A c \in Call : AttemptOf[c] \in Attempt
    BY CallAssumption
  <2> QED
    BY <1>2, <1>3, <2>1
    DEF Held, OneCall, NoSenderAfterRelease, UnresolvedStayHeld, FiguresAreProved, Holding, Reads,
        Unresolved
<1> QED
  BY <1>1, <1>4, <1>5, <1>6, <1>7 DEF CallInv

\* Every step keeps the invariant.
LEMMA CallStep == CallInv /\ [Next]_vars => CallInv'
<1> SUFFICES ASSUME CallInv, [Next]_vars PROVE CallInv'
  OBVIOUS
<1>1. DispatchInv /\ DispatchInv'
  BY DispatchStep DEF CallInv
<1>2. TypeInv'
  BY <1>1 DEF DispatchInv
<1>3. Effects
  <2>1. CASE UNCHANGED vars
    BY <2>1, NoEffect DEF vars, Effects
  <2> QED
    BY <2>1, StepEffects
<1>4. \A c \in Call : History(c)'
  BY <1>3, HistoryStep DEF Effects
<1>5. Fresh' /\ Truthful' /\ Settling'
  BY <1>2, <1>3, <1>4, FreshStep, TruthfulStep, SettlingStep
<1>6. Owned => Held'
  BY <1>3, <1>4, OneCallStep, NoSenderStep, UnresolvedStep, FiguresStep DEF Held
<1> QED
  BY <1>1, <1>4, <1>5, <1>6 DEF CallInv

\* The invariant holds in every state.
LEMMA CallSafe == Spec => []CallInv
  BY CallStart, CallStep, PTL DEF Spec

\* What the journal says of a call agrees with the provider, in every state:
\* a call recorded as not sent, or proved not to have arrived, cannot arrive any
\* more, and what a proof charges is what the provider charged (record_outcome,
\* _append_reconciliation).
THEOREM JournalIsTrue == Spec => []RecordsAreTrue
<1>1. CallInv => RecordsAreTrue
  <2> SUFFICES ASSUME CallInv, NEW c \in Call
               PROVE  /\ "not_sent" \in OutcomesOf(c) => Gone(c)
                      /\ OutcomesOf(c) \cap {"known_success", "known_failure"} # {} =>
                           wire[c].state = "received"
                      /\ \A p \in ProofsOf(c) : p \in Evidence(c)
    BY DEF RecordsAreTrue, Gone
  <2>1. \A o \in OutcomesOf(c) : Says(c, o)
    BY DEF CallInv, Truthful
  <2>2. \A p \in ProofsOf(c) : p \in Proofs /\ Proved(c, p)
    BY DEF CallInv, Truthful, ProofsOf
  <2> QED
    BY <2>1, <2>2 DEF Says, Proved, Evidence, Gone
<1> QED
  BY <1>1, CallSafe, PTL

\* A settled call's attempt failed with exactly the figures of its proof,
\* whoever applied the settlement and however often (_apply_one_settlement,
\* apply_pending_settlements).
THEOREM ChargedAsProved == Spec => []SettledAsProved
<1>1. CallInv => SettledAsProved
  BY DEF CallInv, Settling
<1> QED
  BY <1>1, CallSafe, PTL

\* Under the dispatch authority no request of an attempt that was let go has a
\* sender or is about to get one (record_intent, finish_attempt,
\* reconcile_attempt).
THEOREM ReleasedIsQuiet == Spec => [](Owned => NoSenderAfterRelease)
<1>1. CallInv => (Owned => NoSenderAfterRelease)
  BY DEF CallInv, Held
<1> QED
  BY <1>1, CallSafe, PTL

\* The call an attempt has in the journal is the only one.
LEMMA OpenCallIsTheOnly ==
  ASSUME CallInv, Owned, NEW c \in Call, NEW d \in Call,
         AttemptOf[d] = AttemptOf[c], stream[c] # <<>>, stream[d] # <<>>
  PROVE  d = c
BY DEF CallInv, Held, OneCall

\* The startup audit accepts every state of the journal and the scheduler, and
\* every proof it finds can be settled: under the dispatch authority, as long
\* as no provider charges more than the attempt's envelope
\* (_validate_provider_calls, apply_pending_settlements).
THEOREM StartupAccepts ==
  Spec => [](Owned /\ (\A u \in Usage : u <= Envelope) => AlwaysStartable)
<1>1. ASSUME CallInv, Owned, \A u \in Usage : u <= Envelope
      PROVE  AlwaysStartable
  <2>1. ASSUME NEW c \in Call, Unresolved(c) \/ Pending(c) \/ Status(c) = "reconciled"
        PROVE  stream[c] # <<>>
    BY <2>1, Projection DEF Unresolved, Pending
  <2>2. CallsValid(attempt)
    BY <1>1 DEF CallsValid, CallInv, Held, UnresolvedStayHeld, Holding, Settling, SettledAsProved
  <2>3. ASSUME NEW c \in Call, Pending(c), NEW d \in PendingOf(AttemptOf[c])
        PROVE  d = c
    <3>1. d \in Call /\ AttemptOf[d] = AttemptOf[c] /\ Pending(d)
      BY <2>3 DEF PendingOf, CallsOf
    <3> QED
      BY <1>1, <2>1, <2>3, <3>1, OpenCallIsTheOnly
  <2>4. ASSUME NEW c \in Call, Pending(c)
        PROVE  Reconcilable(AttemptOf[c], FiguresOf(c, ProofOf(c)))
    <3>1. PICK p \in Proofs : ProvedStream(c, p)
      BY <1>1, <2>4, PendingStream DEF CallInv
    <3>2. ProofsOf(c) = {p} /\ ProofOf(c) = p
      BY <3>1, ProvedReads
    <3>3. PICK a \in Attempt : a = AttemptOf[c]
      BY <1>1, CallTypes
    <3>4. c \in CallsOf(a)
      BY <3>3 DEF CallsOf
    <3>5. CASE attempt[a].figures # None
      <4>1. PICK d \in CallsOf(a) : \E q \in ProofsOf(d) : attempt[a].figures = FiguresOf(d, q)
        BY <1>1, <2>1, <2>4, <3>4, <3>5 DEF CallInv, Held, FiguresAreProved
      <4>2. d \in Call /\ AttemptOf[d] = AttemptOf[c] /\ ProofsOf(d) # {}
        BY <3>3, <4>1 DEF CallsOf
      <4>3. stream[d] # <<>> /\ stream[c] # <<>>
        BY <1>1, <2>1, <2>4, <4>2, NotStarted
      <4>4. d = c
        BY <1>1, <4>2, <4>3, OpenCallIsTheOnly
      <4>5. attempt[a].figures = FiguresOf(c, p)
        BY <3>2, <4>1, <4>4
      <4> QED
        BY <3>2, <3>3, <4>5 DEF Reconcilable, SameReconciliation
    <3>6. CASE attempt[a].figures = None
      <4>1. attempt[a].status = "outcome_unknown"
        BY <1>1, <3>2, <3>3, <3>6 DEF CallInv, Settling, Parked
      <4>2. Fits(FiguresOf(c, p).usage)
        BY <1>1 DEF Fits, FiguresOf, Proofs
      <4>3. MayReconcile(a, FiguresOf(c, p))
        BY <3>2, <3>4 DEF MayReconcile
      <4> QED
        BY <3>2, <3>3, <3>6, <4>1, <4>2, <4>3 DEF Reconcilable
    <3> QED
      BY <3>5, <3>6
  <2>5. SettlementsApply
    BY <2>3, <2>4 DEF SettlementsApply
  <2>6. ASSUME NEW c \in Call, Unresolved(c) \/ Status(c) = "reconciled"
        PROVE  AfterSettlements[AttemptOf[c]] = attempt[AttemptOf[c]]
    <3>1. PICK a \in Attempt : a = AttemptOf[c]
      BY <1>1, CallTypes
    <3>2. ASSUME NEW d \in PendingOf(a) PROVE FALSE
      <4>1. d \in Call /\ AttemptOf[d] = AttemptOf[c] /\ Pending(d)
        BY <3>1, <3>2 DEF PendingOf, CallsOf
      <4>2. d = c
        BY <1>1, <2>1, <2>6, <4>1, OpenCallIsTheOnly
      <4> QED
        BY <2>6, <4>1, <4>2 DEF Pending, Unresolved
    <3>3. PendingOf(a) = {}
      BY <3>2
    <3> QED
      BY <3>1, <3>3 DEF AfterSettlements
  <2>7. CallsValid(AfterSettlements)
    BY <2>2, <2>6 DEF CallsValid
  <2> QED
    BY <2>2, <2>5, <2>7 DEF AlwaysStartable, Startable
<1>2. CallInv => (Owned /\ (\A u \in Usage : u <= Envelope) => AlwaysStartable)
  BY <1>1
<1> QED
  BY <1>2, CallSafe, PTL
=============================================================================
