------------------------- MODULE GeneralWorkerProofs -------------------------
(***************************************************************************)
(* Proofs about the general worker for every number of calls, processes,   *)
(* turns and faults: what is recorded of a release is true of the units    *)
(* and of the provider, and the startup audit passes.  Then proofs about   *)
(* the unit of one turn, which isolation/launcher.py launches and stops:   *)
(* SandboxUnit, for every number of stops, and that it behaves as the      *)
(* general worker takes a unit to behave.                                  *)
(***************************************************************************)
EXTENDS GeneralWorker, SandboxUnit, SequenceTheorems, TLAPS

\* One process runs all calls and asks for every release.
SoleProcess == \A p \in Processes, c \in Calls : ProcessOf[c] = p

TurnRecords == [phase : {"request", "complete"}, acked : BOOLEAN, stopped : BOOLEAN,
                observed : BOOLEAN]
Operations == [phase : Phases, turns : Seq(TurnRecords)]

Places == Awaits \cup {"deciding", "checked", "reserving", "permitted", "answered",
                       "capturing", "outputting", "proposing"}

TypeOK ==
    /\ op \in Operations
    /\ unit \in [Turns -> {None, "starting", "running", "stopped"}]
    /\ call \in [status : {None, "dispatching", "known_success", "known_failure", "unknown",
                           "settlement_pending"},
                 priced : BOOLEAN, effect : {None, "charged", "not_received"}]
    /\ received \in BOOLEAN
    /\ slot \in {"active", "succeeded", "failed", "cancelled", "outcome_unknown"}
    /\ hold \in {"reserved", "committed", "released", "unknown"}
    /\ run \in {"running", "paused", "cancelling", "cancelled"}
    /\ world \in [lease : {"live", "expired"}, graph : {"frozen", "appended"},
                  boot : {"same", "another"}]
    /\ published \subseteq {"response", "output"}
    /\ proposal \in {None, "accepted", "rejected"}
    /\ proof \in [lease : {None, "live", "expired"}, graph : {None, "frozen", "appended"},
                  run : {None, "running", "paused", "cancelling", "cancelled"}]
    /\ host \in [Calls -> [at : Places, view : Operations]]
    /\ owner \in Calls \cup {None}
    /\ permit \in [Calls -> {None, "pending", "claimed"}]
    /\ faults \in Nat

Launching == {"worker_requested", "completion_requested"}

\* Every turn but the one being launched has ended, and on record.
Shape(o) ==
    /\ o.phase \in {None, "requested"} => o.turns = <<>>
    /\ IF o.phase \in Launching
       THEN /\ o.turns # <<>> /\ ~Last(o.turns).stopped
            /\ \A l \in 1 .. (Len(o.turns) - 1) : o.turns[l].acked /\ o.turns[l].stopped
       ELSE WorkerStopped(o)

\* A unit that is on record as stopped has stopped; one that is not on record
\* was never asked for.
Recorded ==
    /\ Shape(op)
    /\ \A l \in Turns :
          IF l <= Len(op.turns) THEN op.turns[l].stopped => unit[l] = "stopped"
                                ELSE unit[l] = None

Sending(c) == host[c].at \in {"sending", "answering"}

\* The operation a call holds is the one its place in the code calls for.
Suits(place, view) ==
    /\ place = "checked" =>
          /\ view.phase \in {"requested", "worker_stopped", "response_captured",
                             "completion_stopped"}
          /\ WorkerStopped(view)
    /\ place = "starting" => view.phase \in Launching
    /\ place \in {"waiting", "stopping"} => view.phase \in Launching /\ Last(view.turns).acked
    /\ place \in {"permitted", "brokering", "sending", "answering", "answered", "capturing"} =>
          view.phase = "call_reserved"
    /\ place \in {"outputting", "verifying", "proposing"} => view.phase = "completion_stopped"

Placed == \A c \in Calls : Suits(host[c].at, host[c].view)

\* The journal of provider calls, and what the operation says of it.
Provided ==
    /\ \A c \in Calls : Sending(c) => call.status = "dispatching"
    /\ \A c, d \in Calls : Sending(c) /\ Sending(d) => c = d
    /\ call.status # None => op.phase \in AfterCall
    /\ call.status = None => ~received
    /\ call.status = "settlement_pending" => (call.effect = "not_received" <=> ~received)
    /\ Linked(op)
    /\ \A c \in Calls : At(c, "proposing") => proposal # None

\* What a release and an acceptance leave behind.
Settling ==
    /\ hold = "released" => ~received /\ call.status \in {None, "settlement_pending"}
    /\ slot = "succeeded" <=> op.phase = "accepted"
    /\ op.phase = "accepted" =>
          /\ hold = "committed" /\ published = {"response", "output"}
          /\ proposal = "accepted" /\ proof.lease = "live" /\ proof.graph = "frozen"
          /\ proof.run = "running"

\* Between its second check and the intent of a turn a call keeps the event
\* loop, so no release comes in between.
Fenced ==
    /\ \A c \in Calls : At(c, "checked") => slot = "active"
    /\ SlotReleased => WorkerStopped(op)

IInv == TypeOK /\ Recorded /\ Placed /\ Provided /\ Settling /\ (SoleProcess => Fenced)

-----------------------------------------------------------------------------
\* What the steps of the journal make of an operation.

LEMMA StoppedTurns ==
    ASSUME NEW o \in Operations
    PROVE  /\ o.turns \in Seq(TurnRecords) /\ Len(o.turns) \in Nat
           /\ WorkerStopped(o) <=>
                 \A l \in 1 .. Len(o.turns) : o.turns[l].acked /\ o.turns[l].stopped
BY DEF Operations, WorkerStopped, ToSet

\* An operation that has been shaped has no open turn outside a launch.
LEMMA PreparedFacts ==
    ASSUME NEW o \in Operations, WorkerStopped(o)
    PROVE  /\ Prepared(o) \in Operations /\ Shape(Prepared(o))
           /\ Prepared(o).phase \in Launching
           /\ TurnPhase(o) = "request" => Prepared(o).phase = "worker_requested"
           /\ TurnPhase(o) # "request" => Prepared(o).phase = "completion_requested"
           /\ Len(Prepared(o).turns) = Len(o.turns) + 1
           /\ \A l \in 1 .. Len(o.turns) : Prepared(o).turns[l] = o.turns[l]
           /\ ~Prepared(o).turns[Len(o.turns) + 1].stopped
<1> DEFINE n == Len(o.turns)
           t == NewTurn(TurnPhase(o))
           p == Prepared(o)
<1>1. n \in Nat /\ o.turns \in Seq(TurnRecords)
  BY StoppedTurns
<1>2. t \in TurnRecords /\ ~t.stopped
  BY DEF NewTurn, TurnRecords, TurnPhase
<1>3. /\ p.turns = Append(o.turns, t)
      /\ p.phase = IF TurnPhase(o) = "request" THEN "worker_requested" ELSE "completion_requested"
  BY DEF Prepared
<1>4. /\ p.turns \in Seq(TurnRecords) /\ Len(p.turns) = n + 1 /\ p.turns[n + 1] = t
      /\ \A l \in 1 .. n : p.turns[l] = o.turns[l]
  BY <1>1, <1>2, <1>3
<1>5. p \in Operations
  BY <1>3, <1>4 DEF Prepared, Operations, Phases
<1>6. p.turns # <<>> /\ Last(p.turns) = t
  BY <1>1, <1>4 DEF Last
<1>7. \A l \in 1 .. n : o.turns[l].acked /\ o.turns[l].stopped
  BY StoppedTurns
<1>8. \A l \in 1 .. (Len(p.turns) - 1) : p.turns[l].acked /\ p.turns[l].stopped
  BY <1>1, <1>4, <1>7
<1>9. p.phase \in Launching /\ p.phase \notin {None, "requested"}
  BY <1>3 DEF Launching, None
<1> QED
  BY <1>2, <1>3, <1>4, <1>5, <1>6, <1>8, <1>9 DEF Shape

\* A change of the last turn.
LEMMA LastTurnFacts ==
    ASSUME NEW s \in Seq(TurnRecords), s # <<>>, NEW t \in TurnRecords
    PROVE  /\ Len(s) \in Nat /\ Len(s) > 0 /\ Len(s) \in 1 .. Len(s)
           /\ [s EXCEPT ![Len(s)] = t] \in Seq(TurnRecords)
           /\ Len([s EXCEPT ![Len(s)] = t]) = Len(s)
           /\ [s EXCEPT ![Len(s)] = t][Len(s)] = t
           /\ \A l \in 1 .. (Len(s) - 1) : [s EXCEPT ![Len(s)] = t][l] = s[l]
           /\ [s EXCEPT ![Len(s)] = t] # <<>>
<1>1. Len(s) \in Nat /\ Len(s) > 0
  OBVIOUS
<1> DEFINE e == [s EXCEPT ![Len(s)] = t]
<1>2. e \in Seq(TurnRecords) /\ Len(e) = Len(s)
  BY <1>1
<1>3. DOMAIN s = 1 .. Len(s) /\ s \in [1 .. Len(s) -> TurnRecords]
  OBVIOUS
<1>4. Len(s) \in 1 .. Len(s)
  BY <1>1
<1>5. e[Len(s)] = t /\ \A l \in 1 .. Len(s) : l # Len(s) => e[l] = s[l]
  BY <1>3, <1>4
<1>6. \A l \in 1 .. (Len(s) - 1) : l \in 1 .. Len(s) /\ l # Len(s)
  BY <1>1
<1>7. Len(<<>>) = 0
  OBVIOUS
<1> HIDE DEF e
<1>8. e # <<>>
  BY <1>1, <1>2, <1>7
<1>9. \A l \in 1 .. (Len(s) - 1) : e[l] = s[l]
  BY <1>5, <1>6
<1> QED
  BY <1>1, <1>2, <1>4, <1>5, <1>8, <1>9 DEF e

LEMMA AcknowledgedFacts ==
    ASSUME NEW o \in Operations, Shape(o), o.phase \in Launching
    PROVE  /\ Acknowledged(o) \in Operations /\ Shape(Acknowledged(o))
           /\ Acknowledged(o).phase = o.phase
           /\ Last(Acknowledged(o).turns).acked
           /\ Len(Acknowledged(o).turns) = Len(o.turns)
           /\ \A l \in 1 .. Len(o.turns) : Acknowledged(o).turns[l].stopped = o.turns[l].stopped
           /\ ~WorkerStopped(o)
<1> DEFINE n == Len(o.turns)
           t == [o.turns[n] EXCEPT !.acked = TRUE]
           p == Acknowledged(o)
<1>1. /\ o.turns \in Seq(TurnRecords) /\ o.turns # <<>> /\ ~o.turns[n].stopped
      /\ \A l \in 1 .. (n - 1) : o.turns[l].acked /\ o.turns[l].stopped
  BY StoppedTurns DEF Shape, Last
<1>2. n \in Nat /\ n > 0 /\ o.turns[n] \in TurnRecords
  BY <1>1
<1>3. t \in TurnRecords /\ t.acked /\ t.stopped = o.turns[n].stopped
  BY <1>2 DEF TurnRecords
<1>4. p = [o EXCEPT !.turns = [o.turns EXCEPT ![n] = t]]
  BY DEF Acknowledged, LastTurn
<1>5. p.phase = o.phase /\ p.turns = [o.turns EXCEPT ![n] = t]
  BY <1>4 DEF Operations
<1> HIDE DEF t, p
<1>6. /\ p.turns \in Seq(TurnRecords) /\ Len(p.turns) = n /\ p.turns[n] = t /\ p.turns # <<>>
      /\ \A l \in 1 .. (n - 1) : p.turns[l] = o.turns[l]
  BY <1>1, <1>3, <1>5, LastTurnFacts
<1>7. p \in Operations
  BY <1>4, <1>5, <1>6 DEF Operations
<1>8. Last(p.turns) = t
  BY <1>6 DEF Last
<1>9. ~WorkerStopped(o)
  BY <1>1, <1>2, StoppedTurns
<1>10. \A l \in 1 .. n : l = n \/ l \in 1 .. (n - 1)
  BY <1>2
<1>11. Shape(p)
  BY <1>1, <1>3, <1>5, <1>6, <1>8 DEF Shape, Launching, None
<1> QED
  BY <1>3, <1>5, <1>6, <1>7, <1>8, <1>9, <1>10, <1>11 DEF p

LEMMA StoppedFacts ==
    ASSUME NEW o \in Operations, Shape(o), o.phase \in Launching, Last(o.turns).acked,
           NEW observed \in BOOLEAN
    PROVE  /\ Stopped(o, observed) \in Operations /\ Shape(Stopped(o, observed))
           /\ WorkerStopped(Stopped(o, observed))
           /\ o.phase = "worker_requested" => Stopped(o, observed).phase = "worker_stopped"
           /\ o.phase # "worker_requested" => Stopped(o, observed).phase = "completion_stopped"
           /\ Len(Stopped(o, observed).turns) = Len(o.turns)
           /\ \A l \in 1 .. (Len(o.turns) - 1) : Stopped(o, observed).turns[l] = o.turns[l]
<1> DEFINE n == Len(o.turns)
           t == [o.turns[n] EXCEPT !.stopped = TRUE, !.observed = observed]
           p == Stopped(o, observed)
           ph == IF o.phase = "worker_requested" THEN "worker_stopped" ELSE "completion_stopped"
<1>1. /\ o.turns \in Seq(TurnRecords) /\ o.turns # <<>> /\ o.turns[n].acked
      /\ \A l \in 1 .. (n - 1) : o.turns[l].acked /\ o.turns[l].stopped
  BY StoppedTurns DEF Shape, Last
<1>2. n \in Nat /\ n > 0 /\ o.turns[n] \in TurnRecords
  BY <1>1
<1>3. t \in TurnRecords /\ t.stopped /\ t.acked = o.turns[n].acked
  BY <1>2 DEF TurnRecords
<1>4. p = [o EXCEPT !.phase = ph, !.turns = [o.turns EXCEPT ![n] = t]]
  BY <1>1, <1>2 DEF Stopped, LastTurn, Operations
<1>5. p.phase = ph /\ p.turns = [o.turns EXCEPT ![n] = t]
  BY <1>4 DEF Operations
<1>6. ph \in {"worker_stopped", "completion_stopped"}
  OBVIOUS
<1> HIDE DEF t, p
<1>7. /\ p.turns \in Seq(TurnRecords) /\ Len(p.turns) = n /\ p.turns[n] = t /\ p.turns # <<>>
      /\ \A l \in 1 .. (n - 1) : p.turns[l] = o.turns[l]
  BY <1>1, <1>3, <1>5, LastTurnFacts
<1>8. p \in Operations
  BY <1>4, <1>5, <1>6, <1>7 DEF Operations, Phases
<1>9. \A l \in 1 .. n : l = n \/ l \in 1 .. (n - 1)
  BY <1>2
<1>10. \A l \in 1 .. n : p.turns[l].acked /\ p.turns[l].stopped
  BY <1>1, <1>3, <1>7, <1>9
<1>11. WorkerStopped(p)
  BY <1>7, <1>8, <1>10, StoppedTurns
<1>12. Shape(p)
  BY <1>5, <1>6, <1>11 DEF Shape, Launching, None
<1> QED
  BY <1>5, <1>7, <1>8, <1>11, <1>12 DEF p

-----------------------------------------------------------------------------
\* What a step may do to the operation, to a call and to the evidence without
\* breaking what is recorded.

OpMoves ==
    \/ op' = op
    \/ /\ op.phase # "accepted" /\ op'.phase # "accepted"
       /\ op.phase \in AfterCall => op'.phase \in AfterCall
       /\ op'.phase \in AfterCapture => op.phase \in AfterCapture \/ ProviderSuccess
       /\ op'.phase = "proposed" => proposal # None

Settles(d) ==
    \/ host'[d] = host[d]
    \/ /\ Suits(host'[d].at, host'[d].view)
       /\ host'[d].at = "proposing" => proposal' # None
       /\ host'[d].at = "checked" => slot = "active"

EvidenceGrows ==
    /\ published \subseteq published'
    /\ proposal # None => proposal' = proposal

NoneStarts == \A d \in Calls : Sending(d)' => Sending(d)

LEMMA NoOperationTyped == NoOperation \in Operations /\ Idle \in [at : Places, view : Operations]
<1>1. <<>> \in Seq(TurnRecords)
  OBVIOUS
<1>2. NoOperation \in Operations
  BY <1>1 DEF NoOperation, Operations, Phases
<1> QED
  BY <1>2 DEF Idle, Places, Awaits

\* A call that goes on without sending keeps what the provider's journal says.
LEMMA ProvidedKept ==
    ASSUME IInv, OpMoves, EvidenceGrows, NoneStarts, \A d \in Calls : Settles(d),
           UNCHANGED provider
    PROVE  Provided'
<1>1. call' = call /\ received' = received
  BY DEF provider
<1>2. Provided
  BY DEF IInv
<1>3. \A d \in Calls : Sending(d)' => Sending(d)
  BY DEF NoneStarts
<1>4. (\A d \in Calls : Sending(d) => call.status = "dispatching")'
  BY <1>1, <1>2, <1>3 DEF Provided
<1>5. (\A d, e \in Calls : Sending(d) /\ Sending(e) => d = e)'
  BY <1>2, <1>3 DEF Provided
<1>6. (call.status # None => op.phase \in AfterCall)'
  BY <1>1, <1>2 DEF Provided, OpMoves, AfterCall
<1>7. (/\ call.status = None => ~received
       /\ call.status = "settlement_pending" => (call.effect = "not_received" <=> ~received))'
  BY <1>1, <1>2 DEF Provided
<1>8. ProviderSuccess' <=> ProviderSuccess
  BY <1>1 DEF ProviderSuccess
<1>9. Linked(op) /\ (proposal # None => proposal' # None)
  BY <1>2 DEF Provided, EvidenceGrows
<1>10. Linked(op)'
  BY <1>8, <1>9 DEF Linked, OpMoves
<1>11. (\A d \in Calls : At(d, "proposing") => proposal # None)'
  BY <1>2, <1>9 DEF Provided, At, Settles
<1> QED
  BY <1>4, <1>5, <1>6, <1>7, <1>10, <1>11 DEF Provided

\* A step that leaves the scheduler alone keeps the invariant when what it
\* does to the operation, the calls, the evidence and the provider is sound.
LEMMA Kept ==
    ASSUME IInv, TypeOK', Recorded', Provided', OpMoves, EvidenceGrows,
           \A d \in Calls : Settles(d), UNCHANGED scheduling,
           hold = "released" => received' = received
                                /\ call'.status \in {None, "settlement_pending"},
           SoleProcess => (SlotReleased => WorkerStopped(op'))
    PROVE  IInv'
<1>1. slot' = slot /\ hold' = hold /\ run' = run /\ proof' = proof
  BY DEF scheduling
<1>2. Placed'
  BY DEF IInv, Placed, Settles
<1>3. op'.phase = "accepted" <=> op.phase = "accepted"
  BY DEF OpMoves
<1>4. op.phase = "accepted" => published' = {"response", "output"} /\ proposal' = "accepted"
  BY DEF IInv, Settling, EvidenceGrows, TypeOK, None
<1>5. Settling'
  BY <1>1, <1>3, <1>4 DEF IInv, Settling
<1>6. SoleProcess => Fenced'
  <2> SUFFICES ASSUME SoleProcess PROVE Fenced'
    OBVIOUS
  <2>1. Fenced
    BY DEF IInv
  <2>2. (\A c \in Calls : At(c, "checked") => slot = "active")'
    BY <1>1, <2>1 DEF Fenced, At, Settles
  <2>3. (SlotReleased => WorkerStopped(op))'
    BY <1>1 DEF SlotReleased, WorkerStopped
  <2> QED
    BY <2>2, <2>3 DEF Fenced
<1> QED
  BY <1>2, <1>5, <1>6 DEF IInv

-----------------------------------------------------------------------------
\* What a call's return, move and append do to the hosts.

\* A call that returns drops its operation, its claim and its permit.
LEMMA Returned ==
    ASSUME TypeOK, NEW c \in Calls, Return(c)
    PROVE  /\ host' \in [Calls -> [at : Places, view : Operations]]
           /\ owner' \in Calls \cup {None}
           /\ permit' \in [Calls -> {None, "pending", "claimed"}]
           /\ host'[c] = Idle /\ \A d \in Calls : d # c => host'[d] = host[d]
           /\ \A d \in Calls : Settles(d)
           /\ NoneStarts
<1>1. /\ host' \in [Calls -> [at : Places, view : Operations]]
      /\ owner' \in Calls \cup {None}
      /\ permit' \in [Calls -> {None, "pending", "claimed"}]
      /\ host'[c] = Idle /\ \A d \in Calls : d # c => host'[d] = host[d]
  BY NoOperationTyped DEF TypeOK, Return
<1>2. Suits("idle", NoOperation)
  BY DEF Suits
<1>3. Idle.at = "idle" /\ Idle.view = NoOperation
  BY DEF Idle
<1>4. \A d \in Calls : Settles(d)
  BY <1>1, <1>2, <1>3 DEF Settles
<1>5. NoneStarts
  BY <1>1, <1>3 DEF NoneStarts, Sending
<1> QED
  BY <1>1, <1>4, <1>5

\* A call that goes elsewhere takes its operation along.
LEMMA Went ==
    ASSUME TypeOK, NEW c \in Calls, NEW place \in Places, GoTo(c, place)
    PROVE  /\ host' \in [Calls -> [at : Places, view : Operations]]
           /\ host'[c].at = place /\ host'[c].view = host[c].view
           /\ \A d \in Calls : d # c => host'[d] = host[d]
BY DEF TypeOK, GoTo

\* A call that appends holds what it appended.
LEMMA Holds ==
    ASSUME TypeOK, NEW c \in Calls, NEW place \in Places, NEW new \in Operations,
           host' = [host EXCEPT ![c] = [at |-> place, view |-> new]]
    PROVE  /\ host' \in [Calls -> [at : Places, view : Operations]]
           /\ host'[c].at = place /\ host'[c].view = new
           /\ \A d \in Calls : d # c => host'[d] = host[d]
BY DEF TypeOK

\* The moves of one call that suit it are moves of all calls.
LEMMA OneMoves ==
    ASSUME NEW c \in Calls, \A d \in Calls : d # c => host'[d] = host[d],
           Suits(host'[c].at, host'[c].view),
           host'[c].at = "proposing" => proposal' # None,
           host'[c].at = "checked" => slot = "active"
    PROVE  /\ \A d \in Calls : Settles(d)
           /\ (host'[c].at \in {"sending", "answering"} => Sending(c)) => NoneStarts
BY DEF Settles, NoneStarts, Sending

\* A step that leaves the operation and the units alone.
LEMMA Untouched ==
    ASSUME IInv, op' = op, unit' = unit
    PROVE  /\ Recorded' /\ OpMoves
           /\ SoleProcess => (SlotReleased => WorkerStopped(op'))
BY DEF IInv, Recorded, OpMoves, Shape, WorkerStopped, Fenced

\* A step of a call between two of its reads and writes.
LEMMA QuietStep ==
    ASSUME IInv, TypeOK', op' = op, unit' = unit, EvidenceGrows, NoneStarts,
           \A d \in Calls : Settles(d), UNCHANGED <<scheduling, provider>>
    PROVE  IInv'
<1>1. Recorded' /\ OpMoves /\ (SoleProcess => (SlotReleased => WorkerStopped(op')))
  BY Untouched
<1>2. Provided'
  BY <1>1, ProvidedKept
<1>3. hold = "released" => received' = received /\ call'.status \in {None, "settlement_pending"}
  BY DEF IInv, Settling, provider
<1> QED
  BY <1>1, <1>2, <1>3, Kept

\* A step that appends to the operation.
LEMMA AppendStep ==
    ASSUME IInv, TypeOK', Recorded', OpMoves, NoneStarts, \A d \in Calls : Settles(d),
           SoleProcess => (SlotReleased => WorkerStopped(op')),
           UNCHANGED <<scheduling, provider, evidence>>
    PROVE  IInv'
<1>1. EvidenceGrows
  BY DEF EvidenceGrows, evidence
<1>2. Provided'
  BY <1>1, ProvidedKept
<1>3. hold = "released" => received' = received /\ call'.status \in {None, "settlement_pending"}
  BY DEF IInv, Settling, provider
<1> QED
  BY <1>1, <1>2, <1>3, Kept

-----------------------------------------------------------------------------
\* The steps of a call, one by one.

\* The parts of the type invariant that most steps leave alone.
LEMMA TypedStep ==
    ASSUME TypeOK, op' \in Operations, host' \in [Calls -> [at : Places, view : Operations]],
           owner' \in Calls \cup {None}, permit' \in [Calls -> {None, "pending", "claimed"}],
           unit' \in [Turns -> {None, "starting", "running", "stopped"}],
           UNCHANGED <<scheduling, world>>, faults' \in Nat,
           published' \subseteq {"response", "output"},
           proposal' \in {None, "accepted", "rejected"},
           call' \in [status : {None, "dispatching", "known_success", "known_failure", "unknown",
                                "settlement_pending"},
                      priced : BOOLEAN, effect : {None, "charged", "not_received"}],
           received' \in BOOLEAN
    PROVE  TypeOK'
BY DEF TypeOK, scheduling

\* A step that leaves operation, units, evidence and provider alone and moves
\* one call.
LEMMA QuietMove ==
    ASSUME IInv, NEW c \in Calls, NEW place \in Places, NEW view \in Operations,
           host' \in [Calls -> [at : Places, view : Operations]],
           host'[c].at = place, host'[c].view = view,
           \A d \in Calls : d # c => host'[d] = host[d],
           Suits(place, view), place \notin {"sending", "answering", "proposing"},
           place = "checked" => slot = "active",
           owner' \in Calls \cup {None}, permit' \in [Calls -> {None, "pending", "claimed"}],
           UNCHANGED <<op, unit, world, scheduling, evidence, provider>>, faults' \in Nat
    PROVE  IInv'
<1>1. TypeOK'
  BY TypedStep DEF IInv, TypeOK, evidence, provider
<1>2. NoneStarts /\ \A d \in Calls : Settles(d)
  BY OneMoves
<1>3. EvidenceGrows
  BY DEF EvidenceGrows, evidence
<1> QED
  BY <1>1, <1>2, <1>3, QuietStep

\* A call that returns and leaves everything else alone.
LEMMA QuietReturn ==
    ASSUME IInv, NEW c \in Calls, Return(c),
           UNCHANGED <<op, unit, world, scheduling, evidence, provider>>, faults' \in Nat
    PROVE  IInv'
<1>0. TypeOK
  BY DEF IInv
<1>1. TypeOK'
  BY <1>0, Returned, TypedStep DEF TypeOK, evidence, provider
<1>2. NoneStarts /\ \A d \in Calls : Settles(d)
  BY <1>0, Returned
<1>3. EvidenceGrows
  BY DEF EvidenceGrows, evidence
<1> QED
  BY <1>1, <1>2, <1>3, QuietStep

\* The first checkpoint and the claim.
LEMMA RegisterKeeps ==
    ASSUME IInv, NEW c \in Calls, Register(c)
    PROVE  IInv'
<1> DEFINE new == [phase |-> "requested", turns |-> <<>>]
<1>0. TypeOK /\ Recorded
  BY DEF IInv
<1>1. /\ op.phase = None /\ op' = new /\ GoTo(c, "claiming")
      /\ UNCHANGED <<unit, world, owner, permit, faults, scheduling, evidence, provider>>
  BY DEF Register
<1>2. <<>> \in Seq(TurnRecords) /\ Len(<<>>) = 0
  OBVIOUS
<1>3. op' \in Operations
  BY <1>1, <1>2 DEF Operations, Phases
<1>4. op.turns = <<>>
  BY <1>0, <1>1 DEF Recorded, Shape
<1>5. WorkerStopped(op')
  BY <1>1, <1>2 DEF WorkerStopped, ToSet
<1>6. Shape(op')
  BY <1>1, <1>5 DEF Shape, Launching
<1>7. op'.turns = op.turns
  BY <1>1, <1>4
<1>8. Recorded'
  BY <1>0, <1>1, <1>6, <1>7 DEF Recorded, Shape, WorkerStopped
<1>9. "claiming" \in Places
  BY DEF Places, Awaits
<1>10. /\ host' \in [Calls -> [at : Places, view : Operations]]
       /\ host'[c].at = "claiming" /\ \A d \in Calls : d # c => host'[d] = host[d]
  BY <1>0, <1>1, <1>9, Went
<1>11. Suits("claiming", host'[c].view)
  BY DEF Suits
<1>12. NoneStarts /\ \A d \in Calls : Settles(d)
  BY <1>10, <1>11, OneMoves
<1>13. OpMoves
  BY <1>1 DEF OpMoves, AfterCall, AfterCapture, None
<1>14. TypeOK'
  BY <1>0, <1>1, <1>3, <1>10, TypedStep DEF TypeOK, evidence, provider
<1> QED
  BY <1>1, <1>5, <1>8, <1>12, <1>13, <1>14, AppendStep

LEMMA BeginKeeps ==
    ASSUME IInv, NEW c \in Calls, Begin(c)
    PROVE  IInv'
<1>0. TypeOK
  BY DEF IInv
<1>1. "claiming" \in Places /\ Suits("claiming", host[c].view) /\ host[c].view \in Operations
  BY <1>0 DEF Places, Awaits, Suits, TypeOK
<1>2. /\ GoTo(c, "claiming")
      /\ UNCHANGED <<op, unit, world, owner, permit, faults, scheduling, evidence, provider>>
  BY DEF Begin
<1>3. /\ host' \in [Calls -> [at : Places, view : Operations]]
      /\ host'[c].at = "claiming" /\ host'[c].view = host[c].view
      /\ \A d \in Calls : d # c => host'[d] = host[d]
  BY <1>0, <1>1, <1>2, Went
<1>4. owner' \in Calls \cup {None} /\ permit' \in [Calls -> {None, "pending", "claimed"}]
      /\ faults' \in Nat
  BY <1>0, <1>2 DEF TypeOK
<1> QED
  BY <1>1, <1>2, <1>3, <1>4, QuietMove

LEMMA ClaimKeeps ==
    ASSUME IInv, NEW c \in Calls, Claim(c)
    PROVE  IInv'
<1>0. TypeOK
  BY DEF IInv
<1>1. UNCHANGED <<op, unit, world, permit, faults, scheduling, evidence, provider>>
  BY DEF Claim
<1>2. permit' \in [Calls -> {None, "pending", "claimed"}] /\ faults' \in Nat
  BY <1>0, <1>1 DEF TypeOK
<1>3. CASE owner' = c /\ GoTo(c, "deciding")
  <2>1. "deciding" \in Places /\ Suits("deciding", host[c].view) /\ host[c].view \in Operations
    BY <1>0 DEF Places, Awaits, Suits, TypeOK
  <2>2. /\ host' \in [Calls -> [at : Places, view : Operations]]
        /\ host'[c].at = "deciding" /\ host'[c].view = host[c].view
        /\ \A d \in Calls : d # c => host'[d] = host[d]
    BY <1>0, <1>3, <2>1, Went
  <2> QED
    BY <1>1, <1>2, <1>3, <2>1, <2>2, QuietMove
<1>4. CASE owner' = owner /\ host' = [host EXCEPT ![c] = Idle]
  <2>1. /\ host' \in [Calls -> [at : Places, view : Operations]]
        /\ host'[c].at = "idle" /\ host'[c].view = NoOperation
        /\ \A d \in Calls : d # c => host'[d] = host[d]
    BY <1>0, <1>4, NoOperationTyped DEF TypeOK, Idle
  <2>2. "idle" \in Places /\ Suits("idle", NoOperation) /\ owner' \in Calls \cup {None}
    BY <1>0, <1>4 DEF Places, Awaits, Suits, TypeOK
  <2> QED
    BY <1>1, <1>2, <2>1, <2>2, NoOperationTyped, QuietMove
<1> QED
  BY <1>3, <1>4 DEF Claim

\* A stop is only decided for a turn that was acknowledged.
LEMMA DecideKeeps ==
    ASSUME IInv, NEW c \in Calls, Decide(c)
    PROVE  IInv'
<1>0. TypeOK
  BY DEF IInv
<1>1. UNCHANGED <<op, unit, world, faults, scheduling, evidence, provider>>
  BY DEF Decide
<1>2. faults' \in Nat
  BY <1>0, <1>1 DEF TypeOK
<1> DEFINE place == PlaceOf(RecoveryAction(op))
<1>3. CASE /\ MayProceed(RecoveryAction(op))
           /\ host' = [host EXCEPT ![c] = [at |-> place, view |-> op]]
           /\ Stays(c)
  <2>1. place \in {"stopping", "reserving", "accepting", "preparing"}
    BY DEF PlaceOf
  <2>2. place = "stopping" => RecoveryAction(op) = "stop"
    BY DEF PlaceOf
  <2>3. RecoveryAction(op) = "stop" => op.phase \in Launching /\ Last(op.turns).acked
    BY DEF RecoveryAction, Launching
  <2>4. Suits(place, op) /\ place \in Places /\ op \in Operations
    BY <1>0, <2>1, <2>2, <2>3 DEF Suits, Places, Awaits, TypeOK
  <2> HIDE DEF place
  <2>5. /\ host' \in [Calls -> [at : Places, view : Operations]]
        /\ host'[c].at = place /\ host'[c].view = op
        /\ \A d \in Calls : d # c => host'[d] = host[d]
    BY <1>0, <1>3, <2>4, Holds
  <2>6. owner' \in Calls \cup {None} /\ permit' \in [Calls -> {None, "pending", "claimed"}]
    BY <1>0, <1>3 DEF Stays, TypeOK
  <2> QED
    BY <1>1, <1>2, <2>1, <2>4, <2>5, <2>6, QuietMove
<1>4. CASE Return(c)
  BY <1>1, <1>2, <1>4, QuietReturn
<1> QED
  BY <1>3, <1>4 DEF Decide

\* A step that appends to the operation and moves one call.
LEMMA AppendMove ==
    ASSUME IInv, NEW c \in Calls, NEW place \in Places, NEW view \in Operations,
           host' \in [Calls -> [at : Places, view : Operations]],
           host'[c].at = place, host'[c].view = view,
           \A d \in Calls : d # c => host'[d] = host[d],
           Suits(place, view), place \notin {"sending", "answering", "proposing", "checked"},
           owner' \in Calls \cup {None}, permit' \in [Calls -> {None, "pending", "claimed"}],
           op' \in Operations, unit' \in [Turns -> {None, "starting", "running", "stopped"}],
           Recorded', OpMoves, SoleProcess => (SlotReleased => WorkerStopped(op')),
           UNCHANGED <<world, scheduling, evidence, provider>>, faults' \in Nat
    PROVE  IInv'
<1>1. TypeOK'
  BY TypedStep DEF IInv, TypeOK, evidence, provider
<1>2. NoneStarts /\ \A d \in Calls : Settles(d)
  BY OneMoves
<1> QED
  BY <1>1, <1>2, AppendStep

\* Which units the journal knows to be stopped once the last turn is stopped.
LEMMA StoppedRecorded ==
    ASSUME IInv, NEW observed \in BOOLEAN, op.phase \in Launching, Last(op.turns).acked,
           op' = Stopped(op, observed),
           \A l \in Turns : unit'[l] = IF l = Len(op.turns) THEN "stopped" ELSE unit[l]
    PROVE  /\ Recorded' /\ OpMoves /\ op' \in Operations /\ WorkerStopped(op')
           /\ op.phase # "worker_requested" => op'.phase = "completion_stopped"
<1>1. op \in Operations /\ Shape(op) /\ Recorded
  BY DEF IInv, TypeOK, Recorded
<1>2. /\ op' \in Operations /\ Shape(op') /\ WorkerStopped(op')
      /\ op.phase = "worker_requested" => op'.phase = "worker_stopped"
      /\ op.phase # "worker_requested" => op'.phase = "completion_stopped"
      /\ Len(op'.turns) = Len(op.turns)
      /\ \A l \in 1 .. (Len(op.turns) - 1) : op'.turns[l] = op.turns[l]
  BY <1>1, StoppedFacts
<1>3. Len(op.turns) \in Nat
  BY <1>1, StoppedTurns
<1>4. ASSUME NEW l \in Turns
      PROVE  IF l <= Len(op'.turns) THEN op'.turns[l].stopped => unit'[l] = "stopped"
                                    ELSE unit'[l] = None
  <2>1. l \in Nat \ {0}
    BY Bounds DEF Turns
  <2>2. CASE l = Len(op.turns)
    BY <1>2, <1>3, <2>1, <2>2
  <2>3. CASE l < Len(op.turns)
    <3>1. l \in 1 .. (Len(op.turns) - 1)
      BY <1>3, <2>1, <2>3
    <3> QED
      BY <1>1, <1>2, <1>3, <2>1, <2>3, <3>1 DEF Recorded
  <2>4. CASE l > Len(op.turns)
    BY <1>1, <1>2, <1>3, <2>1, <2>4 DEF Recorded
  <2> QED
    BY <1>3, <2>1, <2>2, <2>3, <2>4
<1>5. Recorded'
  BY <1>2, <1>4 DEF Recorded
<1>6. OpMoves
  BY <1>2 DEF OpMoves, Launching, AfterCall, AfterCapture
<1> QED
  BY <1>2, <1>5, <1>6

\* A recovered turn is recorded as stopped once its unit is.
LEMMA StopTurnKeeps ==
    ASSUME IInv, NEW c \in Calls, StopTurn(c)
    PROVE  IInv'
<1> DEFINE new == Stopped(View(c), FALSE)
<1>0. TypeOK /\ Placed
  BY DEF IInv
<1>1. /\ host[c].at = "stopping" /\ op = View(c) /\ op' = new
      /\ unit' = [unit EXCEPT ![LastTurn(View(c))] = "stopped"]
      /\ host' = [host EXCEPT ![c] = [at |-> "deciding", view |-> new]]
      /\ UNCHANGED <<owner, permit, world, faults, scheduling, evidence, provider>>
  BY DEF StopTurn, At, Append1, Stays
<1>2. op.phase \in Launching /\ Last(op.turns).acked
  BY <1>0, <1>1 DEF Placed, Suits, View
<1>3. op' = Stopped(op, FALSE)
  BY <1>1
<1>4. /\ unit' \in [Turns -> {None, "starting", "running", "stopped"}]
      /\ \A l \in Turns : unit'[l] = IF l = Len(op.turns) THEN "stopped" ELSE unit[l]
  BY <1>0, <1>1 DEF TypeOK, LastTurn
<1>5. Recorded' /\ OpMoves /\ op' \in Operations /\ WorkerStopped(op')
  BY <1>2, <1>3, <1>4, StoppedRecorded
<1>6. Suits("deciding", op') /\ "deciding" \in Places
  BY DEF Suits, Places
<1>7. /\ host' \in [Calls -> [at : Places, view : Operations]]
      /\ host'[c].at = "deciding" /\ host'[c].view = op'
      /\ \A d \in Calls : d # c => host'[d] = host[d]
  BY <1>0, <1>1, <1>5, <1>6, Holds
<1>8. /\ owner' \in Calls \cup {None} /\ permit' \in [Calls -> {None, "pending", "claimed"}]
      /\ faults' \in Nat
  BY <1>0, <1>1 DEF TypeOK
<1> QED
  BY <1>1, <1>4, <1>5, <1>6, <1>7, <1>8, AppendMove

\* A turn is only prepared over an operation whose turns have all ended, and
\* while the slot is active.
LEMMA CheckAgainKeeps ==
    ASSUME IInv, NEW c \in Calls, CheckAgain(c)
    PROVE  IInv'
<1> DEFINE purpose == IF TurnPhase(View(c)) = "request" THEN "request" ELSE "completion"
<1>0. TypeOK /\ Recorded
  BY DEF IInv
<1>1. UNCHANGED <<op, unit, world, faults, scheduling, evidence, provider>> /\ faults' \in Nat
  BY <1>0 DEF CheckAgain, TypeOK
<1>2. CASE Eligible(View(c), purpose) /\ GoTo(c, "checked") /\ Stays(c)
  <2>1. /\ op = View(c) /\ slot = "active"
        /\ \/ op.phase \in PhasesFor(purpose)
           \/ RequestRetryAllowed(op)
    BY <1>2 DEF Eligible, Bound, HoldsSlot
  <2>2. op.phase \in {"requested", "worker_stopped", "response_captured", "completion_stopped"}
    BY <2>1 DEF PhasesFor, RequestRetryAllowed
  <2>3. WorkerStopped(op)
    BY <1>0, <2>2 DEF Recorded, Shape, Launching
  <2>4. Suits("checked", op) /\ "checked" \in Places /\ op \in Operations
    BY <1>0, <2>2, <2>3 DEF Suits, Places, TypeOK
  <2>5. /\ host' \in [Calls -> [at : Places, view : Operations]]
        /\ host'[c].at = "checked" /\ host'[c].view = op
        /\ \A d \in Calls : d # c => host'[d] = host[d]
    BY <1>0, <1>2, <2>1, <2>4, Went DEF View
  <2>6. owner' \in Calls \cup {None} /\ permit' \in [Calls -> {None, "pending", "claimed"}]
    BY <1>0, <1>2 DEF Stays, TypeOK
  <2> QED
    BY <1>1, <2>1, <2>4, <2>5, <2>6, QuietMove
<1>3. CASE Return(c)
  BY <1>1, <1>3, QuietReturn
<1> QED
  BY <1>2, <1>3 DEF CheckAgain

LEMMA PrepareTurnKeeps ==
    ASSUME IInv, NEW c \in Calls, PrepareTurn(c)
    PROVE  IInv'
<1> DEFINE new == Prepared(View(c))
           n == Len(op.turns)
<1>0. TypeOK /\ Placed /\ Recorded /\ op \in Operations
  BY DEF IInv, TypeOK
<1>1. /\ host[c].at = "checked" /\ op = View(c) /\ op' = new
      /\ unit' = [unit EXCEPT ![LastTurn(View(c)) + 1] = "starting"]
      /\ host' = [host EXCEPT ![c] = [at |-> "starting", view |-> new]]
      /\ UNCHANGED <<owner, permit, world, faults, scheduling, evidence, provider>>
  BY DEF PrepareTurn, At, Append1, Stays
<1>2. /\ op.phase \in {"requested", "worker_stopped", "response_captured", "completion_stopped"}
      /\ WorkerStopped(op)
  BY <1>0, <1>1 DEF Placed, Suits, View
<1>3. op' = Prepared(op)
  BY <1>1
<1>4. /\ op' \in Operations /\ Shape(op') /\ op'.phase \in Launching
      /\ TurnPhase(op) = "request" => op'.phase = "worker_requested"
      /\ TurnPhase(op) # "request" => op'.phase = "completion_requested"
      /\ Len(op'.turns) = n + 1
      /\ \A l \in 1 .. n : op'.turns[l] = op.turns[l]
      /\ ~op'.turns[n + 1].stopped
  BY <1>0, <1>2, <1>3, PreparedFacts
<1>5. n \in Nat
  BY <1>0, StoppedTurns
<1>6. /\ unit' \in [Turns -> {None, "starting", "running", "stopped"}]
      /\ \A l \in Turns : unit'[l] = IF l = n + 1 THEN "starting" ELSE unit[l]
  BY <1>0, <1>1 DEF TypeOK, LastTurn
<1>7. ASSUME NEW l \in Turns
      PROVE  IF l <= Len(op'.turns) THEN op'.turns[l].stopped => unit'[l] = "stopped"
                                    ELSE unit'[l] = None
  <2>1. l \in Nat \ {0}
    BY Bounds DEF Turns
  <2>2. CASE l = n + 1
    BY <1>4, <1>5, <2>1, <2>2
  <2>3. CASE l <= n
    <3>1. l \in 1 .. n /\ l # n + 1
      BY <1>5, <2>1, <2>3
    <3> QED
      BY <1>0, <1>4, <1>5, <1>6, <2>1, <2>3, <3>1 DEF Recorded
  <2>4. CASE l > n + 1
    BY <1>0, <1>4, <1>5, <1>6, <2>1, <2>4 DEF Recorded
  <2> QED
    BY <1>5, <2>1, <2>2, <2>3, <2>4
<1>8. Recorded'
  BY <1>4, <1>7 DEF Recorded
<1>9. OpMoves
  BY <1>2, <1>4 DEF OpMoves, Launching, AfterCall, AfterCapture, TurnPhase
<1>10. SoleProcess => ~SlotReleased
  BY <1>1 DEF IInv, Fenced, At, SlotReleased
<1>11. Suits("starting", op') /\ "starting" \in Places
  BY <1>4 DEF Suits, Places, Awaits
<1>12. /\ host' \in [Calls -> [at : Places, view : Operations]]
       /\ host'[c].at = "starting" /\ host'[c].view = op'
       /\ \A d \in Calls : d # c => host'[d] = host[d]
  BY <1>0, <1>1, <1>4, <1>11, Holds
<1>13. /\ owner' \in Calls \cup {None} /\ permit' \in [Calls -> {None, "pending", "claimed"}]
       /\ faults' \in Nat
  BY <1>0, <1>1 DEF TypeOK
<1> QED
  BY <1>1, <1>4, <1>6, <1>8, <1>9, <1>10, <1>11, <1>12, <1>13, AppendMove

LEMMA AckTurnKeeps ==
    ASSUME IInv, NEW c \in Calls, AckTurn(c)
    PROVE  IInv'
<1> DEFINE new == Acknowledged(View(c))
           n == Len(op.turns)
<1>0. TypeOK /\ Placed /\ Recorded /\ op \in Operations /\ Shape(op)
  BY DEF IInv, TypeOK, Recorded
<1>1. /\ host[c].at = "starting" /\ op = View(c) /\ op' = new
      /\ host' = [host EXCEPT ![c] = [at |-> "waiting", view |-> new]]
      /\ UNCHANGED <<owner, permit, unit, world, faults, scheduling, evidence, provider>>
  BY DEF AckTurn, At, Append1, Stays
<1>2. op.phase \in Launching
  BY <1>0, <1>1 DEF Placed, Suits, View
<1>3. op' = Acknowledged(op)
  BY <1>1
<1>4. /\ op' \in Operations /\ Shape(op') /\ op'.phase = op.phase
      /\ Last(op'.turns).acked /\ Len(op'.turns) = n
      /\ \A l \in 1 .. n : op'.turns[l].stopped = op.turns[l].stopped
      /\ ~WorkerStopped(op)
  BY <1>0, <1>2, <1>3, AcknowledgedFacts
<1>5. n \in Nat
  BY <1>0, StoppedTurns
<1>6. ASSUME NEW l \in Turns
      PROVE  IF l <= Len(op'.turns) THEN op'.turns[l].stopped => unit'[l] = "stopped"
                                    ELSE unit'[l] = None
  <2>1. l \in Nat \ {0}
    BY Bounds DEF Turns
  <2>2. l <= n => l \in 1 .. n
    BY <1>5, <2>1
  <2> QED
    BY <1>0, <1>1, <1>4, <2>2 DEF Recorded
<1>7. Recorded'
  BY <1>4, <1>6 DEF Recorded
<1>8. OpMoves
  BY <1>2, <1>4 DEF OpMoves, Launching
<1>9. SoleProcess => ~SlotReleased
  BY <1>4 DEF IInv, Fenced
<1>10. Suits("waiting", op') /\ "waiting" \in Places
  BY <1>2, <1>4 DEF Suits, Places, Awaits
<1>11. /\ host' \in [Calls -> [at : Places, view : Operations]]
       /\ host'[c].at = "waiting" /\ host'[c].view = op'
       /\ \A d \in Calls : d # c => host'[d] = host[d]
  BY <1>0, <1>1, <1>4, <1>10, Holds
<1>12. /\ owner' \in Calls \cup {None} /\ permit' \in [Calls -> {None, "pending", "claimed"}]
       /\ faults' \in Nat /\ unit' \in [Turns -> {None, "starting", "running", "stopped"}]
  BY <1>0, <1>1 DEF TypeOK
<1> QED
  BY <1>1, <1>4, <1>7, <1>8, <1>9, <1>10, <1>11, <1>12, AppendMove

LEMMA WaitTurnKeeps ==
    ASSUME IInv, NEW c \in Calls, WaitTurn(c)
    PROVE  IInv'
<1>0. TypeOK /\ Placed
  BY DEF IInv
<1>1. /\ host[c].at = "waiting" /\ unit[LastTurn(View(c))] = "stopped" /\ op = View(c)
      /\ UNCHANGED <<unit, world, faults, scheduling, evidence, provider>>
  BY DEF WaitTurn, At
<1>2. op.phase \in Launching /\ Last(op.turns).acked
  BY <1>0, <1>1 DEF Placed, Suits, View
<1>3. PICK decoded \in BOOLEAN :
        LET request == View(c).phase = "worker_requested"
            next == Stopped(View(c), request /\ decoded)
        IN  /\ op' = next
            /\ IF decoded
               THEN /\ host' = [host EXCEPT ![c] =
                                  [at |-> IF request THEN "deciding" ELSE "outputting", view |-> next]]
                    /\ Stays(c)
               ELSE Return(c)
  BY DEF WaitTurn
<1> DEFINE observed == op.phase = "worker_requested" /\ decoded
           place == IF op.phase = "worker_requested" THEN "deciding" ELSE "outputting"
<1>4. /\ op' = Stopped(op, observed)
      /\ IF decoded THEN host' = [host EXCEPT ![c] = [at |-> place, view |-> op']] /\ Stays(c)
                    ELSE Return(c)
  BY <1>1, <1>3
<1>5. observed \in BOOLEAN
  OBVIOUS
<1> HIDE DEF observed
<1>6. \A l \in Turns : unit'[l] = IF l = Len(op.turns) THEN "stopped" ELSE unit[l]
  BY <1>1 DEF LastTurn
<1>7. /\ Recorded' /\ OpMoves /\ op' \in Operations /\ WorkerStopped(op')
      /\ op.phase # "worker_requested" => op'.phase = "completion_stopped"
  BY <1>2, <1>4, <1>5, <1>6, StoppedRecorded
<1>8. Suits(place, op') /\ place \in Places /\ place \in {"deciding", "outputting"}
  BY <1>7 DEF Suits, Places
<1> HIDE DEF place
<1>9. /\ faults' \in Nat /\ unit' \in [Turns -> {None, "starting", "running", "stopped"}]
  BY <1>0, <1>1 DEF TypeOK
<1>10. CASE host' = [host EXCEPT ![c] = [at |-> place, view |-> op']] /\ Stays(c)
  <2>1. /\ host' \in [Calls -> [at : Places, view : Operations]]
        /\ host'[c].at = place /\ host'[c].view = op'
        /\ \A d \in Calls : d # c => host'[d] = host[d]
    BY <1>0, <1>7, <1>8, <1>10, Holds
  <2>2. owner' \in Calls \cup {None} /\ permit' \in [Calls -> {None, "pending", "claimed"}]
    BY <1>0, <1>10 DEF Stays, TypeOK
  <2> QED
    BY <1>1, <1>7, <1>8, <1>9, <2>1, <2>2, AppendMove
<1>11. CASE Return(c)
  <2>1. /\ host' \in [Calls -> [at : Places, view : Operations]]
        /\ owner' \in Calls \cup {None} /\ permit' \in [Calls -> {None, "pending", "claimed"}]
        /\ host'[c] = Idle /\ \A d \in Calls : d # c => host'[d] = host[d]
    BY <1>0, <1>11, Returned
  <2>2. host'[c].at = "idle" /\ host'[c].view = NoOperation
    BY <2>1 DEF Idle
  <2>3. Suits("idle", NoOperation) /\ "idle" \in Places
    BY DEF Suits, Places, Awaits
  <2> QED
    BY <1>1, <1>7, <1>9, <2>1, <2>2, <2>3, NoOperationTyped, AppendMove
<1> QED
  BY <1>4, <1>10, <1>11

LEMMA StartUnknownKeeps ==
    ASSUME IInv, NEW c \in Calls, StartUnknown(c)
    PROVE  IInv'
BY QuietReturn DEF IInv, TypeOK, StartUnknown

LEMMA StopUnknownKeeps ==
    ASSUME IInv, NEW c \in Calls, StopUnknown(c)
    PROVE  IInv'
BY QuietReturn DEF IInv, TypeOK, StopUnknown, Fault

LEMMA AbandonKeeps ==
    ASSUME IInv, NEW c \in Calls, Abandon(c)
    PROVE  IInv'
BY QuietReturn DEF IInv, TypeOK, Abandon, Fault

-----------------------------------------------------------------------------
\* The dispatch.

\* A checkpoint that moves the phase on leaves the turns as they are.
LEMMA PhaseMoves ==
    ASSUME TypeOK, Recorded, op.phase \notin Launching,
           NEW phase \in Phases \ (Launching \cup {None, "requested"}),
           op' = [op EXCEPT !.phase = phase], unit' = unit
    PROVE  /\ op' \in Operations /\ op'.phase = phase
           /\ WorkerStopped(op) /\ WorkerStopped(op') /\ Recorded'
<1>1. op \in Operations /\ Shape(op)
  BY DEF TypeOK, Recorded
<1>2. op' \in Operations /\ op'.phase = phase /\ op'.turns = op.turns
  BY <1>1 DEF Operations
<1>3. WorkerStopped(op)
  BY <1>1 DEF Shape
<1>4. WorkerStopped(op')
  BY <1>2, <1>3 DEF WorkerStopped
<1>5. Shape(op')
  BY <1>2, <1>4 DEF Shape
<1>6. Recorded'
  BY <1>2, <1>5 DEF Recorded
<1> QED
  BY <1>2, <1>3, <1>4, <1>6

LEMMA ReserveCallKeeps ==
    ASSUME IInv, NEW c \in Calls, ReserveCall(c)
    PROVE  IInv'
<1> DEFINE new == [View(c) EXCEPT !.phase = "call_reserved"]
<1>0. TypeOK /\ Recorded
  BY DEF IInv
<1>1. UNCHANGED <<unit, world, faults, scheduling, evidence, provider>> /\ faults' \in Nat
  BY <1>0 DEF ReserveCall, TypeOK
<1>2. CASE /\ View(c).phase = "worker_stopped"
           /\ Append1(c, new, "permitted")
           /\ permit' = [permit EXCEPT ![c] = "pending"] /\ owner' = owner
  <2>1. /\ op = View(c) /\ op.phase = "worker_stopped"
        /\ op' = [op EXCEPT !.phase = "call_reserved"]
        /\ host' = [host EXCEPT ![c] = [at |-> "permitted", view |-> new]]
    BY <1>2 DEF Append1
  <2>2. /\ op.phase \notin Launching
        /\ "call_reserved" \in Phases \ (Launching \cup {None, "requested"})
    BY <2>1 DEF Launching, Phases, None
  <2>3. /\ op' \in Operations /\ op'.phase = "call_reserved" /\ WorkerStopped(op') /\ Recorded'
    BY <1>0, <1>1, <2>1, <2>2, PhaseMoves
  <2>4. OpMoves
    BY <2>1, <2>3 DEF OpMoves, AfterCall, AfterCapture
  <2>5. Suits("permitted", op') /\ "permitted" \in Places
    BY <2>3 DEF Suits, Places
  <2>6. /\ host' \in [Calls -> [at : Places, view : Operations]]
        /\ host'[c].at = "permitted" /\ host'[c].view = op'
        /\ \A d \in Calls : d # c => host'[d] = host[d]
    BY <1>0, <2>1, <2>3, <2>5, Holds
  <2>7. /\ owner' \in Calls \cup {None} /\ permit' \in [Calls -> {None, "pending", "claimed"}]
        /\ unit' \in [Turns -> {None, "starting", "running", "stopped"}]
    BY <1>0, <1>1, <1>2 DEF TypeOK
  <2> QED
    BY <1>1, <2>3, <2>4, <2>5, <2>6, <2>7, AppendMove
<1>3. CASE Return(c) /\ op' = op
  BY <1>1, <1>3, QuietReturn
<1> QED
  BY <1>2, <1>3 DEF ReserveCall

LEMMA IsAcceptedKeeps ==
    ASSUME IInv, NEW c \in Calls, IsAccepted(c)
    PROVE  IInv'
<1>0. TypeOK /\ Placed
  BY DEF IInv
<1>1. /\ UNCHANGED <<op, unit, world, faults, scheduling, evidence, provider>> /\ faults' \in Nat
      /\ host[c].at = "permitted"
  BY <1>0 DEF IsAccepted, TypeOK, At
<1>2. CASE permit' = [permit EXCEPT ![c] = "claimed"] /\ GoTo(c, "brokering") /\ owner' = owner
  <2>1. host[c].view \in Operations /\ host[c].view.phase = "call_reserved"
    BY <1>0, <1>1 DEF TypeOK, Placed, Suits
  <2>2. Suits("brokering", host[c].view) /\ "brokering" \in Places
    BY <2>1 DEF Suits, Places, Awaits
  <2>3. /\ host' \in [Calls -> [at : Places, view : Operations]]
        /\ host'[c].at = "brokering" /\ host'[c].view = host[c].view
        /\ \A d \in Calls : d # c => host'[d] = host[d]
    BY <1>0, <1>2, <2>2, Went
  <2>4. owner' \in Calls \cup {None} /\ permit' \in [Calls -> {None, "pending", "claimed"}]
    BY <1>0, <1>2 DEF TypeOK
  <2> QED
    BY <1>1, <2>1, <2>2, <2>3, <2>4, QuietMove
<1>3. CASE Return(c)
  BY <1>1, <1>3, QuietReturn
<1> QED
  BY <1>2, <1>3 DEF IsAccepted

\* A step that only concerns the provider and one call.
LEMMA ProviderStep ==
    ASSUME IInv, TypeOK', Provided', \A d \in Calls : Settles(d),
           UNCHANGED <<op, unit, scheduling, evidence>>, hold # "released"
    PROVE  IInv'
<1>1. Recorded' /\ OpMoves /\ (SoleProcess => (SlotReleased => WorkerStopped(op')))
  BY Untouched
<1>2. EvidenceGrows
  BY DEF EvidenceGrows, evidence
<1> QED
  BY <1>1, <1>2, Kept

\* The intent of a call is recorded once, while everything is still reserved.
LEMMA RecordIntentKeeps ==
    ASSUME IInv, NEW c \in Calls, RecordIntent(c)
    PROVE  IInv'
<1>0. TypeOK /\ Placed /\ Provided
  BY DEF IInv
<1>1. /\ UNCHANGED <<op, unit, world, received, faults, scheduling, evidence>> /\ faults' \in Nat
      /\ host[c].at = "brokering"
  BY <1>0 DEF RecordIntent, TypeOK, At
<1>2. CASE /\ Eligible(View(c), "dispatch")
           /\ call' = [call EXCEPT !.status = "dispatching"]
           /\ permit' = [permit EXCEPT ![c] = None]
           /\ GoTo(c, "sending") /\ owner' = owner
  <2>1. /\ host[c].view \in Operations /\ host[c].view.phase = "call_reserved"
        /\ op = host[c].view /\ hold = "reserved" /\ call.status = None
    BY <1>0, <1>1, <1>2 DEF TypeOK, Placed, Suits, Eligible, Bound, HoldsSlot, CallAllows, View
  <2>2. Suits("sending", host[c].view) /\ "sending" \in Places
    BY <2>1 DEF Suits, Places, Awaits
  <2>3. /\ host' \in [Calls -> [at : Places, view : Operations]]
        /\ host'[c].at = "sending" /\ host'[c].view = host[c].view
        /\ \A d \in Calls : d # c => host'[d] = host[d]
    BY <1>0, <1>2, <2>2, Went
  <2>4. \A d \in Calls : Settles(d)
    BY <2>2, <2>3, OneMoves
  <2>5. call'.status = "dispatching"
    BY <1>0, <1>2 DEF TypeOK
  <2>6. TypeOK'
    BY <1>0, <1>1, <1>2, <2>3, TypedStep DEF TypeOK, evidence
  <2>7. \A d \in Calls : Sending(d)' => d = c
    BY <1>0, <2>1, <2>3 DEF Provided, Sending, None
  <2>8. Linked(op)'
    BY <1>1, <2>1 DEF Linked, AfterCapture, AfterCall
  <2>9. \A d \in Calls : At(d, "proposing")' => proposal' # None
    BY <1>0, <1>1, <2>3 DEF Provided, At, evidence
  <2>10. Provided'
    BY <1>1, <2>1, <2>5, <2>7, <2>8, <2>9 DEF Provided, AfterCall, None
  <2> QED
    BY <1>1, <2>1, <2>4, <2>6, <2>10, ProviderStep
<1>3. CASE Return(c) /\ call' = call
  BY <1>1, <1>3, QuietReturn DEF provider
<1> QED
  BY <1>2, <1>3 DEF RecordIntent

\* While a call is on its way the reservation cannot have been given back.
LEMMA SendKeeps ==
    ASSUME IInv, NEW c \in Calls, Send(c)
    PROVE  IInv'
<1>0. TypeOK /\ Placed /\ Provided
  BY DEF IInv
<1>1. /\ host[c].at = "sending" /\ GoTo(c, "answering") /\ received' \in BOOLEAN /\ Stays(c)
      /\ UNCHANGED <<op, unit, world, call, faults, scheduling, evidence>>
  BY DEF Send, At
<1>2. call.status = "dispatching" /\ hold # "released"
  BY <1>0, <1>1 DEF Provided, Sending, IInv, Settling, None
<1>3. /\ Suits("answering", host[c].view) /\ "answering" \in Places
  BY <1>0, <1>1 DEF Placed, Suits, Places, Awaits
<1>4. /\ host' \in [Calls -> [at : Places, view : Operations]]
      /\ host'[c].at = "answering" /\ host'[c].view = host[c].view
      /\ \A d \in Calls : d # c => host'[d] = host[d]
  BY <1>0, <1>1, <1>3, Went
<1>5. \A d \in Calls : Settles(d)
  BY <1>3, <1>4, OneMoves
<1>6. TypeOK'
  BY <1>0, <1>1, <1>4, TypedStep DEF TypeOK, evidence, Stays
<1>7. \A d \in Calls : Sending(d)' => Sending(d)
  BY <1>1, <1>4 DEF Sending
<1>8. Linked(op)'
  BY <1>0, <1>1 DEF Provided, Linked, ProviderSuccess, evidence
<1>9. \A d \in Calls : At(d, "proposing")' => proposal' # None
  BY <1>0, <1>1, <1>4 DEF Provided, At, evidence
<1>10. Provided'
  BY <1>0, <1>1, <1>2, <1>7, <1>8, <1>9 DEF Provided, None
<1> QED
  BY <1>1, <1>2, <1>5, <1>6, <1>10, ProviderStep

LEMMA AnswerKeeps ==
    ASSUME IInv, NEW c \in Calls, Answer(c)
    PROVE  IInv'
<1>0. TypeOK /\ Placed /\ Provided
  BY DEF IInv
<1>1. /\ host[c].at = "answering"
      /\ UNCHANGED <<op, unit, world, received, faults, scheduling, evidence>>
  BY DEF Answer, At
<1>2. PICK status \in {"known_success", "known_failure", "unknown"}, priced \in BOOLEAN :
          /\ call' = [call EXCEPT !.status = status, !.priced = priced]
          /\ \/ GoTo(c, "answered") /\ Stays(c)
             \/ Return(c)
  BY DEF Answer
<1>3. call.status = "dispatching" /\ hold # "released"
  BY <1>0, <1>1 DEF Provided, Sending, IInv, Settling, None
<1>4. call'.status = status
  BY <1>0, <1>2 DEF TypeOK
<1>5. Suits("answered", host[c].view) /\ "answered" \in Places
  BY <1>0, <1>1 DEF Placed, Suits, Places
<1>6. /\ host' \in [Calls -> [at : Places, view : Operations]]
      /\ owner' \in Calls \cup {None} /\ permit' \in [Calls -> {None, "pending", "claimed"}]
      /\ \A d \in Calls : d # c => host'[d] = host[d]
      /\ host'[c].at \notin {"sending", "answering", "proposing", "checked"}
      /\ \A d \in Calls : Settles(d)
  <2>1. CASE GoTo(c, "answered") /\ Stays(c)
    <3>1. /\ host' \in [Calls -> [at : Places, view : Operations]]
          /\ host'[c].at = "answered" /\ host'[c].view = host[c].view
          /\ \A d \in Calls : d # c => host'[d] = host[d]
      BY <1>0, <1>5, <2>1, Went
    <3>2. \A d \in Calls : Settles(d)
      BY <1>5, <3>1, OneMoves
    <3> QED
      BY <1>0, <2>1, <3>1, <3>2 DEF Stays, TypeOK
  <2>2. CASE Return(c)
    BY <1>0, <2>2, Returned DEF Idle
  <2> QED
    BY <1>2, <2>1, <2>2
<1>7. TypeOK'
  BY <1>0, <1>1, <1>2, <1>6, TypedStep DEF TypeOK, evidence
<1>8. \A d \in Calls : ~Sending(d)'
  BY <1>0, <1>1, <1>6 DEF Provided, Sending
<1>9. op.phase \in AfterCall /\ op.phase \notin AfterCapture
  BY <1>0, <1>3 DEF Provided, Linked, ProviderSuccess, None
<1>10. Linked(op)'
  BY <1>1, <1>9 DEF Linked, AfterCapture, AfterCall
<1>11. \A d \in Calls : At(d, "proposing")' => proposal' # None
  BY <1>0, <1>1, <1>6 DEF Provided, At, evidence
<1>12. Provided'
  BY <1>1, <1>4, <1>8, <1>9, <1>10, <1>11 DEF Provided, None
<1> QED
  BY <1>1, <1>3, <1>6, <1>7, <1>12, ProviderStep

\* The response is published, then captured.
LEMMA PublishResponseKeeps ==
    ASSUME IInv, NEW c \in Calls, PublishResponse(c)
    PROVE  IInv'
<1>0. TypeOK /\ Placed
  BY DEF IInv
<1>1. /\ host[c].at = "answered" /\ faults' \in Nat
      /\ UNCHANGED <<op, unit, world, proposal, faults, scheduling, provider>>
  BY <1>0 DEF PublishResponse, At, TypeOK
<1>2. CASE published' = published \union {"response"} /\ GoTo(c, "capturing") /\ Stays(c)
  <2>1. Suits("capturing", host[c].view) /\ "capturing" \in Places
    BY <1>0, <1>1 DEF Placed, Suits, Places
  <2>2. /\ host' \in [Calls -> [at : Places, view : Operations]]
        /\ host'[c].at = "capturing" /\ host'[c].view = host[c].view
        /\ \A d \in Calls : d # c => host'[d] = host[d]
    BY <1>0, <1>2, <2>1, Went
  <2>3. NoneStarts /\ \A d \in Calls : Settles(d)
    BY <2>1, <2>2, OneMoves
  <2>4. TypeOK'
    BY <1>0, <1>1, <1>2, <2>2, TypedStep DEF TypeOK, provider, Stays
  <2>5. EvidenceGrows
    BY <1>1, <1>2 DEF EvidenceGrows
  <2> QED
    BY <1>1, <2>3, <2>4, <2>5, QuietStep
<1>3. CASE published' = published /\ Return(c)
  BY <1>1, <1>3, QuietReturn DEF evidence
<1> QED
  BY <1>2, <1>3 DEF PublishResponse

LEMMA CaptureResponseKeeps ==
    ASSUME IInv, NEW c \in Calls, CaptureResponse(c)
    PROVE  IInv'
<1> DEFINE new == [View(c) EXCEPT !.phase = "response_captured"]
<1>0. TypeOK /\ Recorded /\ Placed
  BY DEF IInv
<1>1. /\ UNCHANGED <<unit, world, faults, scheduling, evidence, provider>> /\ faults' \in Nat
      /\ host[c].at = "capturing" /\ ProviderSuccess /\ Stays(c)
      /\ op = View(c) /\ op' = new
      /\ host' = [host EXCEPT ![c] = [at |-> "deciding", view |-> new]]
  BY <1>0 DEF CaptureResponse, At, Append1, TypeOK
<1>2. op.phase = "call_reserved" /\ op' = [op EXCEPT !.phase = "response_captured"]
  BY <1>0, <1>1 DEF Placed, Suits, View
<1>3. /\ op.phase \notin Launching
      /\ "response_captured" \in Phases \ (Launching \cup {None, "requested"})
  BY <1>2 DEF Launching, Phases, None
<1>4. op' \in Operations /\ op'.phase = "response_captured" /\ WorkerStopped(op') /\ Recorded'
  BY <1>0, <1>1, <1>2, <1>3, PhaseMoves
<1>5. OpMoves
  BY <1>1, <1>2, <1>4 DEF OpMoves, AfterCall
<1>6. Suits("deciding", op') /\ "deciding" \in Places
  BY DEF Suits, Places
<1>7. /\ host' \in [Calls -> [at : Places, view : Operations]]
      /\ host'[c].at = "deciding" /\ host'[c].view = op'
      /\ \A d \in Calls : d # c => host'[d] = host[d]
  BY <1>0, <1>1, <1>4, <1>6, Holds
<1>8. /\ owner' \in Calls \cup {None} /\ permit' \in [Calls -> {None, "pending", "claimed"}]
      /\ unit' \in [Turns -> {None, "starting", "running", "stopped"}]
  BY <1>0, <1>1 DEF TypeOK, Stays
<1> QED
  BY <1>1, <1>4, <1>5, <1>6, <1>7, <1>8, AppendMove

-----------------------------------------------------------------------------
\* The completion and the acceptance.

LEMMA PublishOutputKeeps ==
    ASSUME IInv, NEW c \in Calls, PublishOutput(c)
    PROVE  IInv'
<1>0. TypeOK /\ Placed
  BY DEF IInv
<1>1. /\ host[c].at = "outputting" /\ faults' \in Nat
      /\ published' = published \union {"output"}
      /\ UNCHANGED <<op, unit, world, proposal, faults, scheduling, provider>>
  BY <1>0 DEF PublishOutput, At, TypeOK
<1>2. EvidenceGrows
  BY <1>1 DEF EvidenceGrows
<1>3. CASE GoTo(c, "verifying") /\ Stays(c)
  <2>1. Suits("verifying", host[c].view) /\ "verifying" \in Places
    BY <1>0, <1>1 DEF Placed, Suits, Places, Awaits
  <2>2. /\ host' \in [Calls -> [at : Places, view : Operations]]
        /\ host'[c].at = "verifying" /\ host'[c].view = host[c].view
        /\ \A d \in Calls : d # c => host'[d] = host[d]
    BY <1>0, <1>3, <2>1, Went
  <2>3. NoneStarts /\ \A d \in Calls : Settles(d)
    BY <2>1, <2>2, OneMoves
  <2>4. TypeOK'
    BY <1>0, <1>1, <1>3, <2>2, TypedStep DEF TypeOK, provider, Stays
  <2> QED
    BY <1>1, <1>2, <2>3, <2>4, QuietStep
<1>4. CASE Return(c)
  <2>1. NoneStarts /\ \A d \in Calls : Settles(d)
    BY <1>0, <1>4, Returned
  <2>2. TypeOK'
    BY <1>0, <1>1, <1>4, Returned, TypedStep DEF TypeOK, provider
  <2> QED
    BY <1>1, <1>2, <2>1, <2>2, QuietStep
<1> QED
  BY <1>3, <1>4 DEF PublishOutput

\* Recorded evidence is never replaced.
LEMMA RecordEvidenceKeeps ==
    ASSUME IInv, NEW c \in Calls, RecordEvidence(c)
    PROVE  IInv'
<1>0. TypeOK /\ Placed
  BY DEF IInv
<1>1. /\ host[c].at = "verifying" /\ faults' \in Nat
      /\ UNCHANGED <<op, unit, world, published, faults, scheduling, provider>>
  BY <1>0 DEF RecordEvidence, At, TypeOK
<1>2. PICK outcome \in {"accepted", "rejected"} :
          IF proposal \in {None, outcome}
          THEN proposal' = outcome /\ GoTo(c, "proposing") /\ Stays(c)
          ELSE proposal' = proposal /\ Return(c)
  BY DEF RecordEvidence
<1>3. CASE proposal \in {None, outcome} /\ proposal' = outcome /\ GoTo(c, "proposing") /\ Stays(c)
  <2>1. Suits("proposing", host[c].view) /\ "proposing" \in Places
    BY <1>0, <1>1 DEF Placed, Suits, Places
  <2>2. /\ host' \in [Calls -> [at : Places, view : Operations]]
        /\ host'[c].at = "proposing" /\ host'[c].view = host[c].view
        /\ \A d \in Calls : d # c => host'[d] = host[d]
    BY <1>0, <1>3, <2>1, Went
  <2>3. proposal' # None
    BY <1>3 DEF None
  <2>4. NoneStarts /\ \A d \in Calls : Settles(d)
    BY <2>1, <2>2, <2>3, OneMoves
  <2>5. TypeOK'
    BY <1>0, <1>1, <1>3, <2>2, TypedStep DEF TypeOK, provider, Stays
  <2>6. EvidenceGrows
    BY <1>1, <1>3 DEF EvidenceGrows
  <2> QED
    BY <1>1, <2>4, <2>5, <2>6, QuietStep
<1>4. CASE proposal' = proposal /\ Return(c)
  BY <1>1, <1>4, QuietReturn DEF evidence
<1> QED
  BY <1>2, <1>3, <1>4

LEMMA RecordProposalKeeps ==
    ASSUME IInv, NEW c \in Calls, RecordProposal(c)
    PROVE  IInv'
<1> DEFINE new == [View(c) EXCEPT !.phase = "proposed"]
<1>0. TypeOK /\ Recorded /\ Placed /\ Provided
  BY DEF IInv
<1>1. /\ UNCHANGED <<unit, world, faults, scheduling, evidence, provider>> /\ faults' \in Nat
      /\ host[c].at = "proposing" /\ Stays(c)
      /\ op = View(c) /\ op' = new
      /\ host' = [host EXCEPT ![c] = [at |-> "deciding", view |-> new]]
  BY <1>0 DEF RecordProposal, At, Append1, TypeOK
<1>2. op.phase = "completion_stopped" /\ op' = [op EXCEPT !.phase = "proposed"]
  BY <1>0, <1>1 DEF Placed, Suits, View
<1>3. /\ op.phase \notin Launching
      /\ "proposed" \in Phases \ (Launching \cup {None, "requested"})
  BY <1>2 DEF Launching, Phases, None
<1>4. op' \in Operations /\ op'.phase = "proposed" /\ WorkerStopped(op') /\ Recorded'
  BY <1>0, <1>1, <1>2, <1>3, PhaseMoves
<1>5. proposal # None
  BY <1>0, <1>1 DEF Provided, At
<1>6. OpMoves
  BY <1>2, <1>4, <1>5 DEF OpMoves, AfterCall, AfterCapture
<1>7. Suits("deciding", op') /\ "deciding" \in Places
  BY DEF Suits, Places
<1>8. /\ host' \in [Calls -> [at : Places, view : Operations]]
      /\ host'[c].at = "deciding" /\ host'[c].view = op'
      /\ \A d \in Calls : d # c => host'[d] = host[d]
  BY <1>0, <1>1, <1>4, <1>7, Holds
<1>9. /\ owner' \in Calls \cup {None} /\ permit' \in [Calls -> {None, "pending", "claimed"}]
      /\ unit' \in [Turns -> {None, "starting", "running", "stopped"}]
  BY <1>0, <1>1 DEF TypeOK, Stays
<1> QED
  BY <1>1, <1>4, <1>6, <1>7, <1>8, <1>9, AppendMove

\* What the final transaction has checked.
LEMMA AcceptableFacts ==
    ASSUME TypeOK, NEW o, Acceptable(o)
    PROVE  /\ op = o /\ op.phase = "proposed" /\ run = "running"
           /\ world.lease = "live" /\ world.graph = "frozen"
           /\ proposal = "accepted" /\ published = {"response", "output"}
           /\ ProviderSuccess
<1>1. /\ Eligible(o, "acceptance") /\ proposal = "accepted"
      /\ published = {"response", "output"} /\ TrustedUsage
  BY DEF Acceptable
<1>2. op = o /\ run = "running" /\ Bound /\ CallAllows(o, "acceptance")
  BY <1>1 DEF Eligible
<1>3. o.phase = "proposed"
  BY <1>1 DEF Eligible, PhasesFor
<1>4. ProviderSuccess
  BY <1>1, <1>2 DEF TrustedUsage, CallAllows, ProviderSuccess, None
<1> QED
  BY <1>1, <1>2, <1>3, <1>4 DEF Bound, HoldsSlot

\* An acceptance leaves the operation, the slot, the hold and the proof of
\* the success in agreement.
LEMMA AcceptanceKeeps ==
    ASSUME IInv, Acceptable(op), AcceptProposal,
           host' \in [Calls -> [at : Places, view : Operations]],
           owner' \in Calls \cup {None}, permit' \in [Calls -> {None, "pending", "claimed"}],
           NoneStarts, \A d \in Calls : Settles(d),
           SoleProcess => \A d \in Calls : ~At(d, "checked")',
           UNCHANGED <<unit, world, faults, evidence, provider>>
    PROVE  IInv'
<1>0. TypeOK /\ Recorded /\ Placed /\ Provided /\ Settling
  BY DEF IInv
<1>1. /\ op.phase = "proposed" /\ run = "running"
      /\ world.lease = "live" /\ world.graph = "frozen"
      /\ proposal = "accepted" /\ published = {"response", "output"}
      /\ ProviderSuccess
  BY <1>0, AcceptableFacts
<1>2. /\ op' = [op EXCEPT !.phase = "accepted"] /\ hold' = "committed" /\ slot' = "succeeded"
      /\ proof' = [lease |-> "live", graph |-> "frozen", run |-> "running"] /\ run' = run
  BY <1>1 DEF AcceptProposal
<1>3. /\ op.phase \notin Launching
      /\ "accepted" \in Phases \ (Launching \cup {None, "requested"})
  BY <1>1 DEF Launching, Phases, None
<1>4. op' \in Operations /\ op'.phase = "accepted" /\ WorkerStopped(op') /\ Recorded'
  BY <1>0, <1>2, <1>3, PhaseMoves
<1>5. /\ call' = call /\ received' = received /\ published' = published /\ proposal' = proposal
  BY DEF provider, evidence
<1>6. TypeOK'
  BY <1>0, <1>2, <1>4, <1>5 DEF TypeOK
<1>7. Placed'
  BY <1>0 DEF Placed, Settles
<1>8. Linked(op)'
  BY <1>1, <1>5 DEF Linked, ProviderSuccess, None
<1>9. \A d \in Calls : At(d, "proposing")' => proposal' # None
  BY <1>1, <1>5 DEF None
<1>10. \A d \in Calls : Sending(d)' => Sending(d)
  BY DEF NoneStarts
<1>11. Provided'
  BY <1>0, <1>4, <1>5, <1>8, <1>9, <1>10 DEF Provided, AfterCall
<1>12. Settling'
  BY <1>1, <1>2, <1>4, <1>5 DEF Settling
<1>13. SoleProcess => Fenced'
  BY <1>4 DEF Fenced
<1> QED
  BY <1>4, <1>6, <1>7, <1>11, <1>12, <1>13 DEF IInv

\* While a call runs, or a coroutine of the process does, no other call of
\* that process is between two of its awaits.
LEMMA NobodyChecked ==
    ASSUME SoleProcess, NEW p \in Processes, Free(p)
    PROVE  \A d \in Calls : ~At(d, "checked")
BY DEF SoleProcess, Free, At, Awaits

LEMMA AcceptKeeps ==
    ASSUME IInv, NEW c \in Calls, Scheduled(c), Accept(c)
    PROVE  IInv'
<1>0. TypeOK
  BY DEF IInv
<1>1. /\ host[c].at = "accepting" /\ Return(c)
      /\ UNCHANGED <<unit, world, faults, evidence, provider>> /\ faults' \in Nat
  BY <1>0 DEF Accept, At, TypeOK
<1>2. CASE Acceptable(View(c)) /\ AcceptProposal
  <2>1. Acceptable(op)
    BY <1>0, <1>2, AcceptableFacts
  <2>2. /\ host' \in [Calls -> [at : Places, view : Operations]]
        /\ owner' \in Calls \cup {None} /\ permit' \in [Calls -> {None, "pending", "claimed"}]
        /\ host'[c] = Idle /\ \A d \in Calls : d # c => host'[d] = host[d]
        /\ NoneStarts /\ \A d \in Calls : Settles(d)
    BY <1>0, <1>1, Returned
  <2>3. SoleProcess => \A d \in Calls : ~At(d, "checked")'
    <3> SUFFICES ASSUME SoleProcess, NEW d \in Calls, At(d, "checked")'
                 PROVE  FALSE
      OBVIOUS
    <3>1. d # c /\ host[d].at = "checked"
      BY <2>2 DEF At, Idle
    <3>2. ProcessOf[d] = ProcessOf[c]
      BY CallsRun DEF SoleProcess
    <3> QED
      BY <3>1, <3>2 DEF Scheduled, Awaits
  <2> QED
    BY <1>1, <1>2, <2>1, <2>2, <2>3, AcceptanceKeeps
<1>3. CASE UNCHANGED <<op, scheduling>>
  BY <1>1, <1>3, QuietReturn
<1> QED
  BY <1>2, <1>3 DEF Accept

LEMMA AcceptElsewhereKeeps ==
    ASSUME IInv, NEW p \in Processes, AcceptElsewhere(p)
    PROVE  IInv'
<1>0. TypeOK
  BY DEF IInv
<1>1. /\ Free(p) /\ Acceptable(op) /\ AcceptProposal
      /\ UNCHANGED <<unit, world, host, owner, permit, faults, evidence, provider>>
  BY DEF AcceptElsewhere
<1>2. /\ host' \in [Calls -> [at : Places, view : Operations]]
      /\ owner' \in Calls \cup {None} /\ permit' \in [Calls -> {None, "pending", "claimed"}]
  BY <1>0, <1>1 DEF TypeOK
<1>3. NoneStarts /\ \A d \in Calls : Settles(d)
  BY <1>1 DEF NoneStarts, Settles, Sending
<1>4. SoleProcess => \A d \in Calls : ~At(d, "checked")'
  BY <1>1, NobodyChecked DEF At
<1> QED
  BY <1>1, <1>2, <1>3, <1>4, AcceptanceKeeps

-----------------------------------------------------------------------------
\* Crashes, units and the provider.

\* A process that dies takes its calls with it and nothing else.
LEMMA CrashKeeps ==
    ASSUME IInv, NEW p \in Processes, Crash(p)
    PROVE  IInv'
<1>0. TypeOK
  BY DEF IInv
<1>1. /\ host' = [c \in Calls |-> IF ProcessOf[c] = p THEN Idle ELSE host[c]]
      /\ permit' = [c \in Calls |-> IF ProcessOf[c] = p THEN None ELSE permit[c]]
      /\ owner' = IF owner # None /\ ProcessOf[owner] = p THEN None ELSE owner
      /\ UNCHANGED <<op, unit, world, scheduling, evidence, provider>> /\ faults' \in Nat
  BY <1>0 DEF Crash, Fault, TypeOK
<1>2. /\ host' \in [Calls -> [at : Places, view : Operations]]
      /\ owner' \in Calls \cup {None} /\ permit' \in [Calls -> {None, "pending", "claimed"}]
      /\ \A d \in Calls : host'[d] = host[d] \/ host'[d] = Idle
  BY <1>0, <1>1, NoOperationTyped DEF TypeOK
<1>3. Idle.at = "idle" /\ Suits(Idle.at, Idle.view)
  BY DEF Idle, Suits
<1>4. NoneStarts /\ \A d \in Calls : Settles(d)
  BY <1>2, <1>3 DEF NoneStarts, Sending, Settles
<1>5. TypeOK'
  BY <1>0, <1>1, <1>2, TypedStep DEF TypeOK, evidence, provider
<1>6. EvidenceGrows
  BY <1>1 DEF EvidenceGrows, evidence
<1> QED
  BY <1>1, <1>4, <1>5, <1>6, QuietStep

\* A step of the units keeps those that have stopped, and those that nobody
\* asked for.
LEMMA UnitsKeep ==
    ASSUME IInv, unit' \in [Turns -> {None, "starting", "running", "stopped"}],
           \A l \in Turns : /\ unit[l] = "stopped" => unit'[l] = "stopped"
                            /\ unit[l] = None => unit'[l] = None,
           UNCHANGED <<op, scheduling, evidence, provider>>,
           TypeOK', NoneStarts, \A d \in Calls : Settles(d)
    PROVE  IInv'
<1>1. Recorded /\ op \in Operations
  BY DEF IInv, TypeOK
<1>2. Recorded'
  BY <1>1 DEF Recorded, Shape, WorkerStopped
<1>3. OpMoves /\ (SoleProcess => (SlotReleased => WorkerStopped(op')))
  BY DEF OpMoves, IInv, Fenced, WorkerStopped
<1> QED
  BY <1>2, <1>3, AppendStep

LEMMA RebootKeeps ==
    ASSUME IInv, Reboot
    PROVE  IInv'
<1>0. TypeOK
  BY DEF IInv
<1>1. /\ world' = [world EXCEPT !.boot = "another"]
      /\ host' = [c \in Calls |-> Idle] /\ permit' = [c \in Calls |-> None] /\ owner' = None
      /\ unit' = [l \in Turns |-> IF unit[l] = None THEN None ELSE "stopped"]
      /\ UNCHANGED <<op, scheduling, evidence, provider>> /\ faults' \in Nat
  BY <1>0 DEF Reboot, Fault, TypeOK
<1>2. Idle.at = "idle" /\ Suits(Idle.at, Idle.view)
  BY DEF Idle, Suits
<1>3. NoneStarts /\ \A d \in Calls : Settles(d)
  BY <1>1, <1>2 DEF NoneStarts, Sending, Settles
<1>4. /\ host' \in [Calls -> [at : Places, view : Operations]]
      /\ owner' \in Calls \cup {None} /\ permit' \in [Calls -> {None, "pending", "claimed"}]
  BY <1>1, NoOperationTyped
<1>5. /\ unit' \in [Turns -> {None, "starting", "running", "stopped"}]
      /\ \A l \in Turns : /\ unit[l] = "stopped" => unit'[l] = "stopped"
                          /\ unit[l] = None => unit'[l] = None
  BY <1>1 DEF None
<1>6. TypeOK'
  BY <1>0, <1>1, <1>4, <1>5 DEF TypeOK, scheduling, evidence, provider
<1> QED
  BY <1>1, <1>3, <1>5, <1>6, UnitsKeep

LEMMA UnitKeeps ==
    ASSUME IInv, NEW l \in Turns, UnitStarts(l) \/ UnitEnds(l)
    PROVE  IInv'
<1>0. TypeOK
  BY DEF IInv
<1>1. /\ UNCHANGED <<op, world, host, owner, permit, faults, scheduling, evidence, provider>>
      /\ unit[l] \in {"starting", "running"}
      /\ \E s \in {"running", "stopped"} : unit' = [unit EXCEPT ![l] = s]
  BY DEF UnitStarts, UnitEnds
<1>2. /\ unit' \in [Turns -> {None, "starting", "running", "stopped"}]
      /\ \A m \in Turns : /\ unit[m] = "stopped" => unit'[m] = "stopped"
                          /\ unit[m] = None => unit'[m] = None
  BY <1>0, <1>1 DEF TypeOK, None
<1>3. NoneStarts /\ \A d \in Calls : Settles(d)
  BY <1>1 DEF NoneStarts, Sending, Settles
<1>4. TypeOK'
  BY <1>0, <1>1, <1>2 DEF TypeOK, scheduling, evidence, provider
<1> QED
  BY <1>1, <1>2, <1>3, <1>4, UnitsKeep

LEMMA WorldKeeps ==
    ASSUME IInv, LeaseExpires \/ (\E p \in Processes : AppendGraph(p))
    PROVE  IInv'
<1>0. TypeOK
  BY DEF IInv
<1>1. /\ UNCHANGED <<op, unit, host, owner, permit, faults, scheduling, evidence, provider>>
      /\ \/ world' = [world EXCEPT !.lease = "expired"]
         \/ world' = [world EXCEPT !.graph = "appended"]
  BY DEF LeaseExpires, AppendGraph
<1>2. TypeOK'
  BY <1>0, <1>1 DEF TypeOK, scheduling, evidence, provider
<1>3. NoneStarts /\ (\A d \in Calls : Settles(d)) /\ EvidenceGrows
  BY <1>1 DEF NoneStarts, Sending, Settles, EvidenceGrows, evidence
<1> QED
  BY <1>1, <1>2, <1>3, QuietStep

LEMMA CallLostKeeps ==
    ASSUME IInv, CallLost
    PROVE  IInv'
<1>0. TypeOK /\ Provided
  BY DEF IInv
<1>1. /\ call.status = "dispatching" /\ \A c \in Calls : ~Sending(c)
      /\ call' = [call EXCEPT !.status = "unknown"]
      /\ UNCHANGED <<op, unit, world, received, host, owner, permit, faults, scheduling, evidence>>
  BY DEF CallLost, Sending
<1>2. hold # "released" /\ call'.status = "unknown"
  BY <1>0, <1>1 DEF IInv, Settling, None, TypeOK
<1>3. TypeOK'
  BY <1>0, <1>1 DEF TypeOK, scheduling, evidence
<1>4. op.phase \in AfterCall /\ op.phase \notin AfterCapture
  BY <1>0, <1>1 DEF Provided, Linked, ProviderSuccess, None
<1>5. Linked(op)'
  BY <1>1, <1>4 DEF Linked, AfterCapture, AfterCall
<1>6. (\A c \in Calls : ~Sending(c))'
  BY <1>1 DEF Sending
<1>7. \A d \in Calls : At(d, "proposing")' => proposal' # None
  BY <1>0, <1>1 DEF Provided, At, evidence
<1>8. Provided'
  BY <1>1, <1>2, <1>4, <1>5, <1>6, <1>7 DEF Provided, None
<1>9. \A d \in Calls : Settles(d)
  BY <1>1 DEF Settles
<1> QED
  BY <1>1, <1>2, <1>3, <1>8, <1>9, ProviderStep

\* While its call has no known outcome a late request finds the reservation
\* still held.
LEMMA ReceivedLateKeeps ==
    ASSUME IInv, ReceivedLate
    PROVE  IInv'
<1>0. TypeOK /\ Provided
  BY DEF IInv
<1>1. /\ call.status \in {"dispatching", "unknown"} /\ received' = TRUE
      /\ \A c \in Calls : ~Sending(c)
      /\ UNCHANGED <<op, unit, world, call, host, owner, permit, faults, scheduling, evidence>>
  BY DEF ReceivedLate, Sending
<1>2. hold # "released"
  BY <1>0, <1>1 DEF IInv, Settling, None
<1>3. TypeOK'
  BY <1>0, <1>1 DEF TypeOK, scheduling, evidence
<1>4. Linked(op)'
  BY <1>0, <1>1 DEF Provided, Linked, ProviderSuccess, evidence
<1>5. (\A c \in Calls : ~Sending(c))'
  BY <1>1 DEF Sending
<1>6. \A d \in Calls : At(d, "proposing")' => proposal' # None
  BY <1>0, <1>1 DEF Provided, At, evidence
<1>7. Provided'
  BY <1>0, <1>1, <1>4, <1>5, <1>6 DEF Provided, None
<1>8. \A d \in Calls : Settles(d)
  BY <1>1 DEF Settles
<1> QED
  BY <1>1, <1>2, <1>3, <1>7, <1>8, ProviderStep

\* The proof of an unknown call says whether the provider received it.
LEMMA CallProvedKeeps ==
    ASSUME IInv, CallProved
    PROVE  IInv'
<1>0. TypeOK /\ Provided
  BY DEF IInv
<1>1. /\ call.status = "unknown"
      /\ call' = [call EXCEPT !.status = "settlement_pending",
                              !.effect = IF received THEN "charged" ELSE "not_received"]
      /\ UNCHANGED <<op, unit, world, received, host, owner, permit, faults, scheduling, evidence>>
  BY DEF CallProved
<1>2. hold # "released" /\ call'.status = "settlement_pending"
  BY <1>0, <1>1 DEF IInv, Settling, None, TypeOK
<1>3. call'.effect = "not_received" <=> ~received'
  BY <1>0, <1>1 DEF TypeOK
<1>4. TypeOK'
  <2> DEFINE effect == IF received THEN "charged" ELSE "not_received"
  <2>1. effect \in {"charged", "not_received"}
    OBVIOUS
  <2>2. call' = [call EXCEPT !.status = "settlement_pending", !.effect = effect]
    BY <1>1
  <2> HIDE DEF effect
  <2>3. call' \in [status : {None, "dispatching", "known_success", "known_failure", "unknown",
                            "settlement_pending"},
                  priced : BOOLEAN, effect : {None, "charged", "not_received"}]
    BY <1>0, <2>1, <2>2 DEF TypeOK
  <2> QED
    BY <1>0, <1>1, <2>3 DEF TypeOK, scheduling, evidence
<1>5. op.phase \in AfterCall /\ op.phase \notin AfterCapture
  BY <1>0, <1>1 DEF Provided, Linked, ProviderSuccess, None
<1>6. Linked(op)'
  BY <1>1, <1>5 DEF Linked, AfterCapture, AfterCall
<1>7. (\A c \in Calls : ~Sending(c))'
  BY <1>0, <1>1 DEF Sending, Provided
<1>8. \A d \in Calls : At(d, "proposing")' => proposal' # None
  BY <1>0, <1>1 DEF Provided, At, evidence
<1>9. Provided'
  BY <1>1, <1>2, <1>3, <1>5, <1>6, <1>7, <1>8 DEF Provided, None
<1>10. \A d \in Calls : Settles(d)
  BY <1>1 DEF Settles
<1> QED
  BY <1>1, <1>2, <1>4, <1>9, <1>10, ProviderStep

-----------------------------------------------------------------------------
\* The scheduler.

\* A step of the scheduler that accepts nothing, gives back in full only what
\* the provider did not receive, and frees the slot only over stopped turns.
LEMMA ScheduledStep ==
    ASSUME IInv, NEW p \in Processes, Free(p), UNCHANGED Owned, proof' = proof,
           slot' \in {"active", "failed", "cancelled", "outcome_unknown"},
           slot \in {"active", "outcome_unknown"} \/ (slot' = slot /\ hold' = hold),
           slot' = "active" => slot = "active" /\ hold' = hold,
           hold' \in {"reserved", "committed", "released", "unknown"},
           run' \in {"running", "paused", "cancelling", "cancelled"},
           hold' = "released" => hold = "released"
                \/ (~received /\ call.status \in {None, "settlement_pending"}),
           slot' \in {"failed", "cancelled"} => WorkerStopped(op) \/ slot' = slot
    PROVE  IInv'
<1>0. TypeOK /\ Recorded /\ Placed /\ Provided /\ Settling
  BY DEF IInv
<1>1. /\ op' = op /\ unit' = unit /\ world' = world /\ host' = host /\ owner' = owner
      /\ permit' = permit /\ faults' = faults /\ published' = published /\ proposal' = proposal
      /\ call' = call /\ received' = received
  BY DEF Owned, evidence, provider
<1>2. TypeOK'
  BY <1>0, <1>1 DEF TypeOK
<1>3. Recorded'
  BY <1>0, <1>1 DEF Recorded, Shape, WorkerStopped
<1>4. Placed'
  BY <1>0, <1>1 DEF Placed
<1>5. Provided'
  BY <1>0, <1>1 DEF Provided, Sending, Linked, ProviderSuccess, At
<1>6. slot # "succeeded" /\ op.phase # "accepted"
  BY <1>0 DEF Settling
<1>7. Settling'
  BY <1>0, <1>1, <1>6 DEF Settling
<1>8. SoleProcess => Fenced'
  <2> SUFFICES ASSUME SoleProcess PROVE Fenced'
    OBVIOUS
  <2>1. \A d \in Calls : ~At(d, "checked")'
    BY <1>1, NobodyChecked DEF At
  <2>2. Fenced
    BY DEF IInv
  <2>3. SlotReleased' => WorkerStopped(op)
    BY <2>2 DEF Fenced, SlotReleased
  <2>4. (SlotReleased => WorkerStopped(op))'
    BY <1>1, <2>3 DEF WorkerStopped
  <2> QED
    BY <2>1, <2>4 DEF Fenced
<1> QED
  BY <1>2, <1>3, <1>4, <1>5, <1>7, <1>8 DEF IInv

\* What the release authority has established.
LEMMA ReleaseFacts ==
    ASSUME IInv, NEW entry, NEW settlement \in {"usage", "no_effect"},
           MayRelease(entry, settlement)
    PROVE  /\ WorkerStopped(op)
           /\ Settled(settlement) \in {"committed", "released"}
           /\ Settled(settlement) = "released" =>
                 ~received /\ call.status \in {None, "settlement_pending"}
<1>0. TypeOK /\ Recorded /\ Provided
  BY DEF IInv
<1>1. Settled(settlement) \in {"committed", "released"}
      /\ (Settled(settlement) = "released" => settlement = "no_effect")
  BY DEF Settled
<1>2. CASE op.phase = None
  <2>1. WorkerStopped(op)
    BY <1>0, <1>2 DEF Recorded, Shape, Launching, None
  <2>2. call.status = None
    BY <1>0, <1>2 DEF Provided, AfterCall, None
  <2> QED
    BY <1>0, <1>1, <2>1, <2>2 DEF Provided
<1>3. CASE op.phase # None
  <2>1. WorkerStopped(op)
    BY <1>3 DEF MayRelease
  <2>2. settlement = "no_effect" =>
          \/ call.status = None
          \/ call.status = "settlement_pending" /\ call.effect = "not_received"
    BY <1>3 DEF MayRelease
  <2>3. settlement = "no_effect" => ~received /\ call.status \in {None, "settlement_pending"}
    BY <1>0, <2>2 DEF Provided
  <2> QED
    BY <1>1, <2>1, <2>3
<1> QED
  BY <1>2, <1>3

LEMMA FinishFailedKeeps ==
    ASSUME IInv, NEW p \in Processes, FinishFailed(p)
    PROVE  IInv'
<1>1. PICK settlement \in {"usage", "no_effect"} :
          MayRelease("finish", settlement) /\ hold' = Settled(settlement)
  BY DEF FinishFailed
<1>2. /\ Free(p) /\ UNCHANGED Owned /\ proof' = proof /\ slot = "active" /\ slot' = "failed"
      /\ run' = AfterRelease
  BY DEF FinishFailed, HoldsSlot
<1>3. run' \in {"running", "paused", "cancelling", "cancelled"}
  BY <1>2 DEF AfterRelease, IInv, TypeOK
<1>4. /\ WorkerStopped(op) /\ hold' \in {"committed", "released"}
      /\ hold' = "released" => ~received /\ call.status \in {None, "settlement_pending"}
  BY <1>1, ReleaseFacts
<1> QED
  BY <1>2, <1>3, <1>4, ScheduledStep

LEMMA AcknowledgeCancellationKeeps ==
    ASSUME IInv, NEW p \in Processes, AcknowledgeCancellation(p)
    PROVE  IInv'
<1>1. PICK settlement \in {"usage", "no_effect"} :
          MayRelease("cancel", settlement) /\ hold' = Settled(settlement)
  BY DEF AcknowledgeCancellation
<1>2. /\ Free(p) /\ UNCHANGED Owned /\ proof' = proof /\ slot = "active" /\ slot' = "cancelled"
      /\ run' = "cancelled"
  BY DEF AcknowledgeCancellation, HoldsSlot
<1>3. /\ WorkerStopped(op) /\ hold' \in {"committed", "released"}
      /\ hold' = "released" => ~received /\ call.status \in {None, "settlement_pending"}
  BY <1>1, ReleaseFacts
<1> QED
  BY <1>2, <1>3, ScheduledStep

LEMMA ReconcileKeeps ==
    ASSUME IInv, NEW p \in Processes, Reconcile(p)
    PROVE  IInv'
<1>1. PICK settlement \in {"usage", "no_effect"} :
          MayRelease("reconcile", settlement) /\ hold' = Settled(settlement)
  BY DEF Reconcile
<1>2. /\ Free(p) /\ UNCHANGED Owned /\ proof' = proof /\ slot = "outcome_unknown"
      /\ slot' = "failed" /\ run' = AfterRelease
  BY DEF Reconcile
<1>3. run' \in {"running", "paused", "cancelling", "cancelled"}
  BY <1>2 DEF AfterRelease, IInv, TypeOK
<1>4. /\ WorkerStopped(op) /\ hold' \in {"committed", "released"}
      /\ hold' = "released" => ~received /\ call.status \in {None, "settlement_pending"}
  BY <1>1, ReleaseFacts
<1> QED
  BY <1>2, <1>3, <1>4, ScheduledStep

LEMMA FinishUnknownKeeps ==
    ASSUME IInv, NEW p \in Processes, FinishUnknown(p)
    PROVE  IInv'
<1>1. /\ Free(p) /\ UNCHANGED Owned /\ proof' = proof /\ run' = run
      /\ slot = "active" /\ slot' = "outcome_unknown" /\ hold' = "unknown"
  BY DEF FinishUnknown
<1>2. run' \in {"running", "paused", "cancelling", "cancelled"}
  BY <1>1 DEF IInv, TypeOK
<1> QED
  BY <1>1, <1>2, ScheduledStep

\* Only the run changes: nothing the invariant relates.
LEMMA RunKeeps ==
    ASSUME IInv, NEW p \in Processes, PauseOrResume(p) \/ RequestCancel(p)
    PROVE  IInv'
<1>0. TypeOK /\ Recorded /\ Placed /\ Provided /\ Settling
  BY DEF IInv
<1>1. UNCHANGED Owned /\ UNCHANGED <<slot, hold, proof>>
      /\ run' \in {"running", "paused", "cancelling", "cancelled"}
  BY <1>0 DEF PauseOrResume, RequestCancel, TypeOK
<1>2. /\ op' = op /\ unit' = unit /\ world' = world /\ host' = host /\ owner' = owner
      /\ permit' = permit /\ faults' = faults /\ published' = published /\ proposal' = proposal
      /\ call' = call /\ received' = received /\ slot' = slot /\ hold' = hold /\ proof' = proof
  BY <1>1 DEF Owned, evidence, provider
<1>3. TypeOK'
  BY <1>0, <1>1, <1>2 DEF TypeOK
<1>4. Recorded' /\ Placed'
  BY <1>0, <1>2 DEF Recorded, Shape, WorkerStopped, Placed
<1>5. Provided'
  BY <1>0, <1>2 DEF Provided, Sending, Linked, ProviderSuccess, At
<1>6. Settling'
  BY <1>0, <1>2 DEF Settling
<1>7. SoleProcess => Fenced'
  BY <1>2 DEF IInv, Fenced, At, SlotReleased, WorkerStopped
<1> QED
  BY <1>3, <1>4, <1>5, <1>6, <1>7 DEF IInv

-----------------------------------------------------------------------------
\* The invariant holds in every state.

LEMMA InitHolds ==
    ASSUME Init
    PROVE  IInv
<1>1. NoOperation \in Operations /\ NoOperation.phase = None /\ NoOperation.turns = <<>>
  BY NoOperationTyped DEF NoOperation
<1>2. Len(<<>>) = 0 /\ <<>> \in Seq(TurnRecords)
  OBVIOUS
<1>3. TypeOK
  BY <1>1, NoOperationTyped DEF Init, TypeOK
<1>4. WorkerStopped(op)
  BY <1>1, <1>2 DEF Init, WorkerStopped, ToSet
<1>5. Recorded
  <2>1. Shape(op)
    BY <1>1, <1>4 DEF Init, Shape, Launching, None
  <2>2. \A l \in Turns : ~(l <= Len(op.turns)) /\ unit[l] = None
    BY <1>1, <1>2, Bounds DEF Init, Turns
  <2> QED
    BY <2>1, <2>2 DEF Recorded
<1>6. Placed
  BY DEF Init, Placed, Idle, Suits
<1>7. Provided
  BY <1>1 DEF Init, Provided, Sending, Idle, At, Linked, AfterCapture, AfterCall, None
<1>8. Settling
  BY <1>1 DEF Init, Settling, None
<1>9. Fenced
  BY <1>4 DEF Init, Fenced, At, Idle
<1> QED
  BY <1>3, <1>5, <1>6, <1>7, <1>8, <1>9 DEF IInv

LEMMA StepKeeps ==
    ASSUME IInv, NEW c \in Calls, Step(c)
    PROVE  IInv'
<1>1. Scheduled(c)
  BY DEF Step
<1>2. CASE Register(c) \/ Begin(c) \/ Claim(c) \/ Decide(c)
  BY <1>2, RegisterKeeps, BeginKeeps, ClaimKeeps, DecideKeeps
<1>3. CASE StopTurn(c) \/ CheckAgain(c) \/ PrepareTurn(c) \/ AckTurn(c) \/ StartUnknown(c)
           \/ WaitTurn(c)
  BY <1>3, StopTurnKeeps, CheckAgainKeeps, PrepareTurnKeeps, AckTurnKeeps, StartUnknownKeeps,
     WaitTurnKeeps
<1>4. CASE ReserveCall(c) \/ IsAccepted(c) \/ RecordIntent(c) \/ Send(c) \/ Answer(c)
  BY <1>4, ReserveCallKeeps, IsAcceptedKeeps, RecordIntentKeeps, SendKeeps, AnswerKeeps
<1>5. CASE PublishResponse(c) \/ CaptureResponse(c) \/ PublishOutput(c) \/ RecordEvidence(c)
           \/ RecordProposal(c)
  BY <1>5, PublishResponseKeeps, CaptureResponseKeeps, PublishOutputKeeps, RecordEvidenceKeeps,
     RecordProposalKeeps
<1>6. CASE Accept(c)
  BY <1>1, <1>6, AcceptKeeps
<1> QED
  BY <1>2, <1>3, <1>4, <1>5, <1>6 DEF Step

LEMMA NextKeeps == IInv /\ [Next]_vars => IInv'
<1> SUFFICES ASSUME IInv, [Next]_vars PROVE IInv'
  OBVIOUS
<1>1. ASSUME NEW c \in Calls, Step(c) PROVE IInv'
  BY <1>1, StepKeeps
<1>2. CASE Disturbance
  <2>1. ASSUME NEW c \in Calls, StopUnknown(c) \/ Abandon(c) PROVE IInv'
    BY <2>1, StopUnknownKeeps, AbandonKeeps
  <2>2. ASSUME NEW p \in Processes, Crash(p) PROVE IInv'
    BY <2>2, CrashKeeps
  <2>3. CASE Reboot
    BY <2>3, RebootKeeps
  <2>4. CASE LeaseExpires
    BY <2>4, WorldKeeps
  <2> QED
    BY <1>2, <2>1, <2>2, <2>3, <2>4 DEF Disturbance
<1>3. CASE Outside
  BY <1>3, UnitKeeps, CallLostKeeps, ReceivedLateKeeps, CallProvedKeeps DEF Outside
<1>4. CASE Scheduling
  <2>1. PICK p \in Processes :
          \/ FinishFailed(p) \/ AcknowledgeCancellation(p) \/ FinishUnknown(p) \/ Reconcile(p)
          \/ PauseOrResume(p) \/ RequestCancel(p) \/ AppendGraph(p) \/ AcceptElsewhere(p)
    BY <1>4 DEF Scheduling
  <2>2. CASE FinishFailed(p) \/ AcknowledgeCancellation(p) \/ FinishUnknown(p) \/ Reconcile(p)
    BY <2>2, FinishFailedKeeps, AcknowledgeCancellationKeeps, FinishUnknownKeeps, ReconcileKeeps
  <2>3. CASE PauseOrResume(p) \/ RequestCancel(p)
    BY <2>3, RunKeeps
  <2>4. CASE AppendGraph(p)
    BY <2>4, WorldKeeps
  <2>5. CASE AcceptElsewhere(p)
    BY <2>5, AcceptElsewhereKeeps
  <2> QED
    BY <2>1, <2>2, <2>3, <2>4, <2>5
<1>5. CASE UNCHANGED vars
  <2>1. /\ op' = op /\ unit' = unit /\ world' = world /\ host' = host /\ owner' = owner
        /\ permit' = permit /\ faults' = faults
        /\ UNCHANGED <<scheduling, evidence, provider>>
    BY <1>5 DEF vars, scheduling, evidence, provider
  <2>2. TypeOK'
    BY <2>1 DEF IInv, TypeOK, scheduling, evidence, provider
  <2>3. NoneStarts /\ (\A d \in Calls : Settles(d)) /\ EvidenceGrows
    BY <2>1 DEF NoneStarts, Sending, Settles, EvidenceGrows, evidence
  <2> QED
    BY <2>1, <2>2, <2>3, QuietStep
<1> QED
  BY <1>1, <1>2, <1>3, <1>4, <1>5 DEF Next

LEMMA IInvKept == Spec => []IInv
<1>1. Init => IInv
  BY InitHolds
<1>2. IInv /\ [Next]_vars => IInv'
  BY NextKeeps
<1> QED
  BY <1>1, <1>2, PTL DEF Spec

-----------------------------------------------------------------------------

\* The operation, the units, the calls and the scheduler's records keep their
\* shape, whatever is crashed, abandoned, released or recovered.
THEOREM TypeCorrect == Spec => []TypeOK
<1>1. IInv => TypeOK
  BY DEF IInv
<1> QED
  BY <1>1, IInvKept, PTL

\* _validate_general_release_authority: a reservation is only given back in
\* full for a request that the provider never received.
THEOREM NoEffectTrue == Spec => []NoEffectIsTrue
<1>1. IInv => NoEffectIsTrue
  BY DEF IInv, Settling, NoEffectIsTrue
<1> QED
  BY <1>1, IInvKept, PTL

\* validate_success_proofs: a success was accepted within its lease, over the
\* frozen graph and while its run went on, in every process.
THEOREM SuccessesProved == Spec => []SuccessProved
<1>1. IInv => SuccessProved
  BY DEF IInv, Settling, SuccessProved
<1> QED
  BY <1>1, IInvKept, PTL

\* The startup audit never refuses a database that a single process wrote: no
\* attempt is released over a turn whose unit is not on record as stopped.
THEOREM AuditPasses == SoleProcess => (Spec => []StartupAuditPasses)
<1> SUFFICES ASSUME SoleProcess PROVE Spec => []StartupAuditPasses
  OBVIOUS
<1>1. IInv => StartupAuditPasses
  <2> SUFFICES ASSUME IInv PROVE StartupAuditPasses
    OBVIOUS
  <2>1. SuccessProved
    BY DEF IInv, Settling, SuccessProved
  <2>2. Linked(op)
    BY DEF IInv, Provided
  <2>3. TerminallyLinked(op)
    BY DEF IInv, Settling, Fenced, TerminallyLinked
  <2> QED
    BY <2>1, <2>2, <2>3 DEF StartupAuditPasses, Readable
<1> QED
  BY <1>1, IInvKept, PTL

\* _check_general_release: once a single process has freed the slot for a
\* successor, no unit of the attempt runs or can still start.
THEOREM NothingRuns == SoleProcess => (Spec => []NothingRunsAfterRelease)
<1> SUFFICES ASSUME SoleProcess PROVE Spec => []NothingRunsAfterRelease
  OBVIOUS
<1>1. IInv => NothingRunsAfterRelease
  <2> SUFFICES ASSUME IInv, SlotReleased, NEW l \in Turns PROVE unit[l] \in {None, "stopped"}
    BY DEF NothingRunsAfterRelease
  <2>1. op \in Operations /\ WorkerStopped(op)
    BY DEF IInv, TypeOK, Fenced
  <2>2. Len(op.turns) \in Nat /\ \A m \in 1 .. Len(op.turns) : op.turns[m].stopped
    BY <2>1, StoppedTurns
  <2>3. l \in Nat \ {0}
    BY Bounds DEF Turns
  <2>4. CASE l <= Len(op.turns)
    BY <2>2, <2>3, <2>4 DEF IInv, Recorded
  <2>5. CASE ~(l <= Len(op.turns))
    BY <2>5 DEF IInv, Recorded
  <2> QED
    BY <2>4, <2>5
<1> QED
  BY <1>1, IInvKept, PTL

-----------------------------------------------------------------------------
(* The unit of one turn, as isolation/launcher.py runs it: what            *)
(* SandboxUnit calls a receipt is what lets a turn be recorded as stopped. *)

\* systemd has been asked for the unit and answered systemd-run: from here on
\* nothing can submit it again.
Submitted == transport \in {"waiting", "exited"}

\* Stable facts about a submitted unit: it is over, and nothing is left of it.
Gone  == Submitted /\ state \in Over
Final == Gone /\ ~populated

\* What each thread has established by where it is: only threads that know
\* the unit to be submitted look for its end, the first source says that the
\* unit is over, and both together that nothing is left.
Established ==
    /\ IsAt(Waiter, "new") => transport = "none"
    /\ state # "absent" \/ acked => Submitted
    /\ \A t \in Threads :
         /\ thread[t].at \in {"show", "bind"} => Submitted
         /\ thread[t].at = "cgroup" => Gone
         /\ thread[t].receipt => Final
    /\ proved \/ staging = "gone" => Final

UnitInv == UnitTypeOK /\ Established

-----------------------------------------------------------------------------
\* The variables keep their shape, whatever systemd and the threads do.
LEMMA SystemdTyped ==
    ASSUME UnitTypeOK, Systemd
    PROVE  UnitTypeOK'
BY DEF UnitTypeOK, Systemd, launcher, Submit, SubmitFails, BecomesActive,
   StartFails, UnitStops, ProcessesDie, BecomesInactive, UnitFades,
   UnitCollected, TransportExits, UnitStates

\* A thread that moves keeps the shape of all threads.
LEMMA MoveTyped ==
    ASSUME UnitTypeOK, NEW t \in Threads, NEW place \in ThreadPlaces, Move(t, place)
    PROVE  /\ thread' \in [Threads -> [at : ThreadPlaces, role : {"wait", "stop"},
                                       receipt : BOOLEAN, again : BOOLEAN]]
           /\ thread'[t].at = place /\ thread'[t].receipt = thread[t].receipt
           /\ \A u \in Threads \ {t} : thread'[u] = thread[u]
BY DEF UnitTypeOK, Move

LEMMA SetTyped ==
    ASSUME UnitTypeOK, NEW t \in Threads, NEW place \in ThreadPlaces,
           NEW role \in {"wait", "stop"}, NEW receipt \in BOOLEAN, NEW again \in BOOLEAN,
           Set(t, place, role, receipt, again)
    PROVE  /\ thread' \in [Threads -> [at : ThreadPlaces, role : {"wait", "stop"},
                                       receipt : BOOLEAN, again : BOOLEAN]]
           /\ thread'[t].at = place /\ thread'[t].receipt = receipt
           /\ \A u \in Threads \ {t} : thread'[u] = thread[u]
BY DEF UnitTypeOK, Set

LEMMA RestTyped ==
    ASSUME UnitTypeOK, NEW t \in Threads, thread' = [thread EXCEPT ![t] = Resting]
    PROVE  /\ thread' \in [Threads -> [at : ThreadPlaces, role : {"wait", "stop"},
                                       receipt : BOOLEAN, again : BOOLEAN]]
           /\ thread'[t].at = "idle" /\ ~thread'[t].receipt
           /\ \A u \in Threads \ {t} : thread'[u] = thread[u]
BY DEF UnitTypeOK, Resting, ThreadPlaces

-----------------------------------------------------------------------------
\* What systemd does keeps what the threads have established.
LEMMA SystemdEstablished ==
    ASSUME UnitInv, Systemd
    PROVE  Established'
<1>1. UNCHANGED launcher
  BY DEF Systemd
<1>2. Submitted => Submitted'
  BY DEF Systemd, Submit, SubmitFails, BecomesActive, StartFails,
     UnitStops, ProcessesDie, BecomesInactive, UnitFades, UnitCollected,
     TransportExits, Submitted
<1>3. state # "absent" => Submitted
  BY DEF UnitInv, Established
<1>4. state' # "absent" => Submitted'
  BY <1>2, <1>3 DEF Systemd, Submit, SubmitFails, BecomesActive,
     StartFails, UnitStops, ProcessesDie, BecomesInactive, UnitFades,
     UnitCollected, TransportExits, Submitted
<1>5. Gone => Gone'
  BY <1>2 DEF Systemd, Submit, SubmitFails, BecomesActive, StartFails,
     UnitStops, ProcessesDie, BecomesInactive, UnitFades, UnitCollected,
     TransportExits, Gone, Submitted, Over
<1>6. Final => Final'
  BY <1>5 DEF Systemd, Submit, SubmitFails, BecomesActive, StartFails,
     UnitStops, ProcessesDie, BecomesInactive, UnitFades, UnitCollected,
     TransportExits, Final, Gone, Submitted, Over
<1>7. transport = "none" => transport' = "none"
  BY DEF Systemd, Submit, SubmitFails, BecomesActive, StartFails,
     UnitStops, ProcessesDie, BecomesInactive, UnitFades, UnitCollected,
     TransportExits
<1> QED
  BY <1>1, <1>2, <1>4, <1>5, <1>6, <1>7 DEF UnitInv, Established, launcher, IsAt

\* A kill may end a unit but never brings one back, so a thread that leaves
\* the transport alone keeps what the others have established.
LEMMA Steady ==
    ASSUME UnitInv, state' \in {state, Killed}, UNCHANGED <<populated, transport>>
    PROVE  /\ Submitted' <=> Submitted
           /\ state' # "absent" => Submitted
           /\ Gone => Gone'
           /\ Final => Final'
BY DEF UnitInv, Established, Killed, Submitted, Gone, Final, Over

\* The threads other than t keep their place and so do the facts they know.
LEMMA OthersKeep ==
    ASSUME UnitInv, NEW t \in Threads,
           state' \in {state, Killed}, UNCHANGED <<populated, transport>>,
           \A u \in Threads \ {t} : thread'[u] = thread[u],
           thread'[t].at # "new",
           acked' => Submitted,
           proved' \/ staging' = "gone" => Final,
           thread'[t].at \in {"show", "bind"} => Submitted,
           thread'[t].at = "cgroup" => Gone,
           thread'[t].receipt => Final
    PROVE  Established'
<1>1. /\ Submitted' <=> Submitted
      /\ state' # "absent" => Submitted
      /\ Gone => Gone'
      /\ Final => Final'
  BY Steady
<1>2. Waiter \in Threads
  BY DEF Threads
<1>3. IsAt(Waiter, "new")' => IsAt(Waiter, "new")
  BY <1>2 DEF IsAt
<1>4. \A u \in Threads :
        /\ thread'[u].at \in {"show", "bind"} => Submitted'
        /\ thread'[u].at = "cgroup" => Gone'
        /\ thread'[u].receipt => Final'
  BY <1>1 DEF UnitInv, Established
<1> QED
  BY <1>1, <1>3, <1>4 DEF UnitInv, Established

-----------------------------------------------------------------------------
\* A launch submits the unit when nobody can know anything of it yet.
LEMMA LaunchKeeps ==
    ASSUME UnitInv, NEW t \in Threads, Launch(t)
    PROVE  UnitInv'
<1>1. t = Waiter /\ thread[t].at = "new" /\ transport = "none" /\ Waiter \in Threads
  BY DEF Launch, UnitInv, Established, IsAt, Threads
<1>2. ~Submitted /\ ~Final /\ ~Gone
  BY <1>1 DEF Submitted, Final, Gone
<1>3. CASE transport' = "submitting" /\ session' = TRUE /\ staging' = "held"
           /\ Set(t, IF prepared THEN "acking" ELSE "lock", "wait", FALSE, FALSE)
  <2>1. (IF prepared THEN "acking" ELSE "lock") \in ThreadPlaces
    BY DEF ThreadPlaces
  <2>2. /\ thread' \in [Threads -> [at : ThreadPlaces, role : {"wait", "stop"},
                                     receipt : BOOLEAN, again : BOOLEAN]]
        /\ thread'[t].at \in {"acking", "lock"} /\ ~thread'[t].receipt
        /\ \A u \in Threads \ {t} : thread'[u] = thread[u]
    BY <1>3, <2>1, SetTyped DEF UnitInv
  <2>3. UnitTypeOK'
    BY <1>3, <2>2 DEF Launch, UnitInv, UnitTypeOK
  <2>4. Established'
    BY <1>1, <1>2, <1>3, <2>2 DEF Launch, UnitInv, Established, IsAt
  <2> QED
    BY <2>3, <2>4 DEF UnitInv
<1>4. CASE \E left \in {"none", "held"} : staging' = left /\ Move(t, "over")
           /\ UNCHANGED <<transport, session>>
  <2>1. /\ thread' \in [Threads -> [at : ThreadPlaces, role : {"wait", "stop"},
                                     receipt : BOOLEAN, again : BOOLEAN]]
        /\ thread'[t].at = "over" /\ thread'[t].receipt = thread[t].receipt
        /\ \A u \in Threads \ {t} : thread'[u] = thread[u]
    BY <1>4, MoveTyped DEF UnitInv, ThreadPlaces
  <2>2. UnitTypeOK'
    BY <1>4, <2>1 DEF Launch, UnitInv, UnitTypeOK
  <2>3. Established'
    BY <1>1, <1>2, <1>4, <2>1, OthersKeep DEF Launch, UnitInv, Established
  <2> QED
    BY <2>2, <2>3 DEF UnitInv
<1> QED
  BY <1>3, <1>4 DEF Launch

\* The steps of a wait that only move the thread on.
LEMMA WaitingKeeps ==
    ASSUME UnitInv, NEW t \in Threads,
           \/ ReadLaunchReceipt(t) \/ EnterWait(t) \/ Collected(t) \/ GraceOver(t)
           \/ Deadline(t) \/ Interrupted(t) \/ Poll(t)
    PROVE  UnitInv'
<1>1. \E place \in {"lock", "over", "collect", "waited", "poll", "grace", "show", "finish"} :
         /\ Move(t, place)
         /\ place = "show" => transport = "exited"
  BY DEF ReadLaunchReceipt, EnterWait, Collected, GraceOver, Deadline,
     Interrupted, Poll, MayWitness
<1>2. PICK place \in {"lock", "over", "collect", "waited", "poll", "grace", "show", "finish"} :
         /\ Move(t, place)
         /\ place = "show" => transport = "exited"
  BY <1>1
<1>3. place \in ThreadPlaces
  BY DEF ThreadPlaces
<1>4. /\ thread' \in [Threads -> [at : ThreadPlaces, role : {"wait", "stop"},
                                   receipt : BOOLEAN, again : BOOLEAN]]
      /\ thread'[t].at = place /\ thread'[t].receipt = thread[t].receipt
      /\ \A u \in Threads \ {t} : thread'[u] = thread[u]
  BY <1>2, <1>3, MoveTyped DEF UnitInv
<1>5. /\ state' \in {state, Killed} /\ UNCHANGED <<populated, transport, prepared, staging,
                                                 session, proved, crashed>>
      /\ acked' \in {acked, FALSE} \/ (state = "active" /\ acked' = TRUE)
      /\ result' = result /\ lock' \in {lock, "none", t}
  BY DEF ReadLaunchReceipt, EnterWait, Collected, GraceOver, Deadline,
     Interrupted, Poll, systemd
<1>6. UnitTypeOK'
  BY <1>4, <1>5 DEF UnitInv, UnitTypeOK, Killed, UnitStates
<1>7. Established'
  <2>1. acked' => Submitted
    BY <1>5 DEF UnitInv, Established
  <2>2. place = "show" => Submitted
    BY <1>2 DEF Submitted
  <2> QED
    BY <1>4, <1>5, <2>1, <2>2, OthersKeep DEF UnitInv, Established
<1> QED
  BY <1>6, <1>7 DEF UnitInv

\* systemctl show: the unit of a thread that looks for its end is submitted,
\* so once over it stays over.
LEMMA ShowKeeps ==
    ASSUME UnitInv, NEW t \in Threads, Show(t)
    PROVE  UnitInv'
<1>1. Submitted /\ thread[t] \in [at : ThreadPlaces, role : {"wait", "stop"},
                      receipt : BOOLEAN, again : BOOLEAN]
  BY DEF UnitInv, UnitTypeOK, Established, Show, IsAt
<1>2. CASE state \in SeenOver /\ Move(t, "cgroup")
  <2>1. /\ thread' \in [Threads -> [at : ThreadPlaces, role : {"wait", "stop"},
                                     receipt : BOOLEAN, again : BOOLEAN]]
        /\ thread'[t].at = "cgroup" /\ thread'[t].receipt = thread[t].receipt
        /\ \A u \in Threads \ {t} : thread'[u] = thread[u]
    BY <1>2, MoveTyped DEF UnitInv, ThreadPlaces
  <2>2. UnitTypeOK'
    BY <2>1 DEF Show, UnitInv, UnitTypeOK, systemd
  <2>3. Gone
    BY <1>1, <1>2 DEF Gone, SeenOver, Over
  <2>4. Established'
    BY <2>1, <2>3, OthersKeep DEF Show, UnitInv, Established, systemd
  <2> QED
    BY <2>2, <2>4 DEF UnitInv
<1>3. CASE state \notin SeenOver /\ Set(t, "bind", thread[t].role, FALSE, thread[t].again)
  <2>1. /\ thread' \in [Threads -> [at : ThreadPlaces, role : {"wait", "stop"},
                                     receipt : BOOLEAN, again : BOOLEAN]]
        /\ thread'[t].at = "bind" /\ ~thread'[t].receipt
        /\ \A u \in Threads \ {t} : thread'[u] = thread[u]
    BY ZenonT(60), <1>1, <1>3, SetTyped DEF UnitInv, ThreadPlaces
  <2>2. UnitTypeOK'
    BY <2>1 DEF Show, UnitInv, UnitTypeOK, systemd
  <2>3. Established'
    BY <1>1, <2>1, OthersKeep DEF Show, UnitInv, Established, systemd
  <2> QED
    BY <2>2, <2>3 DEF UnitInv
<1> QED
  BY <1>2, <1>3 DEF Show

\* The cgroup: with both sources read, nothing is left of the unit.
LEMMA CgroupKeeps ==
    ASSUME UnitInv, NEW t \in Threads, Cgroup(t)
    PROVE  UnitInv'
<1>1. /\ Gone /\ Submitted
      /\ thread[t] \in [at : ThreadPlaces, role : {"wait", "stop"},
                      receipt : BOOLEAN, again : BOOLEAN]
  BY DEF UnitInv, UnitTypeOK, Established, Cgroup, IsAt, Gone
<1>2. CASE \E receipt \in BOOLEAN :
             /\ receipt => ~populated
             /\ Set(t, "bind", thread[t].role, receipt, thread[t].again)
  <2>1. PICK receipt \in BOOLEAN :
             /\ receipt => ~populated
             /\ Set(t, "bind", thread[t].role, receipt, thread[t].again)
    BY <1>2
  <2>2. /\ thread' \in [Threads -> [at : ThreadPlaces, role : {"wait", "stop"},
                                     receipt : BOOLEAN, again : BOOLEAN]]
        /\ thread'[t].at = "bind" /\ thread'[t].receipt = receipt
        /\ \A u \in Threads \ {t} : thread'[u] = thread[u]
    BY ZenonT(60), <1>1, <2>1, SetTyped DEF UnitInv, ThreadPlaces
  <2>3. UnitTypeOK'
    BY <2>2 DEF Cgroup, UnitInv, UnitTypeOK, systemd
  <2>4. receipt => Final
    BY <1>1, <2>1 DEF Final
  <2>5. Established'
    BY <1>1, <2>2, <2>4, OthersKeep DEF Cgroup, UnitInv, Established, systemd
  <2> QED
    BY <2>3, <2>5 DEF UnitInv
<1>3. CASE Move(t, "show")
  <2>1. /\ thread' \in [Threads -> [at : ThreadPlaces, role : {"wait", "stop"},
                                     receipt : BOOLEAN, again : BOOLEAN]]
        /\ thread'[t].at = "show" /\ thread'[t].receipt = thread[t].receipt
        /\ \A u \in Threads \ {t} : thread'[u] = thread[u]
    BY <1>3, MoveTyped DEF UnitInv, ThreadPlaces
  <2>2. UnitTypeOK'
    BY <2>1 DEF Cgroup, UnitInv, UnitTypeOK, systemd
  <2>3. Established'
    BY <1>1, <2>1, OthersKeep DEF Cgroup, UnitInv, Established, systemd
  <2> QED
    BY <2>2, <2>3 DEF UnitInv
<1> QED
  BY <1>2, <1>3 DEF Cgroup

\* The binding is checked again: a receipt survives it or is dropped.
LEMMA BindKeeps ==
    ASSUME UnitInv, NEW t \in Threads, Bind(t)
    PROVE  UnitInv'
<1>1. /\ Submitted
      /\ thread[t] \in [at : ThreadPlaces, role : {"wait", "stop"},
                      receipt : BOOLEAN, again : BOOLEAN]
  BY DEF UnitInv, UnitTypeOK, Established, Bind, IsAt
<1>2. \E place \in {"show", "finish"}, receipt, again \in BOOLEAN :
        /\ receipt => thread[t].receipt
        /\ Set(t, place, thread[t].role, receipt, again)
  <2>1. CASE thread[t].role = "stop" /\ ~thread[t].receipt /\ BoundEnd /\ ~thread[t].again
    BY <2>1 DEF Bind
  <2>2. CASE ~(thread[t].role = "stop" /\ ~thread[t].receipt /\ BoundEnd /\ ~thread[t].again)
    <3> DEFINE receipt == thread[t].receipt /\ (BoundEnd \/ ~acked)
    <3>1. Set(t, "finish", thread[t].role, receipt, thread[t].again)
      BY <2>2 DEF Bind
    <3>2. receipt \in BOOLEAN /\ thread[t].again \in BOOLEAN /\ (receipt => thread[t].receipt)
      BY <1>1
    <3> HIDE DEF receipt
    <3> QED
      BY <3>1, <3>2
  <2> QED
    BY <2>1, <2>2
<1>3. PICK place \in {"show", "finish"}, receipt \in BOOLEAN, again \in BOOLEAN :
        /\ receipt => thread[t].receipt
        /\ Set(t, place, thread[t].role, receipt, again)
  BY <1>2
<1>4. place \in ThreadPlaces
  BY DEF ThreadPlaces
<1>5. /\ thread' \in [Threads -> [at : ThreadPlaces, role : {"wait", "stop"},
                                   receipt : BOOLEAN, again : BOOLEAN]]
      /\ thread'[t].at = place /\ thread'[t].receipt = receipt
      /\ \A u \in Threads \ {t} : thread'[u] = thread[u]
  BY <1>1, <1>3, <1>4, SetTyped DEF UnitInv
<1>6. UnitTypeOK'
  BY <1>5 DEF Bind, UnitInv, UnitTypeOK, systemd
<1>7. receipt => Final
  BY <1>3 DEF UnitInv, Established
<1>8. Established'
  BY <1>1, <1>5, <1>7, OthersKeep DEF Bind, UnitInv, Established, systemd
<1> QED
  BY <1>6, <1>8 DEF UnitInv

\* A source that gave no answer drops the receipt.
LEMMA ReadFailsKeeps ==
    ASSUME UnitInv, NEW t \in Threads, ReadFails(t)
    PROVE  UnitInv'
<1>1. /\ Submitted
      /\ thread[t] \in [at : ThreadPlaces, role : {"wait", "stop"},
                      receipt : BOOLEAN, again : BOOLEAN]
  BY DEF UnitInv, UnitTypeOK, Established, ReadFails
<1>2. PICK place \in {"bind", "finish"}, receipt \in BOOLEAN, again \in BOOLEAN :
        ~receipt /\ Set(t, place, thread[t].role, receipt, again)
  BY <1>1 DEF ReadFails
<1>3. place \in ThreadPlaces
  BY DEF ThreadPlaces
<1>4. /\ thread' \in [Threads -> [at : ThreadPlaces, role : {"wait", "stop"},
                                   receipt : BOOLEAN, again : BOOLEAN]]
      /\ thread'[t].at = place /\ ~thread'[t].receipt
      /\ \A u \in Threads \ {t} : thread'[u] = thread[u]
  BY <1>1, <1>2, <1>3, SetTyped DEF UnitInv
<1>5. UnitTypeOK'
  BY <1>4 DEF ReadFails, UnitInv, UnitTypeOK, systemd
<1>6. Established'
  BY <1>1, <1>4, OthersKeep DEF ReadFails, UnitInv, Established, systemd
<1> QED
  BY <1>5, <1>6 DEF UnitInv

-----------------------------------------------------------------------------
\* A wait and a stop end: what they return or delete rests on their receipt.
LEMMA FinishWaitKeeps ==
    ASSUME UnitInv, NEW t \in Threads, FinishWait(t)
    PROVE  UnitInv'
<1> DEFINE place == IF t = Waiter THEN "over" ELSE "waited"
<1>1. place \in ThreadPlaces
  BY DEF ThreadPlaces
<1>2. place \notin {"new", "show", "bind", "cgroup"}
  OBVIOUS
<1>3. Set(t, place, "wait", FALSE, FALSE)
  BY DEF FinishWait
<1> HIDE DEF place
<1>4. /\ thread' \in [Threads -> [at : ThreadPlaces, role : {"wait", "stop"},
                                   receipt : BOOLEAN, again : BOOLEAN]]
      /\ thread'[t].at = place /\ ~thread'[t].receipt
      /\ \A u \in Threads \ {t} : thread'[u] = thread[u]
  BY <1>1, <1>3, SetTyped DEF UnitInv
<1>5. thread[t].receipt \in BOOLEAN
  BY DEF UnitInv, UnitTypeOK
<1>6. UnitTypeOK'
  BY <1>4, <1>5 DEF FinishWait, UnitInv, UnitTypeOK, systemd
<1>7. proved' \/ staging' = "gone" => Final
  BY DEF FinishWait, Discards, UnitInv, Established
<1>8. Established'
  BY <1>2, <1>4, <1>7, OthersKeep DEF FinishWait, UnitInv, Established, systemd
<1> QED
  BY <1>6, <1>8 DEF UnitInv

LEMMA FinishStopKeeps ==
    ASSUME UnitInv, NEW t \in Threads, FinishStop(t)
    PROVE  UnitInv'
<1>1. /\ thread' \in [Threads -> [at : ThreadPlaces, role : {"wait", "stop"},
                                   receipt : BOOLEAN, again : BOOLEAN]]
      /\ thread'[t].at = "idle" /\ ~thread'[t].receipt
      /\ \A u \in Threads \ {t} : thread'[u] = thread[u]
  BY RestTyped DEF FinishStop, UnitInv
<1>2. thread[t].receipt \in BOOLEAN
  BY DEF UnitInv, UnitTypeOK
<1>3. UnitTypeOK'
  BY <1>1, <1>2 DEF FinishStop, UnitInv, UnitTypeOK, systemd
<1>4. proved' \/ staging' = "gone" => Final
  BY DEF FinishStop, Discards, UnitInv, Established
<1>5. Established'
  BY <1>1, <1>4, OthersKeep DEF FinishStop, UnitInv, Established, systemd
<1> QED
  BY <1>3, <1>5 DEF UnitInv

\* A stop begins from an acknowledged launch, so from a submitted unit.
LEMMA BeginStopKeeps ==
    ASSUME UnitInv, NEW t \in Threads, BeginStop(t)
    PROVE  UnitInv'
<1>1. Submitted
  BY DEF BeginStop, UnitInv, Established
<1>2. CASE UNCHANGED <<state, thread>>
  <2>1. UnitTypeOK'
    BY <1>2 DEF BeginStop, UnitInv, UnitTypeOK
  <2>2. thread[t].at # "new"
    BY DEF BeginStop, IsAt
  <2>3. Established'
    BY <1>2, <2>2, OthersKeep DEF BeginStop, UnitInv, Established
  <2> QED
    BY <2>1, <2>3 DEF UnitInv
<1>3. CASE \E place \in {"lock", "show"}, role \in {"wait", "stop"} :
             state' = Killed /\ Set(t, place, role, FALSE, FALSE)
  <2>1. PICK place \in {"lock", "show"}, role \in {"wait", "stop"} :
             state' = Killed /\ Set(t, place, role, FALSE, FALSE)
    BY <1>3
  <2>2. place \in ThreadPlaces
    BY DEF ThreadPlaces
  <2>3. /\ thread' \in [Threads -> [at : ThreadPlaces, role : {"wait", "stop"},
                                     receipt : BOOLEAN, again : BOOLEAN]]
        /\ thread'[t].at = place /\ ~thread'[t].receipt
        /\ \A u \in Threads \ {t} : thread'[u] = thread[u]
    BY ZenonT(60), <2>1, <2>2, SetTyped DEF UnitInv
  <2>4. UnitTypeOK'
    BY <2>1, <2>3 DEF BeginStop, UnitInv, UnitTypeOK, Killed, UnitStates
  <2>5. Established'
    BY <1>1, <2>1, <2>3, OthersKeep DEF BeginStop, UnitInv, Established
  <2> QED
    BY <2>4, <2>5 DEF UnitInv
<1> QED
  BY <1>2, <1>3 DEF BeginStop

LEMMA AfterWaitKeeps ==
    ASSUME UnitInv, NEW t \in Threads, AfterWait(t)
    PROVE  UnitInv'
<1>1. CASE MayWitness /\ Set(t, "show", "stop", FALSE, FALSE)
  <2>1. /\ thread' \in [Threads -> [at : ThreadPlaces, role : {"wait", "stop"},
                                     receipt : BOOLEAN, again : BOOLEAN]]
        /\ thread'[t].at = "show" /\ ~thread'[t].receipt
        /\ \A u \in Threads \ {t} : thread'[u] = thread[u]
    BY <1>1, SetTyped DEF UnitInv, ThreadPlaces
  <2>2. Submitted
    BY <1>1 DEF MayWitness, Submitted
  <2>3. UnitTypeOK'
    BY <2>1 DEF AfterWait, UnitInv, UnitTypeOK, systemd
  <2>4. Established'
    BY <2>1, <2>2, OthersKeep DEF AfterWait, UnitInv, Established, systemd
  <2> QED
    BY <2>3, <2>4 DEF UnitInv
<1>2. CASE thread' = [thread EXCEPT ![t] = Resting]
  <2>1. /\ thread' \in [Threads -> [at : ThreadPlaces, role : {"wait", "stop"},
                                     receipt : BOOLEAN, again : BOOLEAN]]
        /\ thread'[t].at = "idle" /\ ~thread'[t].receipt
        /\ \A u \in Threads \ {t} : thread'[u] = thread[u]
    BY <1>2, RestTyped DEF UnitInv
  <2>2. UnitTypeOK'
    BY <2>1 DEF AfterWait, UnitInv, UnitTypeOK, systemd
  <2>3. Established'
    BY <2>1, OthersKeep DEF AfterWait, UnitInv, Established, systemd
  <2> QED
    BY <2>2, <2>3 DEF UnitInv
<1> QED
  BY <1>1, <1>2 DEF AfterWait

\* A crash forgets what the threads knew; what was proved stays true.
LEMMA UnitCrashKeeps ==
    ASSUME UnitInv, LauncherDies
    PROVE  UnitInv'
<1>1. /\ thread' \in [Threads -> [at : ThreadPlaces, role : {"wait", "stop"},
                                   receipt : BOOLEAN, again : BOOLEAN]]
      /\ \A t \in Threads : thread'[t].at \in {"over", "idle"} /\ ~thread'[t].receipt
  BY DEF LauncherDies, Resting, ThreadPlaces
<1>2. Waiter \in Threads
  BY DEF Threads
<1>3. UnitTypeOK'
  BY <1>1 DEF LauncherDies, UnitInv, UnitTypeOK, systemd
<1>4. Established'
  BY <1>1, <1>2 DEF LauncherDies, UnitInv, Established, IsAt, systemd, Submitted, Final,
     Gone
<1> QED
  BY <1>3, <1>4 DEF UnitInv

-----------------------------------------------------------------------------
LEMMA UnitInitKeeps ==
    ASSUME UnitInit
    PROVE  UnitInv
<1>1. /\ thread \in [Threads -> [at : ThreadPlaces, role : {"wait", "stop"},
                                  receipt : BOOLEAN, again : BOOLEAN]]
      /\ \A t \in Threads : thread[t].at \in {"new", "idle"} /\ ~thread[t].receipt
  BY DEF UnitInit, Resting, ThreadPlaces
<1>2. UnitTypeOK
  BY <1>1 DEF UnitInit, UnitTypeOK, UnitStates
<1>3. Established
  BY <1>1 DEF UnitInit, Established
<1> QED
  BY <1>2, <1>3 DEF UnitInv

LEMMA UnitNextKeeps ==
    ASSUME UnitInv, [UnitNext]_unitVars
    PROVE  UnitInv'
<1>1. CASE Systemd
  BY <1>1, SystemdTyped, SystemdEstablished DEF UnitInv
<1>2. ASSUME NEW t \in Threads, Work(t) \/ Deadline(t) \/ Interrupted(t) \/ ReadFails(t)
      PROVE  UnitInv'
  BY <1>2, LaunchKeeps, WaitingKeeps, ShowKeeps, CgroupKeeps, BindKeeps, ReadFailsKeeps,
     FinishWaitKeeps, BeginStopKeeps, AfterWaitKeeps, FinishStopKeeps DEF Work
<1>3. CASE LauncherDies
  BY <1>3, UnitCrashKeeps
<1>4. CASE UNCHANGED unitVars
  <2>1. UnitTypeOK'
    BY <1>4 DEF unitVars, UnitInv, UnitTypeOK
  <2>2. Established'
    BY <1>4 DEF unitVars, UnitInv, Established, IsAt, Submitted, Final, Gone
  <2> QED
    BY <2>1, <2>2 DEF UnitInv
<1> QED
  BY <1>1, <1>2, <1>3, <1>4 DEF UnitNext

LEMMA UnitInvKept == UnitSpec => []UnitInv
<1>1. UnitInit => UnitInv
  BY UnitInitKeeps
<1>2. UnitInv /\ [UnitNext]_unitVars => UnitInv'
  BY UnitNextKeeps
<1> QED
  BY <1>1, <1>2, PTL DEF UnitSpec

\* The variables keep their shape.
THEOREM UnitTypeCorrect == UnitSpec => []UnitTypeOK
<1>1. UnitInv => UnitTypeOK
  BY DEF UnitInv
<1> QED
  BY <1>1, UnitInvKept, PTL

\* A termination receipt, and the deletion of the staged files, is final for
\* any number of concurrent and repeated stops, across the death of the
\* launching process (SandboxTerminationReceipt).
THEOREM ReceiptsFinal == UnitSpec => []ReceiptsAreFinal
<1>1. UnitInv => ReceiptsAreFinal
  BY DEF UnitInv, Established, ReceiptsAreFinal, Final, Gone, Submitted
<1> QED
  BY <1>1, UnitInvKept, PTL

-----------------------------------------------------------------------------
\* What a turn of the general worker sees of its unit: asked for, started, or
\* over with nothing left of it.
Asked == IsAt(Waiter, "new") \/ transport = "submitting" \/ state = "pending"

Stage ==
    IF Asked THEN "starting"
    ELSE IF state \in Over /\ ~populated THEN "stopped" ELSE "running"

\* What UnitStarts and UnitEnds of the general worker let a unit do.
StageMoves ==
    \/ Stage = "starting" /\ Stage' \in {"running", "stopped"}
    \/ Stage = "running" /\ Stage' = "stopped"

\* A thread that does not launch leaves the transport alone, may kill, and
\* comes to no launch.
LEMMA ThreadsNeverLaunchAgain ==
    ASSUME UnitInv, NEW t \in Threads,
           Work(t) \/ Deadline(t) \/ Interrupted(t) \/ ReadFails(t)
    PROVE  \/ IsAt(Waiter, "new")
           \/ /\ state' \in {state, Killed} /\ UNCHANGED <<populated, transport>>
              /\ ~IsAt(Waiter, "new")'
<1> SUFFICES ASSUME thread[Waiter].at # "new"
             PROVE  /\ state' \in {state, Killed} /\ UNCHANGED <<populated, transport>>
                    /\ thread'[Waiter].at # "new"
  BY DEF IsAt
<1>0. UnitTypeOK /\ Waiter \in Threads
  BY DEF UnitInv, Threads
<1>1. ~Launch(t)
  BY DEF Launch, IsAt
<1>2. ASSUME NEW place, place # "new", Move(t, place)
      PROVE  thread'[Waiter].at # "new"
  BY <1>0, <1>2 DEF Move, UnitTypeOK
<1>3. ASSUME NEW place, place # "new", NEW role, NEW receipt, NEW again,
             Set(t, place, role, receipt, again)
      PROVE  thread'[Waiter].at # "new"
  BY <1>0, <1>3 DEF Set, UnitTypeOK
<1>4. ASSUME thread' = [thread EXCEPT ![t] = Resting]
      PROVE  thread'[Waiter].at # "new"
  BY <1>0, <1>4 DEF Resting, UnitTypeOK
<1>5. CASE \/ ReadLaunchReceipt(t) \/ EnterWait(t) \/ Collected(t)
           \/ GraceOver(t) \/ Deadline(t) \/ Interrupted(t) \/ Poll(t)
  <2>1. \E place \in {"lock", "over", "collect", "waited", "poll", "grace", "show", "finish"} :
           Move(t, place)
    BY <1>5 DEF ReadLaunchReceipt, EnterWait, Collected, GraceOver,
       Deadline, Interrupted, Poll
  <2>2. state' \in {state, Killed} /\ UNCHANGED <<populated, transport>>
    BY <1>5 DEF ReadLaunchReceipt, EnterWait, Collected, GraceOver,
       Deadline, Interrupted, Poll, systemd
  <2> QED
    BY <1>2, <2>1, <2>2
<1>6. CASE Show(t) \/ Cgroup(t) \/ Bind(t) \/ ReadFails(t)
  <2>1. state' \in {state, Killed} /\ UNCHANGED <<populated, transport>>
    BY <1>6 DEF Show, Cgroup, Bind, ReadFails, systemd
  <2>2. \/ \E place \in {"cgroup", "show"} : Move(t, place)
        \/ \E place \in {"bind", "show", "finish"} :
              \E role, receipt, again : Set(t, place, role, receipt, again)
    BY <1>6 DEF Show, Cgroup, Bind, ReadFails
  <2> QED
    BY <1>2, <1>3, <2>1, <2>2
<1>7. CASE FinishWait(t) \/ FinishStop(t)
  <2>1. state' \in {state, Killed} /\ UNCHANGED <<populated, transport>>
    BY <1>7 DEF FinishWait, FinishStop, systemd
  <2>2. \/ \E place \in {"over", "waited"} : Set(t, place, "wait", FALSE, FALSE)
        \/ thread' = [thread EXCEPT ![t] = Resting]
    BY <1>7 DEF FinishWait, FinishStop
  <2> QED
    BY <1>3, <1>4, <2>1, <2>2
<1>8. CASE BeginStop(t) \/ AfterWait(t)
  <2>1. state' \in {state, Killed} /\ UNCHANGED <<populated, transport>>
    BY <1>8 DEF BeginStop, AfterWait, systemd
  <2>2. \/ \E place \in {"lock", "show"}, role \in {"wait", "stop"} :
              Set(t, place, role, FALSE, FALSE)
        \/ thread' = [thread EXCEPT ![t] = Resting]
        \/ thread' = thread
    BY <1>8 DEF BeginStop, AfterWait
  <2> QED
    BY <1>3, <1>4, <2>1, <2>2
<1> QED
  BY <1>1, <1>5, <1>6, <1>7, <1>8 DEF Work

\* A unit is asked for once, and once over with nothing left it stays over.
LEMMA StageSteps ==
    ASSUME UnitInv, [UnitNext]_unitVars
    PROVE  Stage' = Stage \/ StageMoves
<1> DEFINE Left == state \in Over /\ ~populated
<1>1. ~Asked => ~Asked' /\ (Left => Left')
  <2> SUFFICES ASSUME ~Asked PROVE ~Asked' /\ (Left => Left')
    OBVIOUS
  <2>1. CASE Systemd
    BY <2>1 DEF Asked, Over, IsAt, Systemd, launcher, Submit, SubmitFails,
       BecomesActive, StartFails, UnitStops, ProcessesDie, BecomesInactive,
       UnitFades, UnitCollected, TransportExits
  <2>2. ASSUME NEW t \in Threads, Work(t) \/ Deadline(t) \/ Interrupted(t) \/ ReadFails(t)
        PROVE  ~Asked' /\ (Left => Left')
    <3>1. /\ state' \in {state, Killed} /\ UNCHANGED <<populated, transport>>
          /\ ~IsAt(Waiter, "new")'
      BY <2>2, ThreadsNeverLaunchAgain DEF Asked
    <3> QED
      BY <3>1 DEF Asked, Killed, Over
  <2>3. CASE LauncherDies
    <3>1. Waiter \in Threads
      BY DEF Threads
    <3> QED
      BY <2>3, <3>1 DEF LauncherDies, systemd, Asked, IsAt, Resting
  <2>4. CASE UNCHANGED unitVars
    BY <2>4 DEF unitVars, Asked, IsAt
  <2> QED
    BY <2>1, <2>2, <2>3, <2>4 DEF UnitNext
<1> QED
  BY <1>1 DEF Stage, StageMoves

\* The units of GeneralWorker are those of SandboxUnit: launched, watched,
\* stopped and witnessed by any number of threads, a unit starts once, and
\* starts and ends exactly as UnitStarts and UnitEnds let it.
THEOREM UnitsBehave == UnitSpec => Stage = "starting" /\ [][StageMoves]_Stage
<1>1. UnitInit => Stage = "starting"
  BY DEF UnitInit, Stage, Asked, IsAt, Threads, Resting
<1>2. UnitInv /\ [UnitNext]_unitVars => [StageMoves]_Stage
  BY StageSteps
<1> QED
  BY <1>1, <1>2, UnitInvKept, PTL DEF UnitSpec

\* What lets StopTurn and WaitTurn record a turn as stopped, a receipt, means
\* that the unit of the turn is stopped in the sense of GeneralWorker.
THEOREM ReceiptsMeanStopped == UnitSpec => [](proved => Stage = "stopped")
<1>1. UnitInv => (proved => Stage = "stopped")
  BY DEF UnitInv, Established, Final, Gone, Submitted, Stage, Asked, Over
<1> QED
  BY <1>1, UnitInvKept, PTL
=============================================================================
