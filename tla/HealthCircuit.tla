--------------------------- MODULE HealthCircuit ----------------------------
(***************************************************************************)
(* The health circuits of one provider and its models (routing/health.py). *)
(* An aggregate's state is the replay of its own event stream; probe       *)
(* leases are kept in a coordinator stream.  Every operation takes the     *)
(* event time its caller read from a clock, up to Skew before the write    *)
(* commits, and appends to several streams in one transaction.  A call the *)
(* code refuses appends nothing and is not a step.                         *)
(***************************************************************************)
EXTENDS Naturals, Sequences, FiniteSets

CONSTANTS
  Provider,     \* the provider's aggregate
  Model,        \* the aggregates of its models
  Lease,        \* identities of probe leases
  Term,         \* durations a probe lease may be given
  RetryAfter,   \* retry-after durations a failure may carry
  Nil,         \* no lease, no retry-after
  FailureWindow, DegradeAfter, OpenAfter, RecoverySuccesses, Cooldown, \* HealthPolicy
  Skew,         \* how old an event time can be when it is written
  MaxTime       \* bound on the clock

ASSUME PolicyAssumption ==
  /\ {FailureWindow, DegradeAfter, OpenAfter, RecoverySuccesses, Cooldown} \subseteq Nat \ {0}
  /\ OpenAfter > DegradeAfter
  /\ Term \subseteq Nat \ {0}
  /\ RetryAfter \subseteq Nat
  /\ Skew \in Nat /\ MaxTime \in Nat
  /\ Nil \notin RetryAfter \cup Lease
  /\ Provider \notin Model

VARIABLES
  now,       \* the clock
  circuit,   \* circuit[a]: aggregate a as its stream replays
  lease,     \* lease[l]: probe lease l in the coordinator stream
  swept      \* event times at which a caller's expiry sweep has returned

healthVars == <<now, circuit, lease, swept>>

Aggregate == {Provider} \cup Model
CircuitStates == {"healthy", "degraded", "open", "half_open"}

\* Event times a call that commits now may carry.
EventTime == {t \in 0 .. now : t + Skew >= now}

Active(l) == lease[l].status = "active"
Due(l, t) == Active(l) /\ t >= lease[l].expires

HealthInit ==
  /\ now = 0
  /\ circuit = [a \in Aggregate |->
                  [state |-> "healthy", last |-> 0, failures |-> << >>, successes |-> 0,
                   cooldown |-> 0, lease |-> Nil, atGrant |-> FALSE, replays |-> TRUE]]
  /\ lease = [l \in Lease |-> [status |-> "free", members |-> {}, expires |-> 0]]
  /\ swept = {}

-----------------------------------------------------------------------------
\* The failures that still count at time t.  The times of a stream that
\* replays never decrease, so those that count no longer come first.
Recent(c, t) ==
  LET stale == {i \in 1 .. Len(c.failures) : c.failures[i] + FailureWindow < t}
  IN SubSeq(c.failures, Cardinality(stale) + 1, Len(c.failures))

\* Those of them that matter: only whether there are OpenAfter is ever asked.
Newest(times) ==
  IF Len(times) <= OpenAfter THEN times
  ELSE SubSeq(times, Len(times) - OpenAfter + 1, Len(times))

\* HealthCallFailure with a transient category.
AfterTransient(c, t, retry) ==
  LET times == Newest(Append(Recent(c, t), t))
      failed == [c EXCEPT !.failures = times, !.successes = 0]
      delay == IF retry # Nil /\ retry > Cooldown THEN retry ELSE Cooldown
  IN CASE c.state # "half_open" /\ (retry # Nil \/ Len(times) >= OpenAfter) ->
            [failed EXCEPT !.state = "open", !.cooldown = t + delay]
       [] c.state = "healthy" /\ Len(times) >= DegradeAfter /\ Len(times) < OpenAfter
            /\ retry = Nil -> [failed EXCEPT !.state = "degraded"]
       [] OTHER -> failed

\* HealthCallFailure with a permanent category.
AfterPermanent(c, t) ==
  [c EXCEPT !.failures = Recent(c, t),
            !.successes = IF c.state = "degraded" THEN 0 ELSE @]

Closed(c) ==
  [c EXCEPT !.state = "healthy", !.failures = << >>, !.successes = 0, !.cooldown = 0]

\* Variant: the circuit recovers but remembers the failures.
AfterSuccessRemembering(c, t) ==
  CASE c.state = "degraded" /\ c.successes + 1 >= RecoverySuccesses ->
         [c EXCEPT !.state = "healthy", !.failures = Recent(c, t), !.successes = 0]
    [] c.state = "degraded" /\ c.successes + 1 < RecoverySuccesses ->
         [c EXCEPT !.failures = Recent(c, t), !.successes = @ + 1]
    [] OTHER -> [c EXCEPT !.failures = Recent(c, t)]

\* Variant: any success closes a circuit that is not healthy.
AfterSuccessClosing(c, t) == Closed(c)

\* HealthCallSuccess
AfterSuccess(c, t) ==
  CASE c.state = "degraded" /\ c.successes + 1 >= RecoverySuccesses -> Closed(c)
    [] c.state = "degraded" /\ c.successes + 1 < RecoverySuccesses ->
         [c EXCEPT !.failures = Recent(c, t), !.successes = @ + 1]
    [] c.state = "healthy" -> [c EXCEPT !.failures = << >>, !.successes = 0]
    [] OTHER -> [c EXCEPT !.failures = Recent(c, t)]

\* HealthProbeLeaseGranted
AfterGrant(c, t, l) ==
  [c EXCEPT !.state = "half_open", !.lease = l, !.failures = Recent(c, t)]

\* Variant: the circuit reopens but stays bound to its lease.
AfterProbeStillLeased(c, t, success) ==
  IF success THEN [Closed(c) EXCEPT !.lease = Nil]
  ELSE [c EXCEPT !.state = "open", !.failures = Recent(c, t), !.successes = 0,
                 !.cooldown = t + Cooldown]

\* HealthProbeSucceeded, HealthProbeFailed and HealthProbeExpired
AfterProbe(c, t, success) ==
  IF success THEN [Closed(c) EXCEPT !.lease = Nil]
  ELSE [c EXCEPT !.state = "open", !.lease = Nil, !.failures = Recent(c, t),
                 !.successes = 0, !.cooldown = t + Cooldown]

\* Aggregate a after an event with time t that takes it to c.  The append
\* checks the stream's version only; the next replay rejects a stream whose
\* times decrease, and every operation on the aggregate starts with a replay.
\* atGrant says that the version still is the one a lease refers to.
Recorded(a, t, c, granted) ==
  IF t < circuit[a].last THEN [circuit[a] EXCEPT !.replays = FALSE, !.atGrant = FALSE]
  ELSE [c EXCEPT !.last = t, !.atGrant = granted]

Replays(group) == \A a \in group : circuit[a].replays

-----------------------------------------------------------------------------
Tick ==
  /\ now < MaxTime
  /\ now' = now + 1
  /\ swept' = {t \in swept : t + Skew >= now + 1}
  /\ UNCHANGED <<circuit, lease>>

\* record_outcome: the provider's and the model's circuit move together, each
\* to what the outcome makes of it.
Record(m, t, after) ==
  /\ Replays({Provider, m})
  /\ circuit' = [a \in Aggregate |->
                   IF a \in {Provider, m}
                   THEN Recorded(a, t, after[a], FALSE) ELSE circuit[a]]
  /\ UNCHANGED <<now, lease, swept>>

RecordSuccess(m, t) == Record(m, t, [a \in {Provider, m} |-> AfterSuccess(circuit[a], t)])
RecordTransient(m, t, retry) == Record(m, t, [a \in {Provider, m} |-> AfterTransient(circuit[a], t, retry)])
RecordPermanent(m, t) == Record(m, t, [a \in {Provider, m} |-> AfterPermanent(circuit[a], t)])

\* The sweep that acquire_probe_lease makes first returns when it has expired
\* every lease due at its event time; one lease it cannot expire aborts it.
SweepReturns(t) ==
  /\ \A l \in Lease : ~Due(l, t)
  /\ t \notin swept
  /\ swept' = swept \cup {t}
  /\ UNCHANGED <<now, circuit, lease>>

\* acquire_probe_lease, after its sweep: every open circuit of the target
\* goes half-open under one lease, provided none of them is being probed.
\* A grant makes a new identity, so that l is free only bounds their number.
AcquireLease(m, t, l, term) ==
  LET group == {Provider, m}
      openOnes == {a \in group : circuit[a].state = "open"}
  IN /\ t \in swept
     /\ lease[l].status = "free"
     /\ Replays(group)
     /\ \A k \in Lease : Active(k) => lease[k].members \cap group = {}
     /\ \A a \in group : circuit[a].state # "half_open"
     /\ openOnes # {}
     /\ \A a \in openOnes : t >= circuit[a].cooldown
     /\ circuit' = [a \in Aggregate |->
                      IF a \in openOnes
                      THEN Recorded(a, t, AfterGrant(circuit[a], t, l), TRUE)
                      ELSE circuit[a]]
     /\ lease' = [lease EXCEPT ![l] = [status |-> "active", members |-> openOnes,
                                       expires |-> t + term]]
     /\ UNCHANGED <<now, swept>>

\* The compare-and-swap on every aggregate of the lease.
Unmoved(l) ==
  \A a \in lease[l].members :
    /\ circuit[a].replays /\ circuit[a].atGrant
    /\ circuit[a].state = "half_open" /\ circuit[a].lease = l

\* finish_probe_lease
FinishLease(l, t, success) ==
  /\ Active(l)
  /\ success => t < lease[l].expires
  /\ Unmoved(l)
  /\ circuit' = [a \in Aggregate |->
                   IF a \in lease[l].members
                   THEN Recorded(a, t, AfterProbe(circuit[a], t, success), FALSE)
                   ELSE circuit[a]]
  /\ lease' = [lease EXCEPT ![l].status = "done"]
  /\ UNCHANGED <<now, swept>>

\* expire_probe_leases, for one lease that is due.
ExpireLease(l, t) == Due(l, t) /\ FinishLease(l, t, FALSE)

HealthNext ==
  \/ Tick
  \/ \E t \in EventTime :
       \/ SweepReturns(t)
       \/ \E m \in Model :
            \/ RecordSuccess(m, t)
            \/ RecordPermanent(m, t)
            \/ \E retry \in RetryAfter \cup {Nil} : RecordTransient(m, t, retry)
            \/ \E l \in Lease, term \in Term : AcquireLease(m, t, l, term)
       \/ \E l \in Lease :
            \/ ExpireLease(l, t)
            \/ \E success \in BOOLEAN : FinishLease(l, t, success)

HealthSpec == HealthInit /\ [][HealthNext]_healthVars

-----------------------------------------------------------------------------
\* Circuits and leases have the shape the events can give them; the recovery
\* counter stays below the threshold that resets it.
HealthTypeOK ==
  /\ now \in 0 .. MaxTime
  /\ circuit \in [Aggregate ->
       [state : CircuitStates, last : 0 .. MaxTime, failures : Seq(0 .. MaxTime),
        successes : 0 .. RecoverySuccesses - 1, cooldown : Nat,
        lease : Lease \cup {Nil}, atGrant : BOOLEAN, replays : BOOLEAN]]
  /\ lease \in [Lease -> [status : {"free", "active", "done"},
                          members : SUBSET Aggregate, expires : Nat]]
  /\ swept \subseteq 0 .. MaxTime

\* The coordinator stream and the aggregate streams agree at every commit: an
\* active lease names exactly the circuits that are half-open under it, so no
\* circuit is probed by two leases and none is half-open without one.  Only a
\* circuit whose stream no longer replays may be left behind.
LeasesCoverHalfOpen ==
  \A a \in Aggregate : circuit[a].replays =>
    /\ \A l \in Lease : Active(l) /\ a \in lease[l].members <=> circuit[a].lease = l
    /\ circuit[a].lease # Nil <=> circuit[a].state = "half_open"

\* A circuit's state is what its remembered failures call for: a healthy one
\* holds fewer than DegradeAfter, a degraded one fewer than OpenAfter, and
\* neither still carries the cooldown of an earlier opening.
StateFitsWindow ==
  \A a \in Aggregate :
    LET c == circuit[a] IN
    /\ c.state = "healthy" => Len(c.failures) < DegradeAfter
    /\ c.state = "degraded" => Len(c.failures) < OpenAfter
    /\ c.state \in {"healthy", "degraded"} => c.cooldown = 0

\* A circuit that opened carries traffic again only through a successful
\* probe, which closes every circuit of its lease in the same step, before
\* the lease expired: no late success of an ordinary call closes it.
OnlyProbesClose ==
  [][\A a \in Aggregate :
       /\ circuit[a].state \in {"open", "half_open"}
       /\ circuit'[a].state \in {"healthy", "degraded"}
       => \E l \in Lease :
            /\ a \in lease[l].members /\ Active(l) /\ lease'[l].status = "done"
            /\ circuit'[a].last < lease[l].expires
            /\ \A b \in lease[l].members :
                 circuit'[b].replays => circuit'[b].state = "healthy"]_healthVars

-----------------------------------------------------------------------------
\* A probe lease that has reached its expiry can be expired, which returns
\* its half-open circuits to "open" (presets-routing-design.md, the table of
\* section 9.2).
DueLeaseCanExpire ==
  \A l \in Lease : Due(l, now) => ENABLED ExpireLease(l, now)
=============================================================================
