------------------------ MODULE LifecycleEventsProofs ------------------------
(***************************************************************************)
(* What the events of LifecycleEvents do to a projection, one lemma each,  *)
(* and what they keep: the order of nodes and the account of attempts.     *)
(* The proofs about RunLifecycle and ControlPlane use these descriptions   *)
(* and do not open the reducer again.                                      *)
(***************************************************************************)
EXTENDS LifecycleEvents, SequenceTheorems, TLAPS

\* A running Run has something left to do: a node that has not succeeded, and
\* work in sight when one has failed.
Unfinished(s) ==
  s.status = "running" =>
    /\ \E n \in Node : s.node[n] \notin {"absent", "succeeded"}
    /\ \/ \A n \in Node : s.node[n] # "failed"
       \/ \E n \in Node : s.node[n] \in Live

\* What the trailing check of an event may do to a Run with status st: keep
\* it, or end a running one in which no attempt is left.  It lets a Run run on
\* only while something is left to do.
Settles(st, t) ==
  /\ \/ t.status = st
     \/ st = "running" /\ t.status \in {"succeeded", "failed"} /\ Idle(t)
  /\ Present(t) # {} => Unfinished(t)

\* Two projections agree on everything but the status of the Run.
SameButStatus(s, t) ==
  /\ t.request = s.request /\ t.node = s.node /\ t.deps = s.deps
  /\ t.limit = s.limit /\ t.attempts = s.attempts /\ t.version = s.version

-----------------------------------------------------------------------------
\* The trailing check of apply_lifecycle_event touches the status only, and
\* ends a Run only when no attempt is in flight or awaits reconciliation.
LEMMA ConcludedFacts ==
  ASSUME NEW s \in States
  PROVE  /\ Concluded(s) \in States
         /\ SameButStatus(s, Concluded(s))
         /\ Settles(s.status, Concluded(s))
<1>1. CASE s.status # "running" \/ Present(s) = {}
  BY <1>1 DEF Concluded, SameButStatus, Settles, Unfinished
<1>2. CASE /\ s.status = "running" /\ Present(s) # {}
           /\ \E n \in Node : s.node[n] = "failed"
           /\ \A n \in Node : s.node[n] \notin Live
  <2>1. Concluded(s) = [s EXCEPT !.status = "failed"]
    BY <1>2 DEF Concluded
  <2>2. /\ Concluded(s) \in States /\ SameButStatus(s, Concluded(s))
        /\ Concluded(s).status = "failed"
    BY <2>1 DEF SameButStatus, States, RunStatuses
  <2> QED
    BY <1>2, <2>2 DEF SameButStatus, Settles, Unfinished, Idle, Live
<1>3. CASE /\ s.status = "running" /\ Present(s) # {}
           /\ ~(/\ \E n \in Node : s.node[n] = "failed"
                /\ \A n \in Node : s.node[n] \notin Live)
           /\ \A n \in Present(s) : s.node[n] = "succeeded"
  <2>1. Concluded(s) = [s EXCEPT !.status = "succeeded"]
    BY <1>3 DEF Concluded
  <2>2. /\ Concluded(s) \in States /\ SameButStatus(s, Concluded(s))
        /\ Concluded(s).status = "succeeded"
    BY <2>1 DEF SameButStatus, States, RunStatuses
  <2>3. \A n \in Node : s.node[n] \in {"absent", "succeeded"}
    BY <1>3 DEF Present
  <2>4. Idle(Concluded(s))
    BY <2>2, <2>3 DEF SameButStatus, Idle, Active
  <2> QED
    BY <1>3, <2>2, <2>4 DEF Settles, Unfinished
<1>4. CASE /\ s.status = "running" /\ Present(s) # {}
           /\ ~(/\ \E n \in Node : s.node[n] = "failed"
                /\ \A n \in Node : s.node[n] \notin Live)
           /\ ~(\A n \in Present(s) : s.node[n] = "succeeded")
  <2>1. Concluded(s) = s
    BY <1>4 DEF Concluded
  <2>2. Unfinished(s)
    BY <1>4 DEF Unfinished, Present
  <2> QED
    BY <2>1, <2>2 DEF SameButStatus, Settles
<1> QED
  BY <1>1, <1>2, <1>3, <1>4

\* StartRun and resume_run only change the status before the trailing check.
LEMMA RunningFacts ==
  ASSUME NEW s \in States
  PROVE  LET t == Concluded([s EXCEPT !.status = "running"])
         IN t \in States /\ SameButStatus(s, t) /\ Settles("running", t)
<1> DEFINE u == [s EXCEPT !.status = "running"]
<1>1. u \in States /\ SameButStatus(s, u) /\ u.status = "running"
  BY DEF States, RunStatuses, SameButStatus
<1>2. /\ Concluded(u) \in States /\ SameButStatus(u, Concluded(u))
      /\ Settles("running", Concluded(u))
  BY <1>1, ConcludedFacts
<1> QED
  BY <1>1, <1>2 DEF SameButStatus

\* record_user_response also clears the outstanding request.
LEMMA ResponseFacts ==
  ASSUME NEW s \in States
  PROVE  LET t == RunUserResponseReceived(s)
         IN /\ t \in States /\ SameButStatus([s EXCEPT !.request = None], t)
            /\ Settles("running", t)
<1> DEFINE u == [s EXCEPT !.status = "running", !.request = None]
<1>1. /\ u \in States /\ SameButStatus([s EXCEPT !.request = None], u)
      /\ u.status = "running"
  BY DEF States, RunStatuses, SameButStatus
<1>2. /\ Concluded(u) \in States /\ SameButStatus(u, Concluded(u))
      /\ Settles("running", Concluded(u))
  BY <1>1, ConcludedFacts
<1> QED
  BY <1>1, <1>2 DEF SameButStatus, RunUserResponseReceived

\* What GraphNodesAppended does to a projection.
Appended(s, t, batch, d, m) ==
  /\ t \in States
  /\ t.request = s.request /\ t.attempts = s.attempts
  /\ t.deps = ExtendedDeps(s, batch, d)
  /\ \A n \in Node : t.limit[n] = IF n \in batch THEN m[n] ELSE s.limit[n]
  /\ \A n \in Node \ batch : t.node[n] = s.node[n]
  /\ \A n \in batch :
       /\ t.node[n] \in {"ready", "blocked"}
       /\ t.node[n] = "ready" <=> \A p \in d[n] : s.node[p] = "succeeded"
  /\ Settles(s.status, t)

\* append_nodes: a new node is ready exactly when its dependencies succeeded,
\* and nothing that was there changes.
LEMMA AppendFacts ==
  ASSUME NEW s \in States, NEW batch \in SUBSET Node,
         NEW d \in [batch -> SUBSET Node], NEW m \in [batch -> 1 .. MaxAttempts]
  PROVE  Appended(s, GraphNodesAppended(s, batch, d, m), batch, d, m)
<1> DEFINE newLimit == [n \in Node |-> IF n \in batch THEN m[n] ELSE s.limit[n]]
           newDeps == ExtendedDeps(s, batch, d)
           grown == [s EXCEPT !.deps = newDeps, !.limit = newLimit, !.version = @ + 1]
           newNode == [n \in Node |-> IF n \notin batch THEN s.node[n]
                                      ELSE IF Unblocked(grown, n) THEN "ready" ELSE "blocked"]
           u == [grown EXCEPT !.node = newNode]
<1>1. newDeps \in [Node -> SUBSET Node] /\ newLimit \in [Node -> 1 .. MaxAttempts]
  BY DEF ExtendedDeps, States
<1>2. newNode \in [Node -> NodeStatuses]
  BY DEF States, NodeStatuses
<1> HIDE DEF newDeps, newLimit, newNode
<1>3. grown \in States /\ grown.node = s.node /\ grown.deps = newDeps
  <2>1. s.version + 1 \in Nat
    BY DEF States
  <2> QED
    BY <1>1, <2>1 DEF States
<1>4. u \in States
  BY <1>2, <1>3 DEF States
<1>5. /\ u.request = s.request /\ u.attempts = s.attempts /\ u.status = s.status
      /\ u.deps = newDeps /\ u.limit = newLimit /\ u.node = newNode
  BY DEF States
<1>6. \A n \in batch : Unblocked(grown, n) <=> \A p \in d[n] : s.node[p] = "succeeded"
  BY <1>3 DEF Unblocked, newDeps, ExtendedDeps
<1>7. /\ \A n \in Node \ batch : u.node[n] = s.node[n]
      /\ \A n \in batch :
           /\ u.node[n] \in {"ready", "blocked"}
           /\ u.node[n] = "ready" <=> \A p \in d[n] : s.node[p] = "succeeded"
  BY <1>5, <1>6 DEF newNode
<1>10. \A n \in Node : newLimit[n] = IF n \in batch THEN m[n] ELSE s.limit[n]
  BY DEF newLimit
<1>8. GraphNodesAppended(s, batch, d, m) = Concluded(u)
  BY DEF GraphNodesAppended, newNode, newLimit, newDeps
<1>9. /\ Concluded(u) \in States /\ SameButStatus(u, Concluded(u))
      /\ Settles(u.status, Concluded(u))
  BY <1>4, ConcludedFacts
<1> HIDE DEF u
<1> QED
  BY <1>5, <1>7, <1>8, <1>9, <1>10 DEF SameButStatus, Appended, newDeps

\* What AttemptAccepted does to a projection.
Accepted(s, t, n) ==
  /\ t \in States
  /\ t.request = s.request /\ t.deps = s.deps /\ t.limit = s.limit
  /\ t.node = [s.node EXCEPT ![n] = "running"]
  /\ t.attempts = [s.attempts EXCEPT ![n] = Append(@, "accepted")]
  /\ Settles(s.status, t)

\* record_attempt_accepted starts one more attempt of the node.
LEMMA AcceptFacts ==
  ASSUME NEW s \in States, NEW n \in Node
  PROVE  Accepted(s, AttemptAccepted(s, n), n)
<1> DEFINE u == [s EXCEPT !.node[n] = "running", !.attempts[n] = Append(@, "accepted")]
<1>1. [s.node EXCEPT ![n] = "running"] \in [Node -> NodeStatuses]
  BY DEF States, NodeStatuses
<1>2. [s.attempts EXCEPT ![n] = Append(@, "accepted")] \in [Node -> Seq(AttemptStatuses)]
  <2>1. s.attempts[n] \in Seq(AttemptStatuses) /\ "accepted" \in AttemptStatuses
    BY DEF States, AttemptStatuses
  <2>2. Append(s.attempts[n], "accepted") \in Seq(AttemptStatuses)
    BY <2>1
  <2> QED
    BY <2>2 DEF States
<1>3. /\ u.request = s.request /\ u.deps = s.deps /\ u.limit = s.limit
      /\ u.status = s.status /\ u.version = s.version
      /\ u.node = [s.node EXCEPT ![n] = "running"]
      /\ u.attempts = [s.attempts EXCEPT ![n] = Append(@, "accepted")]
  BY DEF States
<1>4. u \in States
  BY <1>1, <1>2 DEF States
<1>5. /\ Concluded(u) \in States /\ SameButStatus(u, Concluded(u))
      /\ Settles(u.status, Concluded(u))
  BY <1>4, ConcludedFacts
<1>6. AttemptAccepted(s, n) = Concluded(u)
  BY DEF AttemptAccepted
<1> HIDE DEF u
<1> QED
  BY <1>3, <1>5, <1>6 DEF SameButStatus, Accepted

\* The node takes the status of its outcome, which is never a waiting one.
LEMMA NodeAfterFacts ==
  ASSUME NEW s \in States, NEW n \in Node, NEW outcome \in AttemptStatuses \ {"accepted"}
  PROVE  /\ NodeAfter(s, n, outcome) \in NodeStatuses \ {"absent", "blocked", "running"}
         /\ NodeAfter(s, n, outcome) = "succeeded" <=> outcome = "succeeded"
         /\ NodeAfter(s, n, outcome) = "ready"
              => outcome = "failed" /\ Len(s.attempts[n]) < s.limit[n]
         /\ NodeAfter(s, n, outcome) = "awaiting_reconciliation"
              <=> outcome = "outcome_unknown"
<1>1. outcome \in {"succeeded", "failed", "outcome_unknown", "cancelled"}
  BY DEF AttemptStatuses
<1> QED
  BY <1>1 DEF NodeAfter, NodeStatuses

\* A node that waited for n only is released by the success of n.
Freed(s, n, outcome, k) ==
  /\ outcome = "succeeded" /\ s.node[k] = "blocked"
  /\ \A p \in s.deps[k] : p = n \/ s.node[p] = "succeeded"

\* What AttemptEnded does to a projection.
Ended(s, t, n, outcome) ==
  /\ t \in States
  /\ t.request = s.request /\ t.deps = s.deps /\ t.limit = s.limit
  /\ t.attempts = [s.attempts EXCEPT ![n] =
                     [@ EXCEPT ![Len(s.attempts[n])] = outcome]]
  /\ t.node[n] = NodeAfter(s, n, outcome)
  /\ \A k \in Node \ {n} :
       t.node[k] = IF Freed(s, n, outcome, k) THEN "ready" ELSE s.node[k]
  /\ Settles(s.status, t)

\* record_attempt_completed, _reconciled and _cancelled give the last attempt
\* its outcome; only a success releases nodes, and only blocked ones whose
\* other dependencies had succeeded.
LEMMA EndFacts ==
  ASSUME NEW s \in States, NEW n \in Node, NEW outcome \in AttemptStatuses \ {"accepted"},
         s.attempts[n] # << >>
  PROVE  Ended(s, AttemptEnded(s, n, outcome), n, outcome)
<1> DEFINE newTries == [s.attempts[n] EXCEPT ![Len(s.attempts[n])] = outcome]
           newNode == [s.node EXCEPT ![n] = NodeAfter(s, n, outcome)]
           newAttempts == [s.attempts EXCEPT ![n] = newTries]
           ended == [s EXCEPT !.attempts[n][Len(s.attempts[n])] = outcome,
                              !.node[n] = NodeAfter(s, n, outcome)]
           u == IF outcome = "succeeded" THEN Released(ended) ELSE ended
<1>1. /\ NodeAfter(s, n, outcome) \in NodeStatuses
      /\ NodeAfter(s, n, outcome) = "succeeded" <=> outcome = "succeeded"
      /\ NodeAfter(s, n, outcome) # "blocked"
  BY NodeAfterFacts
<1>2. newTries \in Seq(AttemptStatuses)
  <2>1. s.attempts[n] \in Seq(AttemptStatuses)
    BY DEF States
  <2>2. Len(s.attempts[n]) \in 1 .. Len(s.attempts[n])
    BY <2>1, EmptySeq, LenProperties
  <2> QED
    BY <2>1, <2>2, ExceptSeq
<1>3. newNode \in [Node -> NodeStatuses] /\ newAttempts \in [Node -> Seq(AttemptStatuses)]
  BY <1>1, <1>2 DEF States
<1> HIDE DEF newTries
<1>4. /\ ended.request = s.request /\ ended.deps = s.deps /\ ended.limit = s.limit
      /\ ended.status = s.status /\ ended.version = s.version
      /\ ended.node = newNode
      /\ ended.attempts = newAttempts
  BY DEF States, newTries
<1> HIDE DEF newNode, newAttempts
<1>5. ended \in States
  BY <1>3, <1>4 DEF States
<1> HIDE DEF ended
<1>6. /\ u \in States
      /\ u.request = s.request /\ u.deps = s.deps /\ u.limit = s.limit
      /\ u.status = s.status /\ u.attempts = newAttempts
  <2>1. Released(ended) \in States
    <3>1. [k \in Node |-> IF ended.node[k] = "blocked" /\ Unblocked(ended, k)
                          THEN "ready" ELSE ended.node[k]] \in [Node -> NodeStatuses]
      BY <1>5 DEF States, NodeStatuses
    <3> QED
      BY <1>5, <3>1 DEF Released, States
  <2>2. /\ Released(ended).request = ended.request /\ Released(ended).deps = ended.deps
        /\ Released(ended).limit = ended.limit /\ Released(ended).status = ended.status
        /\ Released(ended).attempts = ended.attempts
    BY <1>5 DEF Released, States
  <2> QED
    BY <1>4, <1>5, <2>1, <2>2
<1>7. \A k \in Node : newNode[k] = IF k = n THEN NodeAfter(s, n, outcome) ELSE s.node[k]
  BY DEF newNode, States
<1>8. outcome = "succeeded" =>
        \A k \in Node : Released(ended).node[k] =
                          IF newNode[k] = "blocked" /\ Unblocked(ended, k)
                          THEN "ready" ELSE newNode[k]
  BY <1>4, <1>5 DEF Released, States
<1>9. outcome = "succeeded" =>
        \A k \in Node : Unblocked(ended, k)
                          <=> \A p \in s.deps[k] : p = n \/ s.node[p] = "succeeded"
  <2> SUFFICES ASSUME outcome = "succeeded", NEW k \in Node
               PROVE  Unblocked(ended, k)
                        <=> \A p \in s.deps[k] : p = n \/ s.node[p] = "succeeded"
    OBVIOUS
  <2>1. s.deps[k] \subseteq Node
    BY DEF States
  <2> QED
    BY <1>1, <1>4, <1>7, <2>1 DEF Unblocked
<1>10. /\ u.node[n] = NodeAfter(s, n, outcome)
       /\ \A k \in Node \ {n} : u.node[k] = IF Freed(s, n, outcome, k) THEN "ready" ELSE s.node[k]
  <2>1. CASE outcome = "succeeded"
    BY <1>1, <1>7, <1>8, <1>9, <2>1 DEF Freed
  <2>2. CASE outcome # "succeeded"
    BY <1>4, <1>7, <2>2 DEF Freed
  <2> QED
    BY <2>1, <2>2
<1>11. AttemptEnded(s, n, outcome) = Concluded(u)
  BY DEF AttemptEnded, ended
<1> HIDE DEF u
<1>12. /\ Concluded(u) \in States /\ SameButStatus(u, Concluded(u))
       /\ Settles(u.status, Concluded(u))
  BY <1>6, ConcludedFacts
<1>13. newAttempts = [s.attempts EXCEPT ![n] = [@ EXCEPT ![Len(s.attempts[n])] = outcome]]
  BY DEF newAttempts, newTries
<1> QED
  BY <1>6, <1>10, <1>11, <1>12, <1>13 DEF SameButStatus, Ended

\* What RunCancelled does to a projection.
Cancelled(s, t) ==
  /\ t \in States /\ t.status = "cancelled" /\ t.request = s.request
  /\ t.deps = s.deps /\ t.limit = s.limit /\ t.attempts = s.attempts
  /\ \A n \in Node : t.node[n] = IF s.node[n] \in {"blocked", "ready"}
                                  THEN "cancelled" ELSE s.node[n]

\* RunCancelled ends the Run and the nodes that never started or wait to be
\* tried again; attempts are left as they are.
LEMMA CancelFacts ==
  ASSUME NEW s \in States
  PROVE  Cancelled(s, RunCancelled(s))
<1> DEFINE newNode == [n \in Node |-> IF s.node[n] \in {"blocked", "ready"}
                                      THEN "cancelled" ELSE s.node[n]]
<1>1. newNode \in [Node -> NodeStatuses]
  BY DEF States, NodeStatuses
<1>2. RunCancelled(s) = [s EXCEPT !.status = "cancelled", !.node = newNode]
  BY DEF RunCancelled
<1> HIDE DEF newNode
<1>3. /\ RunCancelled(s) \in States /\ RunCancelled(s).status = "cancelled"
      /\ RunCancelled(s).request = s.request /\ RunCancelled(s).deps = s.deps
      /\ RunCancelled(s).limit = s.limit /\ RunCancelled(s).attempts = s.attempts
      /\ RunCancelled(s).node = newNode
  BY <1>1, <1>2 DEF States, RunStatuses
<1> QED
  BY <1>3 DEF newNode, Cancelled

-----------------------------------------------------------------------------
\* DependenciesFirst, for a projection and over all nodes.
Ordered(s) ==
  \A n \in Node :
    /\ s.node[n] \in Live \cup {"succeeded", "failed"} => Unblocked(s, n)
    /\ s.node[n] = "blocked" => ~Unblocked(s, n)

\* OneActiveAttempt for a projection, strengthened by what a step needs of the
\* nodes it is about to start: a node that waits has never been tried, and
\* every earlier attempt of a node that is ready has failed.
AccountedAt(s, n) ==
  LET tries == s.attempts[n] IN
  /\ s.node[n] \in {"absent", "blocked"} => tries = << >>
  /\ Len(tries) <= s.limit[n]
  /\ s.node[n] = "ready" => /\ Len(tries) < s.limit[n]
                            /\ \A i \in 1 .. Len(tries) : tries[i] = "failed"
  /\ \A i \in 1 .. Len(tries) - 1 : tries[i] = "failed"
  /\ s.node[n] = "running" <=> tries # << >> /\ LastAttempt(s, n) = "accepted"
  /\ s.node[n] = "awaiting_reconciliation"
       <=> tries # << >> /\ LastAttempt(s, n) = "outcome_unknown"

Accounted(s) == \A n \in Node : AccountedAt(s, n)

\* The recorded result r is that of an attempt s knows.
Stands(r, s) ==
  r # << >> => /\ r[2] \in 1 .. Len(s.attempts[r[1]])
               /\ s.attempts[r[1]][r[2]] = r[3]

Results == Node \X (1 .. MaxAttempts) \X AttemptStatuses

-----------------------------------------------------------------------------
\* What is said of a node depends on its own status, limit and attempts only.
LEMMA SameNode ==
  ASSUME NEW s, NEW t, NEW n,
         t.node[n] = s.node[n], t.limit[n] = s.limit[n], t.attempts[n] = s.attempts[n]
  PROVE  AccountedAt(s, n) => AccountedAt(t, n)
BY DEF AccountedAt, LastAttempt

\* Operations that only move the status of the Run keep what is said of nodes.
LEMMA KeepsGraph ==
  ASSUME NEW s \in States, NEW t \in States,
         t.node = s.node, t.deps = s.deps, t.limit = s.limit, t.attempts = s.attempts
  PROVE  /\ Ordered(s) => Ordered(t)
         /\ Accounted(s) => Accounted(t)
         /\ \A r : Stands(r, s) => Stands(r, t)
<1>1. Ordered(s) => Ordered(t)
  BY DEF Ordered, Unblocked
<1>2. Accounted(s) => Accounted(t)
  BY SameNode DEF Accounted
<1>3. \A r : Stands(r, s) => Stands(r, t)
  BY DEF Stands
<1> QED
  BY <1>1, <1>2, <1>3

\* Appending keeps the order: a node that was not there had not succeeded, so
\* no waiting node is released and no started one loses a dependency.
LEMMA AppendKeeps ==
  ASSUME NEW s \in States, NEW batch \in SUBSET Node,
         NEW d \in [batch -> SUBSET Node], NEW m \in [batch -> 1 .. MaxAttempts],
         batch \cap Present(s) = {}, Ordered(s), Accounted(s)
  PROVE  LET t == GraphNodesAppended(s, batch, d, m)
         IN Ordered(t) /\ Accounted(t) /\ \A r : Stands(r, s) => Stands(r, t)
<1> DEFINE t == GraphNodesAppended(s, batch, d, m)
<1>1. /\ t \in States /\ t.attempts = s.attempts
      /\ t.deps = ExtendedDeps(s, batch, d)
      /\ \A n \in Node : t.limit[n] = IF n \in batch THEN m[n] ELSE s.limit[n]
      /\ \A n \in Node \ batch : t.node[n] = s.node[n]
      /\ \A n \in batch :
           /\ t.node[n] \in {"ready", "blocked"}
           /\ t.node[n] = "ready" <=> \A p \in d[n] : s.node[p] = "succeeded"
  <2>1. Appended(s, t, batch, d, m)
    BY AppendFacts
  <2> QED
    BY <2>1 DEF Appended
<1> HIDE DEF t
<1>2. \A n \in batch : s.node[n] = "absent"
  BY DEF Present
<1>3. \A p \in Node : t.node[p] = "succeeded" <=> s.node[p] = "succeeded"
  BY <1>1, <1>2
<1>4. \A n \in Node : t.deps[n] = IF n \in batch THEN d[n] ELSE s.deps[n]
  BY <1>1 DEF ExtendedDeps
<1>5. \A n \in Node : t.deps[n] \subseteq Node
  BY <1>1 DEF States
<1>6. \A n \in Node \ batch : Unblocked(t, n) <=> Unblocked(s, n)
  BY <1>3, <1>4, <1>5 DEF Unblocked
<1>7. \A n \in batch : Unblocked(t, n) <=> t.node[n] = "ready"
  BY <1>1, <1>3, <1>4, <1>5 DEF Unblocked
<1>8. Ordered(t)
  BY <1>1, <1>6, <1>7 DEF Ordered, Live, Active
<1>9. Accounted(t)
  <2> SUFFICES ASSUME NEW n \in Node PROVE AccountedAt(t, n)
    BY DEF Accounted
  <2>1. CASE n \in batch
    <3>1. t.attempts[n] = << >> /\ t.node[n] \in {"ready", "blocked"}
      BY <1>1, <1>2, <2>1 DEF Accounted, AccountedAt
    <3>2. t.limit[n] \in 1 .. MaxAttempts
      BY <1>1 DEF States
    <3>3. Len(t.attempts[n]) = 0
      BY <3>1
    <3> QED
      BY <3>1, <3>2, <3>3, BoundAssumption DEF AccountedAt
  <2>2. CASE n \notin batch
    BY <1>1, <2>2, SameNode DEF Accounted
  <2> QED
    BY <2>1, <2>2
<1>10. \A r : Stands(r, s) => Stands(r, t)
  BY <1>1 DEF Stands
<1> QED
  BY <1>8, <1>9, <1>10 DEF t

\* Starting an attempt of a ready node releases nobody, and its attempts so
\* far have all failed.
LEMMA AcceptKeeps ==
  ASSUME NEW s \in States, NEW n \in Node, NEW t, Accepted(s, t, n),
         s.node[n] = "ready", Len(s.attempts[n]) < s.limit[n],
         Ordered(s), Accounted(s)
  PROVE  Ordered(t) /\ Accounted(t) /\ \A r \in Results : Stands(r, s) => Stands(r, t)
<1> DEFINE tries == s.attempts[n]
<1>1. /\ t \in States /\ t.deps = s.deps /\ t.limit = s.limit
      /\ t.node[n] = "running" /\ t.attempts[n] = Append(tries, "accepted")
      /\ \A k \in Node \ {n} : t.node[k] = s.node[k] /\ t.attempts[k] = s.attempts[k]
  BY DEF Accepted, States
<1>2. tries \in Seq(AttemptStatuses) /\ Len(tries) \in Nat
  BY DEF States
<1>3. /\ Len(t.attempts[n]) = Len(tries) + 1
      /\ \A i \in 1 .. Len(tries) : t.attempts[n][i] = tries[i]
      /\ t.attempts[n][Len(tries) + 1] = "accepted"
  BY <1>1, <1>2
<1>4. \A k \in Node : s.deps[k] \subseteq Node
  BY DEF States
<1>5. Ordered(t)
  <2>1. \A p \in Node : t.node[p] = "succeeded" <=> s.node[p] = "succeeded"
    BY <1>1
  <2>2. \A k \in Node : Unblocked(t, k) <=> Unblocked(s, k)
    BY <1>1, <1>4, <2>1 DEF Unblocked
  <2> QED
    BY <1>1, <2>2 DEF Ordered, Live, Active
<1>6. AccountedAt(t, n)
  <2>1. \A i \in 1 .. Len(tries) : tries[i] = "failed"
    BY DEF Accounted, AccountedAt
  <2>2. t.attempts[n] # << >>
    BY <1>2, <1>3
  <2>3. LastAttempt(t, n) = "accepted"
    BY <1>3 DEF LastAttempt
  <2>4. s.limit[n] \in Nat
    BY BoundAssumption DEF States
  <2>5. Len(t.attempts[n]) <= t.limit[n]
    BY <1>1, <1>2, <1>3, <2>4
  <2>6. \A i \in 1 .. Len(t.attempts[n]) - 1 : t.attempts[n][i] = "failed"
    BY <1>2, <1>3, <2>1
  <2> QED
    BY <1>1, <2>2, <2>3, <2>5, <2>6 DEF AccountedAt
<1>7. Accounted(t)
  BY <1>1, <1>6, SameNode DEF Accounted
<1>8. ASSUME NEW r \in Results, Stands(r, s), r # << >> PROVE Stands(r, t)
  <2>1. CASE r[1] = n
    BY SMTT(30), <1>2, <1>3, <1>8, <2>1 DEF Stands
  <2>2. CASE r[1] # n
    <3>1. r[1] \in Node \ {n}
      BY <2>2 DEF Results
    <3> QED
      BY <1>1, <1>8, <3>1 DEF Stands
  <2> QED
    BY <2>1, <2>2
<1>9. \A r \in Results : Stands(r, s) => Stands(r, t)
  BY <1>8 DEF Stands
<1> QED
  BY <1>5, <1>7, <1>9

\* A cancellation completes when the Run is idle, so no attempt is touched and
\* no node that ended changes.
LEMMA CancelKeeps ==
  ASSUME NEW s \in States, NEW t, Cancelled(s, t), Idle(s), Ordered(s), Accounted(s)
  PROVE  Ordered(t) /\ Accounted(t) /\ Idle(t) /\ \A r : Stands(r, s) => Stands(r, t)
<1>1. /\ t \in States /\ t.deps = s.deps /\ t.limit = s.limit /\ t.attempts = s.attempts
      /\ \A n \in Node : t.node[n] = IF s.node[n] \in {"blocked", "ready"}
                                     THEN "cancelled" ELSE s.node[n]
  BY DEF Cancelled
<1>2. Idle(t)
  BY <1>1 DEF Idle, Active
<1>3. Ordered(t)
  <2>1. \A k \in Node : s.deps[k] \subseteq Node
    BY DEF States
  <2>2. \A k \in Node : Unblocked(s, k) => Unblocked(t, k)
    BY <1>1, <2>1 DEF Unblocked
  <2> QED
    BY <1>1, <1>2, <2>2 DEF Ordered, Idle, Live
<1>4. Accounted(t)
  <2> SUFFICES ASSUME NEW n \in Node PROVE AccountedAt(t, n)
    BY DEF Accounted
  <2>1. LastAttempt(t, n) = LastAttempt(s, n)
    BY <1>1 DEF LastAttempt
  <2>2. AccountedAt(s, n)
    BY DEF Accounted
  <2> QED
    BY <1>1, <2>1, <2>2 DEF AccountedAt
<1>5. \A r : Stands(r, s) => Stands(r, t)
  BY <1>1 DEF Stands
<1> QED
  BY <1>2, <1>3, <1>4, <1>5

\* Ending the active attempt of a node: the waiting nodes it releases have all
\* their dependencies, and the node may be tried again only within its limit.
LEMMA EndKeeps ==
  ASSUME NEW s \in States, NEW n \in Node, NEW outcome \in AttemptStatuses \ {"accepted"},
         NEW t, Ended(s, t, n, outcome), s.node[n] \in Active,
         Ordered(s), Accounted(s)
  PROVE  /\ Ordered(t) /\ Accounted(t)
         /\ Stands(<<n, Len(s.attempts[n]), outcome>>, t)
<1> DEFINE tries == s.attempts[n]
<1>1. /\ t \in States /\ t.deps = s.deps /\ t.limit = s.limit
      /\ t.node[n] = NodeAfter(s, n, outcome)
      /\ t.attempts[n] = [tries EXCEPT ![Len(tries)] = outcome]
      /\ \A k \in Node \ {n} : /\ t.attempts[k] = s.attempts[k]
                               /\ t.node[k] = IF Freed(s, n, outcome, k) THEN "ready"
                                              ELSE s.node[k]
  BY DEF Ended, States
<1>2. /\ t.node[n] \in NodeStatuses \ {"absent", "blocked", "running"}
      /\ t.node[n] = "succeeded" <=> outcome = "succeeded"
      /\ t.node[n] = "ready" => outcome = "failed" /\ Len(tries) < s.limit[n]
      /\ t.node[n] = "awaiting_reconciliation" <=> outcome = "outcome_unknown"
  BY <1>1, NodeAfterFacts
<1>3. /\ tries # << >> /\ Len(tries) <= s.limit[n]
      /\ \A i \in 1 .. Len(tries) - 1 : tries[i] = "failed"
  BY DEF Accounted, AccountedAt, Active
<1>4. tries \in Seq(AttemptStatuses) /\ Len(tries) \in Nat \ {0}
  <2>1. tries \in Seq(AttemptStatuses)
    BY DEF States
  <2> QED
    BY <1>3, <2>1, EmptySeq, LenProperties
<1>5. /\ t.attempts[n] \in Seq(AttemptStatuses)
      /\ Len(t.attempts[n]) = Len(tries)
      /\ t.attempts[n][Len(tries)] = outcome
      /\ \A i \in 1 .. Len(tries) - 1 : t.attempts[n][i] = tries[i]
  BY <1>1, <1>4, ExceptSeq
<1>6. Ordered(t)
  <2>1. \A k \in Node : s.deps[k] \subseteq Node
    BY DEF States
  <2>2. s.node[n] # "succeeded" /\ Unblocked(s, n)
    BY DEF Ordered, Live, Active
  <2>3. \A p \in Node : t.node[p] = "succeeded"
                          <=> s.node[p] = "succeeded" \/ (p = n /\ outcome = "succeeded")
    BY <1>1, <1>2, <2>2 DEF Freed
  <2>4. \A k \in Node : Unblocked(s, k) => Unblocked(t, k)
    BY <1>1, <2>1, <2>3 DEF Unblocked
  <2>5. \A k \in Node \ {n} : Freed(s, n, outcome, k) => Unblocked(t, k)
    BY <1>1, <2>1, <2>3 DEF Unblocked, Freed
  <2>6. \A k \in Node \ {n} : s.node[k] = "blocked" /\ ~Freed(s, n, outcome, k)
                                => ~Unblocked(t, k)
    <3> SUFFICES ASSUME NEW k \in Node \ {n}, s.node[k] = "blocked", Unblocked(t, k)
                 PROVE  Freed(s, n, outcome, k)
      OBVIOUS
    <3>1. \A p \in s.deps[k] : s.node[p] = "succeeded" \/ (p = n /\ outcome = "succeeded")
      BY <1>1, <2>1, <2>3 DEF Unblocked
    <3>2. outcome = "succeeded"
      BY <3>1 DEF Ordered, Unblocked
    <3> QED
      BY <3>1, <3>2 DEF Freed
  <2>7. ASSUME NEW k \in Node \ {n}
        PROVE  /\ t.node[k] \in Live \cup {"succeeded", "failed"} => Unblocked(t, k)
               /\ t.node[k] = "blocked" => ~Unblocked(t, k)
    <3>1. CASE Freed(s, n, outcome, k)
      BY <1>1, <2>5, <3>1
    <3>2. CASE ~Freed(s, n, outcome, k)
      BY <1>1, <2>4, <2>6, <3>2 DEF Ordered
    <3> QED
      BY <3>1, <3>2
  <2> QED
    BY <1>2, <2>2, <2>4, <2>7 DEF Ordered
<1>7. AccountedAt(t, n)
  <2>1. t.attempts[n] # << >>
    BY <1>4, <1>5
  <2>2. LastAttempt(t, n) = outcome
    BY <1>5 DEF LastAttempt
  <2>3. t.node[n] = "ready" => \A i \in 1 .. Len(t.attempts[n]) : t.attempts[n][i] = "failed"
    BY <1>2, <1>3, <1>4, <1>5
  <2> QED
    BY <1>1, <1>2, <1>3, <1>5, <2>1, <2>2, <2>3 DEF AccountedAt
<1>8. ASSUME NEW k \in Node \ {n} PROVE AccountedAt(t, k)
  <2>1. CASE Freed(s, n, outcome, k)
    <3>1. t.node[k] = "ready" /\ t.attempts[k] = << >> /\ t.limit[k] \in 1 .. MaxAttempts
      BY <1>1, <2>1 DEF Freed, Accounted, AccountedAt, States
    <3>2. Len(t.attempts[k]) = 0
      BY <3>1
    <3> QED
      BY <3>1, <3>2, BoundAssumption DEF AccountedAt
  <2>2. CASE ~Freed(s, n, outcome, k)
    BY <1>1, <2>2, SameNode DEF Accounted
  <2> QED
    BY <2>1, <2>2
<1>9. Accounted(t)
  BY <1>7, <1>8 DEF Accounted
<1>10. Stands(<<n, Len(s.attempts[n]), outcome>>, t)
  BY <1>4, <1>5 DEF Stands
<1> QED
  BY <1>6, <1>9, <1>10

\* A Run starts without nodes, in order and with nothing to account for.
LEMMA InitializedFacts ==
  /\ Initialized \in States /\ Present(Initialized) = {}
  /\ Ordered(Initialized) /\ Accounted(Initialized)
<1>1. Initialized \in States
  <2>1. 1 \in 1 .. MaxAttempts /\ << >> \in Seq(AttemptStatuses) /\ 0 \in Nat
    BY BoundAssumption
  <2> QED
    BY <2>1 DEF Initialized, States, RunStatuses, NodeStatuses
<1>2. \A n \in Node : /\ Initialized.node[n] = "absent" /\ Initialized.attempts[n] = << >>
                      /\ Initialized.limit[n] = 1
  BY DEF Initialized
<1>3. Ordered(Initialized)
  BY <1>2 DEF Ordered, Live, Active
<1>4. Accounted(Initialized)
  <2> SUFFICES ASSUME NEW n \in Node PROVE AccountedAt(Initialized, n)
    BY DEF Accounted
  <2>1. Len(Initialized.attempts[n]) = 0
    BY <1>2
  <2> QED
    BY <1>2, <2>1 DEF AccountedAt
<1>5. Present(Initialized) = {}
  BY <1>2 DEF Present
<1> QED
  BY <1>1, <1>3, <1>4, <1>5

=============================================================================
