-------------------------- MODULE LifecycleEvents ---------------------------
(***************************************************************************)
(* The lifecycle projection of one Run as a function of its events         *)
(* (lifecycle/controller.py apply_lifecycle_event, lifecycle/graph.py).    *)
(* A state is a record; each operator below is what one event makes of it. *)
(* The controller checks before it appends and the reducer checks again;   *)
(* each check is stated once, here when several operations share it and    *)
(* with the actions of RunLifecycle otherwise.                             *)
(***************************************************************************)
EXTENDS Naturals, Sequences, FiniteSets

CONSTANTS
  Node,         \* node identities
  MaxNodes,     \* frozen bound on the size of the graph
  MaxDepth,     \* frozen bound on its depth
  MaxAttempts,  \* the largest max_attempts a NodeSpec may carry
  Request,      \* request identities of await_user
  None          \* no outstanding request

ASSUME BoundAssumption ==
  /\ MaxNodes \in Nat \ {0}
  /\ MaxDepth \in Nat
  /\ MaxAttempts \in Nat \ {0}
  /\ None \notin Request

RunStatuses ==
  {"created", "running", "paused", "awaiting_user", "cancelling",
   "succeeded", "failed", "cancelled"}
NodeStatuses ==
  {"absent", "blocked", "ready", "running", "awaiting_reconciliation",
   "succeeded", "failed", "cancelled"}
AttemptStatuses == {"accepted", "succeeded", "failed", "outcome_unknown", "cancelled"}

Final == {"succeeded", "failed", "cancelled"}
Active == {"running", "awaiting_reconciliation"}
Live == {"ready"} \cup Active

\* The projection: the Run's status and outstanding request, and for each
\* node its status, its dependencies, its attempt limit and its attempts.
States ==
  [status : RunStatuses,
   request : Request \cup {None},
   node : [Node -> NodeStatuses],
   deps : [Node -> SUBSET Node],
   limit : [Node -> 1 .. MaxAttempts],
   attempts : [Node -> Seq(AttemptStatuses)],
   version : Nat]

Initialized ==
  [status |-> "created", request |-> None,
   node |-> [n \in Node |-> "absent"],
   deps |-> [n \in Node |-> {}],
   limit |-> [n \in Node |-> 1],
   attempts |-> [n \in Node |-> << >>],
   version |-> 0]

Present(s) == {n \in Node : s.node[n] # "absent"}
Idle(s) == \A n \in Node : s.node[n] \notin Active
LastAttempt(s, n) == s.attempts[n][Len(s.attempts[n])]

\* Every dependency of n has succeeded in s.
Unblocked(s, n) == \A p \in s.deps[n] : s.node[p] = "succeeded"

-----------------------------------------------------------------------------
\* Variant: each node is compared with its own dependencies only.
RankedLocally(members, deps) == \A n \in members : n \notin deps[n]

\* A dependency relation is acyclic and no deeper than MaxDepth when the
\* nodes can be ranked (validate_graph_append's visit computes the least rank).
Ranked(members, deps) ==
  \E rank \in [members -> 0 .. MaxDepth] :
    \A n \in members : \A p \in deps[n] : rank[p] < rank[n]

\* The graph after batch is appended with dependencies d.
ExtendedDeps(s, batch, d) == [n \in Node |-> IF n \in batch THEN d[n] ELSE s.deps[n]]

\* validate_graph_append.
ValidAppend(s, batch, d) ==
  /\ batch # {}
  /\ batch \cap Present(s) = {}
  /\ Cardinality(Present(s) \cup batch) <= MaxNodes
  /\ \A n \in batch : d[n] \subseteq Present(s) \cup batch
  /\ Ranked(Present(s) \cup batch, ExtendedDeps(s, batch, d))

-----------------------------------------------------------------------------
\* The check at the end of every event: a running Run fails when a node has
\* failed and nothing can proceed, and succeeds when every node has.
Concluded(s) ==
  IF s.status # "running" \/ Present(s) = {} THEN s
  ELSE IF /\ \E n \in Node : s.node[n] = "failed"
          /\ \A n \in Node : s.node[n] \notin Live
       THEN [s EXCEPT !.status = "failed"]
  ELSE IF \A n \in Present(s) : s.node[n] = "succeeded"
       THEN [s EXCEPT !.status = "succeeded"]
  ELSE s

\* GraphNodesAppended: a new node is ready when its dependencies succeeded.
GraphNodesAppended(s, batch, d, m) ==
  LET grown == [s EXCEPT !.deps = ExtendedDeps(s, batch, d),
                         !.limit = [n \in Node |-> IF n \in batch THEN m[n] ELSE s.limit[n]],
                         !.version = @ + 1]
  IN Concluded([grown EXCEPT !.node =
       [n \in Node |-> IF n \notin batch THEN s.node[n]
                       ELSE IF Unblocked(grown, n) THEN "ready" ELSE "blocked"]])

RunStarted(s) == Concluded([s EXCEPT !.status = "running"])
RunPaused(s) == [s EXCEPT !.status = "paused"]
RunResumed(s) == Concluded([s EXCEPT !.status = "running"])
RunAwaitingUser(s, q) == [s EXCEPT !.status = "awaiting_user", !.request = q]
RunUserResponseReceived(s) ==
  Concluded([s EXCEPT !.status = "running", !.request = None])

RunCancellationRequested(s) == [s EXCEPT !.status = "cancelling", !.request = None]

\* RunCancelled: what never ran is cancelled, what ended keeps its outcome.
RunCancelled(s) ==
  [s EXCEPT !.status = "cancelled",
            !.node = [n \in Node |-> IF s.node[n] \in {"blocked", "ready"}
                                     THEN "cancelled" ELSE s.node[n]]]

AttemptAccepted(s, n) ==
  Concluded([s EXCEPT !.node[n] = "running",
                      !.attempts[n] = Append(@, "accepted")])

\* Variant: a retry is allowed until the limit has been passed.
NodeAfterOneTooMany(s, n, outcome) ==
  CASE outcome = "outcome_unknown" -> "awaiting_reconciliation"
    [] outcome = "succeeded" -> "succeeded"
    [] outcome = "cancelled" -> "cancelled"
    [] outcome = "failed" ->
         IF Len(s.attempts[n]) <= s.limit[n] THEN "ready" ELSE "failed"

\* The status of a node whose last attempt ended with the given outcome.
NodeAfter(s, n, outcome) ==
  CASE outcome = "outcome_unknown" -> "awaiting_reconciliation"
    [] outcome = "succeeded" -> "succeeded"
    [] outcome = "cancelled" -> "cancelled"
    [] outcome = "failed" ->
         IF Len(s.attempts[n]) < s.limit[n] THEN "ready" ELSE "failed"

\* Variant: one succeeded dependency is enough to release a node.
ReleasedBySome(s) ==
  [s EXCEPT !.node = [n \in Node |->
     IF s.node[n] = "blocked" /\ \E p \in s.deps[n] : s.node[p] = "succeeded"
     THEN "ready" ELSE s.node[n]]]

\* A success releases every blocked node whose dependencies all succeeded.
Released(s) ==
  [s EXCEPT !.node = [n \in Node |->
     IF s.node[n] = "blocked" /\ Unblocked(s, n) THEN "ready" ELSE s.node[n]]]

\* AttemptCompleted, AttemptReconciled and AttemptCancelled: the last attempt
\* of n takes the outcome, and a success releases the nodes that waited.
AttemptEnded(s, n, outcome) ==
  LET ended == [s EXCEPT !.attempts[n][Len(s.attempts[n])] = outcome,
                         !.node[n] = NodeAfter(s, n, outcome)]
  IN Concluded(IF outcome = "succeeded" THEN Released(ended) ELSE ended)
-----------------------------------------------------------------------------
\* What complete_cancellation_if_idle checks before it appends RunCancelled.
MayComplete(s) == s.status = "cancelling" /\ Idle(s)

\* Variant: a result is matched with the node's current attempt whatever
\* generation sent it.
IsCurrentAnyGeneration(s, n, g, status) ==
  s.node[n] \in Active /\ g <= Len(s.attempts[n]) /\ LastAttempt(s, n) = status

\* Variant: an attempt already declared unknown still takes a late result.
IsCurrentOrUnknown(s, n, g, status) ==
  /\ s.node[n] \in Active
  /\ g = Len(s.attempts[n])
  /\ LastAttempt(s, n) \in {status, "outcome_unknown"}

\* Attempt g of n is the node's active attempt and has the given status
\* (_active_attempt and the fencing check).
IsCurrent(s, n, g, status) ==
  /\ s.node[n] \in Active
  /\ g = Len(s.attempts[n])
  /\ LastAttempt(s, n) = status
=============================================================================
