--------------------------- MODULE ToolCallsProofs ---------------------------
(***************************************************************************)
(* Proofs about the read-only tool gateway and its approvals, for every    *)
(* number of requests, attempts and policy versions; and, in the second    *)
(* half, about workspace operations, the write gateway and the publisher,  *)
(* for every set of operations and every change set.                       *)
(***************************************************************************)
EXTENDS ToolCalls, WorkspaceWrite, SequenceTheorems, TLAPS

\* Where a call is: before its execution has started, and after, while the
\* effect of its approval has no receipt yet.
PreStart == {"ask", "recheck", "start", "bind", "bind_commit", "consume",
             "consume_commit", "approved_start"}
Bound    == {"bind_commit", "consume", "consume_commit", "approved_start"}
Owing    == {"authorize", "launch", "wait", "receipt"}
Began    == Owing \cup {"end"}

\* What a recorded or intended end says of the command.
Told(terminal, state) ==
  /\ terminal = "completed" => state = "stopped"
  /\ terminal = "cancelled" => state # "running"

\* A request is executed once, by the one call that recorded its decision.
Recorded(q) ==
  /\ tool[q].decision = None =>
       tool[q].start = None /\ tool[q].terminal = None /\ ran[q] = "no" /\ ~approval[q].asked
  /\ tool[q].start = None => ran[q] = "no"
  /\ Told(tool[q].terminal, ran[q])

\* What a call in progress may rely on.
Placed(q) ==
  LET c == call[q] IN
  /\ c.step \in PreStart \cup Began => tool[q].decision # None /\ tool[q].terminal = None
  /\ c.step = "ask" => ~approval[q].asked
  /\ c.step \in PreStart => tool[q].start = None
  /\ c.step \in Began => tool[q].start = [by |-> c.by, under |-> c.under]
  /\ c.step \in {"authorize", "launch"} => ran[q] = "no"
  /\ c.step = "receipt" => ran[q] = "stopped" /\ c.under # None
  /\ c.step \in {"receipt", "end"} => Told(c.terminal, ran[q])

\* The decision it goes by, and the grant it acts under.
Decided(q) ==
  LET c == call[q] IN
  /\ c.step \in PreStart \ {"ask"} =>
       Decision(c.state) = IF c.under = None THEN "allow" ELSE "needs_approval"
  /\ c.step = "start" => c.under = None
  /\ c.step \in Bound \cup {"bind"} => c.under # None
  /\ c.step \in Bound =>
       approval[c.under].granted /\ approval[c.under].version = c.state
  /\ c.step = "approved_start" =>
       effect[c.under].by = c.by /\ approval[c.under].bound = c.by

\* A grant that was consumed is not withdrawn any more.
Granted(g) ==
  /\ approval[g].granted => approval[g].asked
  /\ approval[g].withdrawn => Refused(g)
  /\ Consumed(g) => approval[g].granted /\ ~approval[g].withdrawn
  /\ ~Consumed(g) => effect[g].receipt = None

\* Request q executes under g, or is about to.
Holds(q, g) ==
  \/ call[q].step = "approved_start" /\ call[q].under = g
  \/ tool[q].start # None /\ tool[q].start.under = g

\* Whoever holds a grant consumed it, alone, and its receipt is true.
Owned(q, g) ==
  /\ Consumed(g)
  /\ tool[q].start # None =>
       effect[g].by = tool[q].start.by /\ approval[g].bound = tool[q].start.by
  /\ effect[g].receipt = "applied" => ran[q] = "stopped"
  /\ effect[g].receipt = "not_applied" => ran[q] = "no"
  /\ call[q].step \in Owing \cup {"approved_start"} => effect[g].receipt = None

Sole(q, g) ==
  Holds(q, g) => Owned(q, g) /\ \A r \in Request : Holds(r, g) => r = q

Kept ==
  /\ \A q \in Request : Recorded(q) /\ Placed(q) /\ Decided(q)
  /\ \A g \in Request : Granted(g)
  /\ \A q, g \in Request : Sole(q, g)

Inv == TypeOK /\ Kept

-----------------------------------------------------------------------------
\* Type correctness.

\* What Goto, EndWith and Leave do to the calls.
LEMMA GotoFacts ==
  ASSUME TypeOK, NEW q \in Request, NEW s \in Steps, Goto(q, s)
  PROVE  /\ call' \in [Request -> Calls]
         /\ call'[q].step = s /\ call'[q].by = call[q].by /\ call'[q].state = call[q].state
         /\ call'[q].under = call[q].under /\ call'[q].terminal = call[q].terminal
         /\ \A k \in Request \ {q} : call'[k] = call[k]
<1>1. call[q] \in Calls
  BY DEF TypeOK
<1>2. call' = [call EXCEPT ![q] = [call[q] EXCEPT !.step = s]]
  BY DEF Goto
<1>3. [call[q] EXCEPT !.step = s] \in Calls
  BY <1>1 DEF Calls
<1> QED
  BY <1>1, <1>2, <1>3 DEF TypeOK, Calls

\* A call that goes on to its end, with the outcome it will record.
LEMMA EndFacts ==
  ASSUME TypeOK, NEW q \in Request, NEW s \in Steps, NEW x \in Terminals, EndWith(q, s, x)
  PROVE  /\ call' \in [Request -> Calls]
         /\ call'[q].step = s /\ call'[q].by = call[q].by /\ call'[q].state = call[q].state
         /\ call'[q].under = call[q].under /\ call'[q].terminal = x
         /\ \A k \in Request \ {q} : call'[k] = call[k]
<1>1. call[q] \in Calls
  BY DEF TypeOK
<1>2. call' = [call EXCEPT ![q] = [call[q] EXCEPT !.step = s, !.terminal = x]]
  BY DEF EndWith
<1>3. [call[q] EXCEPT !.step = s, !.terminal = x] \in Calls
  BY <1>1 DEF Calls
<1> QED
  BY <1>1, <1>2, <1>3 DEF TypeOK, Calls

\* A call that is over.
LEMMA LeaveFacts ==
  ASSUME TypeOK, NEW q \in Request, Leave(q)
  PROVE  /\ call' \in [Request -> Calls]
         /\ call'[q].step = "idle" /\ call'[q].under = None
         /\ \A k \in Request \ {q} : call'[k] = call[k]
<1>1. NoCall \in Calls /\ NoCall.step = "idle" /\ NoCall.under = None
  BY ToolAssumption DEF NoCall, Calls, Steps, Attempts, Policies
<1> QED
  BY <1>1 DEF Leave, TypeOK

\* What the failures of the approval service record: marks that refuse a
\* grant, and nothing else.
OnlyMarked ==
  /\ approval' \in [Request -> Approvals]
  /\ \A g \in Request :
       /\ approval'[g].asked = approval[g].asked
       /\ approval'[g].granted = approval[g].granted
       /\ approval'[g].version = approval[g].version
       /\ approval'[g].bound = approval[g].bound
       /\ approval'[g].withdrawn = approval[g].withdrawn
       /\ Refused(g) => Refused(g)'

\* Expiry and revocation records of a failed call only mark.
LEMMA Marking ==
  ASSUME TypeOK,
         \/ UNCHANGED approval
         \/ \E g \in Request : RecordExpired(g) \/ RecordOutdated(g)
  PROVE  OnlyMarked
<1>1. CASE UNCHANGED approval
  BY <1>1 DEF OnlyMarked, TypeOK, Refused
<1>2. ASSUME NEW g \in Request, RecordExpired(g) PROVE OnlyMarked
  <2>1. approval[g] \in Approvals
    BY DEF TypeOK
  <2>2. approval' = [approval EXCEPT ![g] = [approval[g] EXCEPT !.expired = TRUE]]
    BY <1>2 DEF RecordExpired
  <2>3. [approval[g] EXCEPT !.expired = TRUE] \in Approvals
    BY <2>1 DEF Approvals
  <2> QED
    BY <2>1, <2>2, <2>3 DEF OnlyMarked, TypeOK, Refused, Approvals
<1>3. ASSUME NEW g \in Request, RecordOutdated(g) PROVE OnlyMarked
  <2>1. approval[g] \in Approvals
    BY DEF TypeOK
  <2> DEFINE late == approval[g].revoked \/ policy # approval[g].version
  <2>2. approval' = [approval EXCEPT ![g] = [approval[g] EXCEPT !.revoked = late]]
    BY <1>3 DEF RecordOutdated
  <2>3. late \in BOOLEAN /\ (approval[g].revoked => late)
    BY <2>1 DEF Approvals
  <2> HIDE DEF late
  <2>4. [approval[g] EXCEPT !.revoked = late] \in Approvals
    BY <2>1, <2>3 DEF Approvals
  <2> QED
    BY <2>1, <2>2, <2>3, <2>4 DEF OnlyMarked, TypeOK, Refused, Approvals
<1> QED
  BY <1>1, <1>2, <1>3

\* The start is recorded once, with the attempt and approval of its call.
LEMMA StartedFacts ==
  ASSUME TypeOK, NEW q \in Request, Started(q)
  PROVE  /\ tool' \in [Request -> Tools]
         /\ tool'[q].start = [by |-> call[q].by, under |-> call[q].under]
         /\ tool'[q].start # None
         /\ tool'[q].decision = tool[q].decision /\ tool'[q].terminal = tool[q].terminal
         /\ \A k \in Request \ {q} : tool'[k] = tool[k]
<1> DEFINE s == [by |-> call[q].by, under |-> call[q].under]
<1>1. tool[q] \in Tools /\ s \in Starts
  BY DEF TypeOK, Calls, Starts
<1>2. tool' = [tool EXCEPT ![q] = [tool[q] EXCEPT !.start = s]]
  BY DEF Started
<1>3. s # None
  BY <1>1, ToolAssumption
<1> HIDE DEF s
<1>4. [tool[q] EXCEPT !.start = s] \in Tools
  BY <1>1 DEF Tools
<1>5. /\ tool' \in [Request -> Tools] /\ tool'[q].start = s
      /\ tool'[q].decision = tool[q].decision /\ tool'[q].terminal = tool[q].terminal
      /\ \A k \in Request \ {q} : tool'[k] = tool[k]
  BY <1>1, <1>2, <1>4 DEF TypeOK, Tools
<1> QED
  BY <1>3, <1>5 DEF s

\* A decision, or an end, is recorded in the stream of a request.
LEMMA DecisionFacts ==
  ASSUME TypeOK, NEW q \in Request, NEW d \in Decisions,
         tool' = [tool EXCEPT ![q].decision = d]
  PROVE  /\ tool' \in [Request -> Tools] /\ tool'[q].decision = d
         /\ tool'[q].start = tool[q].start /\ tool'[q].terminal = tool[q].terminal
         /\ \A k \in Request \ {q} : tool'[k] = tool[k]
<1>1. tool[q] \in Tools
  BY DEF TypeOK
<1>2. tool' = [tool EXCEPT ![q] = [tool[q] EXCEPT !.decision = d]]
  OBVIOUS
<1>3. [tool[q] EXCEPT !.decision = d] \in Tools
  BY <1>1 DEF Tools
<1> QED
  BY <1>1, <1>2, <1>3 DEF TypeOK, Tools

\* An end recorded in the stream of a request touches nothing else of it.
LEMMA TerminalFacts ==
  ASSUME TypeOK, NEW q \in Request, NEW x \in Terminals \cup {None},
         tool' = [tool EXCEPT ![q].terminal = x]
  PROVE  /\ tool' \in [Request -> Tools] /\ tool'[q].terminal = x
         /\ tool'[q].start = tool[q].start /\ tool'[q].decision = tool[q].decision
         /\ \A k \in Request \ {q} : tool'[k] = tool[k]
<1>1. tool[q] \in Tools
  BY DEF TypeOK
<1>2. tool' = [tool EXCEPT ![q] = [tool[q] EXCEPT !.terminal = x]]
  OBVIOUS
<1>3. [tool[q] EXCEPT !.terminal = x] \in Tools
  BY <1>1 DEF Tools
<1> QED
  BY <1>1, <1>2, <1>3 DEF TypeOK, Tools

\* The reservation under a grant, and the receipt of its effect.
LEMMA IntendedFacts ==
  ASSUME TypeOK, NEW q \in Request, NEW g \in Request,
         effect' = [effect EXCEPT ![g].by = call[q].by]
  PROVE  /\ effect' \in [Request -> Effects] /\ effect'[g].by = call[q].by
         /\ effect'[g].receipt = effect[g].receipt /\ effect'[g].by # None
         /\ \A h \in Request \ {g} : effect'[h] = effect[h]
<1>1. effect[g] \in Effects /\ call[q].by \in Attempts /\ call[q].by # None
  BY ToolAssumption DEF TypeOK, Calls
<1>2. effect' = [effect EXCEPT ![g] = [effect[g] EXCEPT !.by = call[q].by]]
  OBVIOUS
<1>3. [effect[g] EXCEPT !.by = call[q].by] \in Effects
  BY <1>1 DEF Effects
<1> QED
  BY <1>1, <1>2, <1>3 DEF TypeOK, Effects

\* A receipt never changes which attempt an effect belongs to.
LEMMA ReceiptFacts ==
  ASSUME TypeOK, NEW q \in Request, NEW x \in Receipts, Receipt(q, x)
  PROVE  /\ effect' \in [Request -> Effects]
         /\ \A g \in Request : effect'[g].by = effect[g].by
         /\ \A g \in Request \ {call[q].under} : effect'[g] = effect[g]
         /\ call[q].under # None => effect'[call[q].under].receipt = x
<1>1. CASE call[q].under = None
  BY <1>1 DEF Receipt, TypeOK
<1>2. CASE call[q].under # None
  <2> DEFINE g == call[q].under
  <2>1. g \in Request /\ effect[g] \in Effects
    BY <1>2 DEF TypeOK, Calls
  <2>2. effect' = [effect EXCEPT ![g] = [effect[g] EXCEPT !.receipt = x]]
    BY <1>2 DEF Receipt
  <2> HIDE DEF g
  <2>3. [effect[g] EXCEPT !.receipt = x] \in Effects
    BY <2>1 DEF Effects
  <2>4. /\ effect' \in [Request -> Effects] /\ effect'[g].receipt = x
        /\ effect'[g].by = effect[g].by
        /\ \A h \in Request \ {g} : effect'[h] = effect[h]
    BY <2>1, <2>2, <2>3 DEF TypeOK, Effects
  <2> QED
    BY <1>2, <2>4 DEF g
<1> QED
  BY <1>1, <1>2

\* A request for approval is made.
LEMMA CreateFacts ==
  ASSUME TypeOK, NEW q \in Request, CreateRequest(q)
  PROVE  /\ approval' \in [Request -> Approvals]
         /\ approval'[q].asked = TRUE
         /\ approval'[q].granted = approval[q].granted
         /\ approval'[q].bound = approval[q].bound
         /\ approval'[q].withdrawn = approval[q].withdrawn
         /\ Refused(q)' = Refused(q)
         /\ \A g \in Request \ {q} : approval'[g] = approval[g]
<1> DEFINE p == [approval[q] EXCEPT !.asked = TRUE, !.origin = call[q].by,
                                    !.version = call[q].state]
<1>1. approval[q] \in Approvals /\ call[q].by \in Attempts /\ call[q].state \in Policies
  BY DEF TypeOK, Calls
<1>2. approval' = [approval EXCEPT ![q] = p]
  BY DEF CreateRequest
<1>3. /\ p \in Approvals /\ p.asked = TRUE /\ p.granted = approval[q].granted
      /\ p.bound = approval[q].bound /\ p.withdrawn = approval[q].withdrawn
      /\ p.denied = approval[q].denied /\ p.revoked = approval[q].revoked
      /\ p.expired = approval[q].expired
  BY <1>1 DEF Approvals
<1> HIDE DEF p
<1> QED
  BY <1>1, <1>2, <1>3 DEF TypeOK, Refused

\* A grant is bound to an attempt.
LEMMA BoundFacts ==
  ASSUME TypeOK, NEW g \in Request, NEW a \in Attempts,
         approval' = [approval EXCEPT ![g].bound = a]
  PROVE  /\ approval' \in [Request -> Approvals]
         /\ approval'[g].asked = approval[g].asked
         /\ approval'[g].granted = approval[g].granted
         /\ approval'[g].version = approval[g].version
         /\ approval'[g].bound = a
         /\ approval'[g].withdrawn = approval[g].withdrawn
         /\ Refused(g)' = Refused(g)
         /\ \A h \in Request \ {g} : approval'[h] = approval[h]
<1> DEFINE p == [approval[g] EXCEPT !.bound = a]
<1>1. approval[g] \in Approvals
  BY DEF TypeOK
<1>2. approval' = [approval EXCEPT ![g] = p]
  OBVIOUS
<1>3. /\ p \in Approvals /\ p.asked = approval[g].asked /\ p.granted = approval[g].granted
      /\ p.version = approval[g].version
      /\ p.bound = a /\ p.withdrawn = approval[g].withdrawn
      /\ p.denied = approval[g].denied /\ p.revoked = approval[g].revoked
      /\ p.expired = approval[g].expired
  BY <1>1 DEF Approvals
<1> HIDE DEF p
<1> QED
  BY <1>1, <1>2, <1>3 DEF TypeOK, Refused

\* What approvers and time do to one approval g: it keeps its request and its
\* binding; a grant not yet consumed may be given or withdrawn.
Handled(g) ==
  /\ approval' \in [Request -> Approvals]
  /\ approval[g].asked /\ approval'[g].asked = approval[g].asked
  /\ approval[g].granted => approval'[g].granted
  /\ approval'[g].version = approval[g].version
  /\ approval'[g].bound = approval[g].bound
  /\ approval'[g].withdrawn => Refused(g)' \/ approval[g].withdrawn
  /\ Refused(g) => Refused(g)'
  /\ Consumed(g) => (approval[g].granted => approval'[g].withdrawn = approval[g].withdrawn)
  /\ \A h \in Request \ {g} : approval'[h] = approval[h]

\* approve, deny, revoke and the clock are of that kind.
LEMMA Handling ==
  ASSUME TypeOK, NEW g \in Request, Approve(g) \/ Deny(g) \/ Revoke(g) \/ TimePasses(g),
         Granted(g)
  PROVE  Handled(g)
<1>1. approval[g] \in Approvals
  BY DEF TypeOK
<1>2. ASSUME Approve(g) PROVE Handled(g)
  <2> DEFINE e == approval[g].due
             v == ~approval[g].due /\ policy # approval[g].version
             y == ~approval[g].due /\ policy = approval[g].version
             p == [approval[g] EXCEPT !.expired = e, !.revoked = v, !.granted = y]
  <2>1. approval' = [approval EXCEPT ![g] = p]
    BY <1>2 DEF Approve
  <2>2. e \in BOOLEAN /\ v \in BOOLEAN /\ y \in BOOLEAN
    BY <1>1 DEF Approvals
  <2>3. approval[g].asked /\ ~Refused(g) /\ ~approval[g].granted
    BY <1>2 DEF Approve
  <2> HIDE DEF e, v, y
  <2>4. /\ p \in Approvals /\ p.asked = approval[g].asked /\ p.version = approval[g].version
        /\ p.bound = approval[g].bound /\ p.withdrawn = approval[g].withdrawn
    BY <1>1, <2>2 DEF Approvals
  <2> HIDE DEF p
  <2> QED
    BY <1>1, <2>1, <2>3, <2>4 DEF Handled, TypeOK
<1>3. ASSUME Deny(g) PROVE Handled(g)
  <2> DEFINE p == [approval[g] EXCEPT !.denied = TRUE, !.withdrawn = TRUE]
  <2>1. approval' = [approval EXCEPT ![g] = p]
    BY <1>3 DEF Deny
  <2>2. approval[g].asked /\ ~approval[g].granted
    BY <1>3 DEF Deny
  <2>3. /\ p \in Approvals /\ p.asked = approval[g].asked /\ p.version = approval[g].version
        /\ p.bound = approval[g].bound /\ p.granted = approval[g].granted /\ p.denied
    BY <1>1 DEF Approvals
  <2> HIDE DEF p
  <2> QED
    BY <1>1, <2>1, <2>2, <2>3 DEF Handled, TypeOK, Refused
<1>4. ASSUME Revoke(g) PROVE Handled(g)
  <2> DEFINE p == [approval[g] EXCEPT !.revoked = TRUE, !.withdrawn = TRUE]
  <2>1. approval' = [approval EXCEPT ![g] = p]
    BY <1>4 DEF Revoke
  <2>2. approval[g].asked /\ ~Consumed(g)
    BY <1>4 DEF Revoke, Granted
  <2>3. /\ p \in Approvals /\ p.asked = approval[g].asked /\ p.version = approval[g].version
        /\ p.bound = approval[g].bound /\ p.granted = approval[g].granted /\ p.revoked
    BY <1>1 DEF Approvals
  <2> HIDE DEF p
  <2> QED
    BY <1>1, <2>1, <2>2, <2>3 DEF Handled, TypeOK, Refused
<1>5. ASSUME TimePasses(g) PROVE Handled(g)
  <2> DEFINE p == [approval[g] EXCEPT !.due = TRUE]
  <2>1. approval' = [approval EXCEPT ![g] = p]
    BY <1>5 DEF TimePasses
  <2>2. approval[g].asked
    BY <1>5 DEF TimePasses
  <2>3. /\ p \in Approvals /\ p.asked = approval[g].asked /\ p.version = approval[g].version
        /\ p.bound = approval[g].bound /\ p.granted = approval[g].granted
        /\ p.withdrawn = approval[g].withdrawn /\ p.denied = approval[g].denied
        /\ p.revoked = approval[g].revoked /\ p.expired = approval[g].expired
    BY <1>1 DEF Approvals
  <2> HIDE DEF p
  <2> QED
    BY <1>1, <2>1, <2>2, <2>3 DEF Handled, TypeOK, Refused
<1> QED
  BY <1>2, <1>3, <1>4, <1>5

\* The types of the four records give back the type of the state.
LEMMA Assembled ==
  ASSUME TypeOK, UNCHANGED world,
         approval' \in [Request -> Approvals], effect' \in [Request -> Effects],
         tool' \in [Request -> Tools], call' \in [Request -> Calls],
         ran' \in [Request -> {"no", "running", "stopped"}]
  PROVE  TypeOK'
BY DEF TypeOK, world

\* Every step keeps the types; the invariant says which calls have an approval.
LEMMA TypeStep == Inv /\ [Next]_vars => TypeOK'
<1> SUFFICES ASSUME Inv, [Next]_vars PROVE TypeOK'
  OBVIOUS
<1> USE DEF Inv
<1>s. /\ {"idle", "record", "ask", "recheck", "start", "bind", "bind_commit", "consume",
          "consume_commit", "approved_start", "authorize", "launch", "wait", "receipt",
          "end"} \subseteq Steps
      /\ {"completed", "cancelled", "failed", "unknown"} \subseteq Terminals
      /\ {"applied", "not_applied"} \subseteq Receipts
  BY DEF Steps, Terminals, Receipts
<1>o. /\ approval \in [Request -> Approvals] /\ effect \in [Request -> Effects]
      /\ tool \in [Request -> Tools] /\ call \in [Request -> Calls]
      /\ ran \in [Request -> {"no", "running", "stopped"}]
  BY DEF TypeOK
<1>g. \A q \in Request : call[q].step \in Bound \cup {"bind"} => call[q].under \in Request
  BY DEF Kept, Decided, TypeOK, Calls
<1>m. ASSUME NEW q \in Request, call[q].step \in Bound \cup {"bind"},
             \/ UNCHANGED approval \/ RecordExpired(call[q].under)
             \/ RecordOutdated(call[q].under)
      PROVE  approval' \in [Request -> Approvals]
  BY <1>g, <1>m, Marking DEF OnlyMarked
<1>1. ASSUME NEW q \in Request, NEW a \in 1 .. attempt, NEW g \in Request \cup {None},
             Enter(q, a, g)
      PROVE  TypeOK'
  <2> DEFINE c == [step |-> "record", by |-> a, state |-> policy, under |-> g, terminal |-> None]
  <2>1. a \in Attempts
    BY ToolAssumption DEF TypeOK, Attempts
  <2>2. c \in Calls
    BY <1>s, <2>1 DEF TypeOK, Calls
  <2>3. call' = [call EXCEPT ![q] = c]
    BY <1>1 DEF Enter
  <2> HIDE DEF c
  <2>4. call' \in [Request -> Calls]
    BY <1>o, <2>2, <2>3
  <2> QED
    BY <1>1, <1>o, <2>4, Assembled DEF Enter
<1>2. ASSUME NEW q \in Request, RecordRequest(q) PROVE TypeOK'
  <2>1. Decision(call[q].state) \in Decisions
    BY DEF Decision, Decisions, TypeOK
  <2>2. tool' \in [Request -> Tools]
    BY <1>2, <1>o, <2>1, DecisionFacts DEF RecordRequest
  <2>3. Leave(q) \/ Goto(q, "ask") \/ Goto(q, "recheck")
    BY <1>2 DEF RecordRequest
  <2>4. call' \in [Request -> Calls]
    BY <1>s, <2>3, LeaveFacts, GotoFacts
  <2> QED
    BY <1>2, <1>o, <2>2, <2>4, Assembled DEF RecordRequest
<1>3. ASSUME NEW q \in Request, Ask(q) PROVE TypeOK'
  <2>1. approval' \in [Request -> Approvals]
    BY <1>3, <1>o, CreateFacts DEF Ask
  <2>2. Leave(q) /\ UNCHANGED <<world, effect, ran, tool>>
    BY <1>3 DEF Ask, BlockAndLeave
  <2>3. call' \in [Request -> Calls]
    BY <2>2, LeaveFacts
  <2> QED
    BY <1>o, <2>1, <2>2, <2>3, Assembled
<1>4. ASSUME NEW q \in Request, Recheck(q) PROVE TypeOK'
  <2>1. Leave(q) \/ Goto(q, "start") \/ Goto(q, "bind")
    BY <1>4 DEF Recheck, BlockAndLeave
  <2>2. call' \in [Request -> Calls]
    BY <1>s, <2>1, LeaveFacts, GotoFacts
  <2>3. UNCHANGED <<world, approval, effect, tool, ran>>
    BY <1>4 DEF Recheck, BlockAndLeave
  <2> QED
    BY <1>o, <2>2, <2>3, Assembled
<1>5. ASSUME NEW q \in Request, Start(q) \/ ApprovedStart(q) PROVE TypeOK'
  <2>1. /\ (Leave(q) /\ UNCHANGED tool) \/ Started(q)
        /\ UNCHANGED <<world, approval, effect, ran>>
    BY <1>5 DEF Start, ApprovedStart, BlockAndLeave
  <2>2. call' \in [Request -> Calls]
    BY <1>s, <2>1, LeaveFacts, GotoFacts DEF Started
  <2>3. tool' \in [Request -> Tools]
    BY <1>o, <2>1, StartedFacts
  <2> QED
    BY <1>o, <2>1, <2>2, <2>3, Assembled
<1>6. ASSUME NEW q \in Request, Bind(q) PROVE TypeOK'
  <2>1. Leave(q) \/ Goto(q, "bind_commit")
    BY <1>6 DEF Bind, BlockAndLeave
  <2>2. call' \in [Request -> Calls]
    BY <1>s, <2>1, LeaveFacts, GotoFacts
  <2>3. /\ call[q].step = "bind"
        /\ UNCHANGED approval \/ RecordExpired(call[q].under) \/ RecordOutdated(call[q].under)
    BY <1>6 DEF Bind
  <2>4. UNCHANGED <<world, effect, tool, ran>>
    BY <1>6 DEF Bind, BlockAndLeave
  <2>5. approval' \in [Request -> Approvals]
    BY <1>m, <2>3
  <2> QED
    BY <1>o, <2>2, <2>4, <2>5, Assembled
<1>7. ASSUME NEW q \in Request, BindCommit(q) PROVE TypeOK'
  <2>1. Leave(q) \/ Goto(q, "consume")
    BY <1>7 DEF BindCommit, BlockAndLeave
  <2>2. call' \in [Request -> Calls]
    BY <1>s, <2>1, LeaveFacts, GotoFacts
  <2>3. /\ call[q].step = "bind_commit"
        /\ \/ UNCHANGED approval \/ RecordExpired(call[q].under)
           \/ RecordOutdated(call[q].under)
           \/ approval' = [approval EXCEPT ![call[q].under].bound = call[q].by]
    BY <1>7 DEF BindCommit
  <2>4. UNCHANGED <<world, effect, tool, ran>>
    BY <1>7 DEF BindCommit, BlockAndLeave
  <2>5. call[q].under \in Request /\ call[q].by \in Attempts
    BY <1>g, <2>3 DEF Bound, TypeOK, Calls
  <2>6. approval' \in [Request -> Approvals]
    BY <1>m, <2>3, <2>5, BoundFacts DEF Bound
  <2> QED
    BY <1>o, <2>2, <2>4, <2>6, Assembled
<1>8. ASSUME NEW q \in Request, Consume(q) PROVE TypeOK'
  <2>1. Leave(q) \/ Goto(q, "consume_commit")
    BY <1>8 DEF Consume, BlockAndLeave
  <2>2. call' \in [Request -> Calls]
    BY <1>s, <2>1, LeaveFacts, GotoFacts
  <2>3. /\ call[q].step = "consume"
        /\ UNCHANGED approval \/ RecordExpired(call[q].under) \/ RecordOutdated(call[q].under)
    BY <1>8 DEF Consume
  <2>4. UNCHANGED <<world, effect, tool, ran>>
    BY <1>8 DEF Consume, BlockAndLeave
  <2>5. approval' \in [Request -> Approvals]
    BY <1>m, <2>3 DEF Bound
  <2> QED
    BY <1>o, <2>2, <2>4, <2>5, Assembled
<1>9. ASSUME NEW q \in Request, ConsumeCommit(q) PROVE TypeOK'
  <2>1. /\ call[q].step = "consume_commit" /\ UNCHANGED <<world, tool, ran>>
        /\ \/ Intended(q)
           \/ /\ Leave(q) /\ UNCHANGED effect
              /\ \/ UNCHANGED approval \/ RecordExpired(call[q].under)
                 \/ RecordOutdated(call[q].under)
    BY <1>9 DEF ConsumeCommit, BlockAndLeave, Intended
  <2>2. call' \in [Request -> Calls]
    BY <1>s, <2>1, LeaveFacts, GotoFacts DEF Intended
  <2>3. approval' \in [Request -> Approvals]
    BY <1>m, <1>o, <2>1 DEF Bound, Intended
  <2>4. call[q].under \in Request
    BY <1>g, <2>1 DEF Bound
  <2>5. effect' \in [Request -> Effects]
    BY <1>o, <2>1, <2>4, IntendedFacts DEF Intended
  <2> QED
    BY <1>o, <2>1, <2>2, <2>3, <2>5, Assembled
<1>10. ASSUME NEW q \in Request, Authorize(q) PROVE TypeOK'
  <2>1. /\ \/ Goto(q, "launch") /\ UNCHANGED effect
           \/ Receipt(q, "not_applied") /\ EndWith(q, "end", "cancelled")
        /\ UNCHANGED <<world, approval, tool, ran>>
    BY <1>10 DEF Authorize
  <2>2. call' \in [Request -> Calls]
    BY <1>s, <2>1, GotoFacts, EndFacts
  <2>3. effect' \in [Request -> Effects]
    BY <1>s, <1>o, <2>1, ReceiptFacts
  <2> QED
    BY <1>o, <2>1, <2>2, <2>3, Assembled
<1>11. ASSUME NEW q \in Request, Launch(q) PROVE TypeOK'
  <2>1. /\ Goto(q, "wait") \/ EndWith(q, "end", "failed") \/ EndWith(q, "end", "unknown")
        /\ UNCHANGED <<world, approval, effect, tool>>
        /\ \/ ran' = [ran EXCEPT ![q] = "running"] \/ ran' = ran
           \/ ran' = [ran EXCEPT ![q] = "stopped"]
    BY <1>11 DEF Launch
  <2>2. call' \in [Request -> Calls]
    BY <1>s, <2>1, GotoFacts, EndFacts
  <2>3. ran' \in [Request -> {"no", "running", "stopped"}]
    BY <1>o, <2>1
  <2> QED
    BY <1>o, <2>1, <2>2, <2>3, Assembled
<1>12. ASSUME NEW q \in Request, ProcessStops(q) PROVE TypeOK'
  BY <1>12, <1>o, Assembled DEF ProcessStops
<1>13. ASSUME NEW q \in Request, Wait(q) \/ RecordReceipt(q) PROVE TypeOK'
  <2>1. /\ \/ Goto(q, "end")
           \/ \E s \in Steps, x \in Terminals : EndWith(q, s, x)
        /\ \/ UNCHANGED effect \/ Receipt(q, "applied")
        /\ UNCHANGED <<world, approval, tool, ran>>
    BY <1>13, <1>s DEF Wait, RecordReceipt
  <2>2. call' \in [Request -> Calls]
    BY <1>s, <2>1, GotoFacts, EndFacts
  <2>3. effect' \in [Request -> Effects]
    BY <1>s, <1>o, <2>1, ReceiptFacts
  <2> QED
    BY <1>o, <2>1, <2>2, <2>3, Assembled
<1>14. ASSUME NEW q \in Request, End(q) PROVE TypeOK'
  <2> DEFINE x == IF tool[q].terminal = None THEN call[q].terminal ELSE tool[q].terminal
  <2>1. /\ tool' = [tool EXCEPT ![q].terminal = x] /\ Leave(q)
        /\ UNCHANGED <<world, approval, effect, ran>>
    BY <1>14 DEF End
  <2>2. x \in Terminals \cup {None}
    BY DEF TypeOK, Tools, Calls
  <2> HIDE DEF x
  <2>3. tool' \in [Request -> Tools] /\ call' \in [Request -> Calls]
    BY <2>1, <2>2, TerminalFacts, LeaveFacts
  <2> QED
    BY <1>o, <2>1, <2>3, Assembled
<1>15. ASSUME NEW q \in Request, Crash(q) PROVE TypeOK'
  BY <1>15, <1>o, LeaveFacts, Assembled DEF Crash
<1>16. ASSUME NEW g \in Request, Approve(g) \/ Deny(g) \/ Revoke(g) \/ TimePasses(g)
       PROVE  TypeOK'
  <2>1. approval' \in [Request -> Approvals]
    BY <1>16, Handling DEF Handled, Kept
  <2>2. UNCHANGED <<world, effect, tool, call, ran>>
    BY <1>16 DEF Approve, Deny, Revoke, TimePasses
  <2> QED
    BY <1>o, <2>1, <2>2, Assembled
<1>17. CASE ChangePolicy \/ LoseAttempt \/ AcceptAttempt
  <2>1. policy \in Policies /\ attempt \in Attempts /\ live \in BOOLEAN
        /\ rule \in {"allow", "needs_approval"}
    BY DEF TypeOK
  <2>2. policy' \in Policies /\ attempt' \in Attempts /\ live' \in BOOLEAN
    <3>1. CASE ChangePolicy
      <4>1. policy < MaxPolicy /\ policy' = policy + 1
        BY <3>1 DEF ChangePolicy
      <4>2. policy' \in Policies
        BY <2>1, <4>1, ToolAssumption DEF Policies
      <4> QED
        BY <2>1, <3>1, <4>2 DEF ChangePolicy
    <3>2. CASE LoseAttempt
      BY <2>1, <3>2 DEF LoseAttempt
    <3>3. CASE AcceptAttempt
      <4>1. attempt < MaxAttempt /\ attempt' = attempt + 1
        BY <3>3 DEF AcceptAttempt
      <4>2. attempt' \in Attempts
        BY <2>1, <4>1, ToolAssumption DEF Attempts
      <4> QED
        BY <2>1, <3>3, <4>2 DEF AcceptAttempt
    <3> QED
      BY <1>17, <3>1, <3>2, <3>3
  <2>3. UNCHANGED <<rule, approval, effect, tool, call, ran>>
    BY <1>17 DEF ChangePolicy, LoseAttempt, AcceptAttempt
  <2> QED
    BY <1>o, <2>1, <2>2, <2>3 DEF TypeOK
<1>18. CASE UNCHANGED vars
  BY <1>18 DEF vars, TypeOK
<1> QED
  BY <1>1, <1>2, <1>3, <1>4, <1>5, <1>6, <1>7, <1>8, <1>9, <1>10, <1>11, <1>12, <1>13,
     <1>14, <1>15, <1>16, <1>17, <1>18 DEF Next

-----------------------------------------------------------------------------
\* How a step keeps the invariant.

\* A grant once given keeps its version, and once consumed its attempt.
Grows(g) ==
  /\ approval[g].granted => approval'[g].granted /\ approval'[g].version = approval[g].version
  /\ Consumed(g) => effect'[g].by = effect[g].by /\ approval'[g].bound = approval[g].bound

\* Nothing of request k is touched.
Untouched(k) ==
  call'[k] = call[k] /\ tool'[k] = tool[k] /\ ran'[k] = ran[k]

\* What the grants of all requests keep in a step.
Grants ==
  /\ rule' = rule
  /\ \A g \in Request : Grows(g) /\ Granted(g)'

\* A request that nobody touches keeps what its call relies on.
LEMMA FrameCall ==
  ASSUME Inv, NEW k \in Request, Untouched(k), Grants,
         approval'[k].asked = approval[k].asked
  PROVE  Recorded(k)' /\ Placed(k)' /\ Decided(k)'
<1>1. call[k] \in Calls /\ Recorded(k) /\ Placed(k) /\ Decided(k)
  BY DEF Inv, TypeOK, Kept
<1>2. Recorded(k)'
  BY <1>1 DEF Recorded, Untouched, Told
<1>3. Placed(k)'
  BY <1>1 DEF Placed, Untouched, Told
<1>4. Decided(k)'
  <2>1. \A s : Decision(s)' = Decision(s)
    BY DEF Decision, Grants
  <2>2. call[k].step \in Bound => call[k].under \in Request
    BY <1>1 DEF Decided, Calls
  <2>3. call[k].step \in Bound =>
          approval'[call[k].under].granted /\ approval'[call[k].under].version = call[k].state
    BY <1>1, <2>2 DEF Decided, Grants, Grows
  <2>4. call[k].step = "approved_start" => Consumed(call[k].under)
    BY <1>1, ToolAssumption DEF Decided, Consumed, Calls
  <2>5. call[k].step = "approved_start" =>
          effect'[call[k].under].by = call[k].by /\ approval'[call[k].under].bound = call[k].by
    BY <1>1, <2>2, <2>4 DEF Decided, Grants, Grows, Bound
  <2> QED
    BY <1>1, <2>1, <2>3, <2>5 DEF Decided, Untouched
<1> QED
  BY <1>2, <1>3, <1>4

\* A request q takes a step: what is to be shown of it, so that all is kept.
Turn(q) ==
  /\ \A k \in Request \ {q} :
       Untouched(k) /\ approval'[k].asked = approval[k].asked
  /\ Grants
  /\ Recorded(q)' /\ Placed(q)' /\ Decided(q)'
  /\ \A g \in Request :
       /\ Holds(q, g)' => Owned(q, g)' /\ (Holds(q, g) \/ ~Consumed(g))
       /\ effect'[g].receipt = effect[g].receipt \/ Holds(q, g)

\* What is shown of the request that moves is enough: nobody else loses a
\* grant, and nobody else comes to hold the one it takes.
LEMMA Frame ==
  ASSUME Inv, TypeOK', NEW q \in Request, Turn(q)
  PROVE  Kept'
<1>1. \A k \in Request : Recorded(k)' /\ Placed(k)' /\ Decided(k)'
  <2>1. ASSUME NEW k \in Request PROVE Recorded(k)' /\ Placed(k)' /\ Decided(k)'
    <3>1. CASE k = q
      BY <3>1 DEF Turn
    <3>2. CASE k # q
      <4>1. Untouched(k) /\ Grants /\ approval'[k].asked = approval[k].asked
        BY <3>2 DEF Turn
      <4> QED
        BY <4>1, FrameCall
    <3> QED
      BY <3>1, <3>2
  <2> QED
    BY <2>1
<1>2. \A k \in Request \ {q} : \A g \in Request : Holds(k, g)' = Holds(k, g)
  BY DEF Turn, Untouched, Holds
<1>3. \A k, g \in Request : Sole(k, g)
  BY DEF Inv, Kept
<1>4. ASSUME NEW k \in Request \ {q}, NEW g \in Request, Holds(k, g)
      PROVE  Owned(k, g)' /\ ~Holds(q, g)'
  <2>1. Owned(k, g) /\ ~Holds(q, g)
    BY <1>3, <1>4 DEF Sole
  <2>2. ~Holds(q, g)'
    BY <2>1 DEF Turn, Owned
  <2>3. effect'[g].receipt = effect[g].receipt
    BY <2>1 DEF Turn
  <2>4. effect'[g].by = effect[g].by /\ approval'[g].bound = approval[g].bound
    BY <2>1 DEF Turn, Grants, Grows, Owned
  <2>5. Untouched(k)
    BY DEF Turn
  <2> QED
    BY <2>1, <2>2, <2>3, <2>4, <2>5 DEF Owned, Untouched, Consumed
<1>5. \A k, g \in Request : Sole(k, g)'
  <2>1. ASSUME NEW k \in Request, NEW g \in Request, Holds(k, g)'
        PROVE  Owned(k, g)' /\ \A r \in Request : Holds(r, g)' => r = k
    <3>1. CASE k = q
      BY <3>1, <2>1, <1>2, <1>4 DEF Turn
    <3>2. CASE k # q
      <4>1. Holds(k, g)
        BY <3>2, <2>1, <1>2
      <4>2. \A r \in Request : Holds(r, g) => r = k
        BY <4>1, <1>3 DEF Sole
      <4> QED
        BY <3>2, <4>1, <4>2, <1>2, <1>4
    <3> QED
      BY <3>1, <3>2
  <2> QED
    BY <2>1 DEF Sole
<1>6. \A g \in Request : Granted(g)'
  BY DEF Turn, Grants
<1> QED
  BY <1>1, <1>5, <1>6 DEF Kept

\* Marking a grant takes nothing from it.
LEMMA MarkedGrants ==
  ASSUME Inv, OnlyMarked, UNCHANGED <<effect, rule>>
  PROVE  Grants /\ \A k \in Request : approval'[k].asked = approval[k].asked
<1>1. ASSUME NEW g \in Request PROVE Grows(g) /\ Granted(g)'
  <2>1. Granted(g)
    BY DEF Inv, Kept
  <2>2. Consumed(g)' = Consumed(g)
    BY DEF Consumed
  <2> QED
    BY <2>1, <2>2 DEF Grows, Granted, OnlyMarked
<1> QED
  BY <1>1 DEF Grants, OnlyMarked

\* A call takes a step that neither starts a command nor reserves a grant nor
\* touches a command that was started.
Aside(q) ==
  /\ \A k \in Request \ {q} : Untouched(k)
  /\ OnlyMarked /\ UNCHANGED <<effect, rule>>
  /\ tool'[q].start = tool[q].start /\ ran'[q] = ran[q]
  /\ call'[q].step \notin Owing \cup {"approved_start"}
  /\ Recorded(q)' /\ Placed(q)' /\ Decided(q)'

\* Such a step keeps the invariant.
LEMMA AsideKeeps ==
  ASSUME Inv, TypeOK', NEW q \in Request, Aside(q)
  PROVE  Kept'
<1>1. Grants /\ \A k \in Request : approval'[k].asked = approval[k].asked
  BY MarkedGrants DEF Aside
<1>2. ASSUME NEW g \in Request, Holds(q, g)' PROVE Holds(q, g) /\ Owned(q, g)'
  <2>1. tool[q].start # None /\ tool[q].start.under = g
    BY <1>2 DEF Holds, Aside
  <2>2. Holds(q, g)
    BY <2>1 DEF Holds
  <2>3. Owned(q, g)
    BY <2>2 DEF Inv, Kept, Sole
  <2> QED
    BY <2>2, <2>3 DEF Owned, Aside, Consumed, OnlyMarked
<1>3. \A g \in Request : effect'[g] = effect[g]
  BY DEF Aside
<1>4. Turn(q)
  BY <1>1, <1>2, <1>3 DEF Turn, Aside
<1> QED
  BY <1>4, Frame

\* A call ends: it was refused, failed, or its process died.
LEMMA LeaveKeeps ==
  ASSUME Inv, TypeOK', NEW q \in Request, Leave(q), OnlyMarked,
         UNCHANGED <<effect, rule, tool, ran>>
  PROVE  Kept'
<1>1. call'[q].step = "idle" /\ \A k \in Request \ {q} : call'[k] = call[k]
  BY LeaveFacts DEF Inv
<1>2. Recorded(q)'
  BY DEF Inv, Kept, Recorded, Told, OnlyMarked
<1>3. Placed(q)' /\ Decided(q)'
  BY <1>1 DEF Placed, Decided, PreStart, Began, Owing, Bound
<1>4. Aside(q)
  BY <1>1, <1>2, <1>3 DEF Aside, Untouched, Owing
<1> QED
  BY <1>4, AsideKeeps

\* A call that goes from step to step before its command starts.
LEMMA StepKeeps ==
  ASSUME Inv, TypeOK', NEW q \in Request, NEW s \in PreStart \ {"ask", "approved_start"},
         Goto(q, s), UNCHANGED <<effect, rule, tool, ran, approval>>,
         call[q].step \in PreStart, Decided(q)'
  PROVE  Kept'
<1>1. /\ call'[q].step = s /\ \A k \in Request \ {q} : call'[k] = call[k]
  BY GotoFacts DEF Inv, PreStart, Steps
<1>2. OnlyMarked
  BY Marking DEF Inv
<1>3. Recorded(q) /\ Placed(q)
  BY DEF Inv, Kept
<1>4. Recorded(q)'
  BY <1>3 DEF Recorded, Told
<1>5. Placed(q)'
  BY <1>1, <1>3 DEF Placed, PreStart, Began, Owing
<1>6. Aside(q)
  BY <1>1, <1>2, <1>4, <1>5 DEF Aside, Untouched, Owing, PreStart
<1> QED
  BY <1>6, AsideKeeps

-----------------------------------------------------------------------------
\* The actions of a call, up to the start of its command.

\* A call comes in, for a new request or for one executed before.
LEMMA EnterKeeps ==
  ASSUME Inv, TypeOK', NEW q \in Request, NEW a \in 1 .. attempt,
         NEW g \in Request \cup {None}, Enter(q, a, g)
  PROVE  Kept'
<1>1. /\ call'[q].step = "record" /\ \A k \in Request \ {q} : call'[k] = call[k]
      /\ UNCHANGED <<effect, rule, tool, ran, approval>>
  BY DEF Enter, Inv, TypeOK, world
<1>2. OnlyMarked
  BY <1>1, Marking DEF Inv
<1>3. Recorded(q)'
  BY <1>1 DEF Inv, Kept, Recorded, Told
<1>4. Placed(q)' /\ Decided(q)'
  BY <1>1 DEF Placed, Decided, PreStart, Began, Owing, Bound
<1>5. Aside(q)
  BY <1>1, <1>2, <1>3, <1>4 DEF Aside, Untouched, Owing
<1> QED
  BY <1>5, AsideKeeps

\* The decision is recorded once; the call goes on only if it allows that.
LEMMA RecordRequestKeeps ==
  ASSUME Inv, TypeOK', NEW q \in Request, RecordRequest(q)
  PROVE  Kept'
<1> DEFINE d == Decision(call[q].state)
<1>1. UNCHANGED <<world, approval, effect, ran, rule>> /\ OnlyMarked
  BY Marking DEF RecordRequest, world, Inv
<1>2. CASE Leave(q) /\ UNCHANGED tool
  BY <1>1, <1>2, LeaveKeeps
<1>3. CASE tool[q].decision = None /\ tool' = [tool EXCEPT ![q].decision = d]
  <2>1. d \in Decisions /\ d # None
    BY ToolAssumption DEF Decision, Decisions, Inv, TypeOK
  <2>2. /\ tool'[q].decision = d /\ tool'[q].start = tool[q].start
        /\ tool'[q].terminal = tool[q].terminal
        /\ \A k \in Request \ {q} : tool'[k] = tool[k]
    BY <1>3, <2>1, DecisionFacts DEF Inv
  <2>3. Recorded(q) /\ tool[q].start = None /\ tool[q].terminal = None /\ ~approval[q].asked
    BY <1>3 DEF Inv, Kept, Recorded
  <2>4. /\ call'[q].step \in {"idle", "ask", "recheck"}
        /\ call'[q].step = "recheck" =>
             /\ call'[q].state = call[q].state /\ call'[q].under = call[q].under
             /\ d = IF call[q].under = None THEN "allow" ELSE "needs_approval"
        /\ \A k \in Request \ {q} : call'[k] = call[k]
    <3>1. CASE Leave(q)
      BY <3>1, LeaveFacts DEF Inv
    <3>2. CASE Goto(q, "ask")
      BY <3>2, GotoFacts DEF Inv, Steps
    <3>3. CASE Goto(q, "recheck") /\ ~(d = "deny" \/ (d = "allow" /\ call[q].under # None))
               /\ ~(d = "needs_approval" /\ call[q].under = None)
      BY <2>1, <3>3, GotoFacts DEF Inv, Steps, Decisions
    <3> QED
      BY <1>3, <3>1, <3>2, <3>3 DEF RecordRequest
  <2> HIDE DEF d
  <2>5. Recorded(q)'
    BY <1>1, <2>1, <2>2, <2>3 DEF Recorded, Told
  <2>6. Placed(q)'
    BY <1>1, <2>1, <2>2, <2>3, <2>4 DEF Placed, PreStart, Began, Owing
  <2>7. Decided(q)'
    BY <1>1, <2>4 DEF Decided, PreStart, Bound, Decision, d
  <2>8. Aside(q)
    BY <1>1, <2>2, <2>4, <2>5, <2>6, <2>7 DEF Aside, Untouched, Owing
  <2> QED
    BY <2>8, AsideKeeps
<1> QED
  BY <1>2, <1>3 DEF RecordRequest

\* The approval request of a call: it was not asked for before.
LEMMA AskKeeps ==
  ASSUME Inv, TypeOK', NEW q \in Request, Ask(q)
  PROVE  Kept'
<1>1. /\ UNCHANGED <<rule, effect, tool, ran>> /\ Leave(q)
      /\ (call[q].step = "ask" /\ CreateRequest(q)) \/ UNCHANGED approval
  BY DEF Ask, BlockAndLeave, world
<1>2. CASE UNCHANGED approval
  BY <1>1, <1>2, LeaveKeeps, Marking DEF Inv
<1>3. CASE call[q].step = "ask" /\ CreateRequest(q)
  <2>1. Recorded(q) /\ Placed(q) /\ Granted(q)
    BY DEF Inv, Kept
  <2>2. ~approval[q].granted /\ ~Consumed(q) /\ tool[q].decision # None
    BY <1>3, <2>1 DEF Placed, Granted, PreStart
  <2>3. /\ approval'[q].granted = approval[q].granted
        /\ approval'[q].withdrawn = approval[q].withdrawn
        /\ Refused(q)' = Refused(q)
        /\ \A g \in Request : approval'[g].bound = approval[g].bound
        /\ \A g \in Request \ {q} : approval'[g] = approval[g]
    BY <1>3, CreateFacts DEF Inv
  <2>4. ASSUME NEW g \in Request PROVE Grows(g) /\ Granted(g)'
    <3>1. Granted(g) /\ Consumed(g)' = Consumed(g) /\ effect'[g] = effect[g]
      BY <1>1 DEF Inv, Kept, Consumed
    <3>2. CASE g = q
      BY <1>1, <2>2, <2>3, <3>1, <3>2 DEF Grows, Granted
    <3>3. CASE g # q
      <4>1. approval'[g] = approval[g]
        BY <2>3, <3>3
      <4>2. Refused(g)' = Refused(g)
        BY <4>1 DEF Refused
      <4> QED
        BY <3>1, <4>1, <4>2 DEF Grows, Granted
    <3> QED
      BY <3>2, <3>3
  <2>5. call'[q].step = "idle" /\ \A k \in Request \ {q} : call'[k] = call[k]
    BY <1>1, LeaveFacts DEF Inv
  <2>6. Recorded(q)'
    BY <1>1, <2>1, <2>2 DEF Recorded, Told
  <2>7. Placed(q)' /\ Decided(q)'
    BY <2>5 DEF Placed, Decided, PreStart, Began, Owing, Bound
  <2>8. ASSUME NEW g \in Request, Holds(q, g)' PROVE Owned(q, g)' /\ Holds(q, g)
    <3>1. Holds(q, g)
      BY <1>1, <2>5, <2>8 DEF Holds
    <3>2. Owned(q, g)
      BY <3>1 DEF Inv, Kept, Sole
    <3> QED
      BY <1>1, <2>3, <2>5, <3>1, <3>2 DEF Owned, Consumed, Owing
  <2>9. Turn(q)
    BY <1>1, <2>3, <2>4, <2>5, <2>6, <2>7, <2>8 DEF Turn, Untouched, Grants
  <2> QED
    BY <2>9, Frame
<1> QED
  BY <1>1, <1>2, <1>3

\* The decision a call goes by does not change while it goes on.
LEMMA SameDecision ==
  ASSUME Inv, UNCHANGED rule, NEW q \in Request, NEW s \in Steps, Goto(q, s)
  PROVE  /\ Decision(call[q].state)' = Decision(call[q].state)
         /\ call'[q].step = s /\ call'[q].by = call[q].by /\ call'[q].state = call[q].state
         /\ call'[q].under = call[q].under
         /\ \A k \in Request \ {q} : call'[k] = call[k]
BY GotoFacts DEF Inv, Decision

\* With an approval the call binds it, without one it starts.
LEMMA RecheckKeeps ==
  ASSUME Inv, TypeOK', NEW q \in Request, Recheck(q)
  PROVE  Kept'
<1>1. /\ UNCHANGED <<rule, effect, tool, ran, approval>> /\ call[q].step = "recheck"
      /\ \/ Leave(q)
         \/ Goto(q, "start") /\ call[q].under = None
         \/ Goto(q, "bind") /\ call[q].under # None
  BY DEF Recheck, BlockAndLeave, world
<1>2. CASE Leave(q)
  BY <1>1, <1>2, LeaveKeeps, Marking DEF Inv
<1>3. Decided(q) /\ call[q].step \in PreStart \ {"ask"}
  BY <1>1 DEF Inv, Kept, PreStart
<1>4. ASSUME NEW s \in {"start", "bind"}, Goto(q, s), s = "start" <=> call[q].under = None
      PROVE  Kept'
  <2>1. Decided(q)'
    BY <1>1, <1>3, <1>4, SameDecision DEF Decided, Steps, PreStart, Bound
  <2> QED
    BY <1>1, <1>3, <1>4, <2>1, StepKeeps DEF PreStart
<1> QED
  BY <1>1, <1>2, <1>4

\* What bind_to_attempt checks before its transaction: the grant was given,
\* for the policy version the call decided on.
LEMMA BindKeeps ==
  ASSUME Inv, TypeOK', NEW q \in Request, Bind(q)
  PROVE  Kept'
<1> DEFINE g == call[q].under
<1>1. /\ UNCHANGED <<rule, effect, tool, ran>> /\ call[q].step = "bind"
      /\ \/ /\ Leave(q)
            /\ UNCHANGED approval \/ RecordExpired(g) \/ RecordOutdated(g)
         \/ /\ Goto(q, "bind_commit") /\ UNCHANGED approval
            /\ approval[g].granted /\ approval[g].version = call[q].state
  BY DEF Bind, BlockAndLeave, world
<1>2. Decided(q) /\ g \in Request
  BY <1>1 DEF Inv, Kept, Decided, TypeOK, Calls
<1>3. CASE Leave(q) /\ (UNCHANGED approval \/ RecordExpired(g) \/ RecordOutdated(g))
  BY <1>1, <1>2, <1>3, LeaveKeeps, Marking DEF Inv
<1>4. CASE /\ Goto(q, "bind_commit") /\ UNCHANGED approval
           /\ approval[g].granted /\ approval[g].version = call[q].state
  <2>1. Decided(q)'
    BY <1>1, <1>2, <1>4, SameDecision DEF Decided, Steps, PreStart, Bound
  <2> QED
    BY <1>1, <1>4, <2>1, StepKeeps DEF PreStart
<1> QED
  BY <1>1, <1>3, <1>4

\* What consume_and_intend checks before it reserves.
LEMMA ConsumeKeeps ==
  ASSUME Inv, TypeOK', NEW q \in Request, Consume(q)
  PROVE  Kept'
<1> DEFINE g == call[q].under
<1>1. /\ UNCHANGED <<rule, effect, tool, ran>> /\ call[q].step = "consume"
      /\ \/ /\ Leave(q)
            /\ UNCHANGED approval \/ RecordExpired(g) \/ RecordOutdated(g)
         \/ Goto(q, "consume_commit") /\ UNCHANGED approval
  BY DEF Consume, BlockAndLeave, world
<1>2. Decided(q) /\ g \in Request
  BY <1>1 DEF Inv, Kept, Decided, TypeOK, Calls, Bound
<1>3. CASE Leave(q) /\ (UNCHANGED approval \/ RecordExpired(g) \/ RecordOutdated(g))
  BY <1>1, <1>2, <1>3, LeaveKeeps, Marking DEF Inv
<1>4. CASE Goto(q, "consume_commit") /\ UNCHANGED approval
  <2>1. Decided(q)'
    BY <1>1, <1>2, <1>4, SameDecision DEF Decided, Steps, PreStart, Bound
  <2> QED
    BY <1>1, <1>4, <2>1, StepKeeps DEF PreStart
<1> QED
  BY <1>1, <1>3, <1>4

\* Binding moves a grant only while nobody has consumed it.
LEMMA BindCommitKeeps ==
  ASSUME Inv, TypeOK', NEW q \in Request, BindCommit(q)
  PROVE  Kept'
<1> DEFINE g == call[q].under
<1>1. /\ UNCHANGED <<rule, effect, tool, ran>> /\ call[q].step = "bind_commit"
      /\ \/ /\ Leave(q)
            /\ UNCHANGED approval \/ RecordExpired(g) \/ RecordOutdated(g)
         \/ /\ Goto(q, "consume") /\ ~Consumed(g)
            /\ approval' = [approval EXCEPT ![g].bound = call[q].by]
  BY DEF BindCommit, BlockAndLeave, world
<1>2. Decided(q) /\ g \in Request /\ call[q].by \in Attempts
  BY <1>1 DEF Inv, Kept, Decided, TypeOK, Calls, Bound
<1>3. CASE Leave(q) /\ (UNCHANGED approval \/ RecordExpired(g) \/ RecordOutdated(g))
  BY <1>1, <1>2, <1>3, LeaveKeeps, Marking DEF Inv
<1>4. ASSUME NEW h \in Request, h = g, Goto(q, "consume"), ~Consumed(h),
             approval' = [approval EXCEPT ![h].bound = call[q].by]
      PROVE  Kept'
  <2>0. /\ \A k \in Request \ {h} : approval'[k] = approval[k]
        /\ approval'[h].asked = approval[h].asked
        /\ approval'[h].granted = approval[h].granted
        /\ approval'[h].version = approval[h].version
        /\ approval'[h].withdrawn = approval[h].withdrawn /\ Refused(h)' = Refused(h)
    BY <1>2, <1>4, BoundFacts DEF Inv
  <2>1. ASSUME NEW k \in Request
        PROVE  /\ approval'[k].asked = approval[k].asked
               /\ approval'[k].granted = approval[k].granted
               /\ approval'[k].version = approval[k].version
               /\ approval'[k].withdrawn = approval[k].withdrawn
               /\ Refused(k)' = Refused(k)
               /\ Consumed(k) => approval'[k].bound = approval[k].bound
    BY <1>4, <2>0 DEF Refused
  <2>2. ASSUME NEW k \in Request PROVE Grows(k) /\ Granted(k)'
    <3>1. Granted(k) /\ Consumed(k)' = Consumed(k) /\ effect'[k] = effect[k]
      BY <1>1 DEF Inv, Kept, Consumed
    <3> QED
      BY <2>1, <3>1 DEF Grows, Granted
  <2>3. \A k \in Request : approval'[k].asked = approval[k].asked
    BY <2>1
  <2>4. /\ call'[q].step = "consume" /\ call'[q].state = call[q].state
        /\ call'[q].under = call[q].under /\ Decision(call[q].state)' = Decision(call[q].state)
        /\ \A k \in Request \ {q} : call'[k] = call[k]
    BY <1>1, <1>4, SameDecision DEF Steps
  <2>5. Recorded(q) /\ Placed(q)
    BY DEF Inv, Kept
  <2>6. Recorded(q)'
    BY <1>1, <2>3, <2>5 DEF Recorded, Told
  <2>7. Placed(q)' /\ tool'[q].start = None
    BY <1>1, <2>4, <2>5 DEF Placed, PreStart, Began, Owing
  <2>8. Decided(q)'
    BY <1>1, <1>2, <1>4, <2>1, <2>4 DEF Decided, PreStart, Bound
  <2>9. \A k \in Request : ~Holds(q, k)'
    BY <2>4, <2>7 DEF Holds
  <2>10. Turn(q)
    BY <1>1, <2>2, <2>3, <2>4, <2>6, <2>7, <2>8, <2>9 DEF Turn, Untouched, Grants
  <2> QED
    BY <2>10, Frame
<1> QED
  BY <1>1, <1>2, <1>3, <1>4

\* The reservation: the grant was given, not withdrawn, and nobody's.
LEMMA ConsumeCommitKeeps ==
  ASSUME Inv, TypeOK', NEW q \in Request, ConsumeCommit(q)
  PROVE  Kept'
<1> DEFINE g == call[q].under
<1>1. /\ UNCHANGED <<rule, tool, ran>> /\ call[q].step = "consume_commit"
      /\ \/ /\ Leave(q) /\ UNCHANGED effect
            /\ UNCHANGED approval \/ RecordExpired(g) \/ RecordOutdated(g)
         \/ /\ Intended(q) /\ ~Consumed(g) /\ ~Refused(g)
            /\ approval[g].bound = call[q].by
  BY DEF ConsumeCommit, BlockAndLeave, Intended, world
<1>2. Decided(q) /\ Placed(q) /\ Recorded(q) /\ g \in Request
  BY <1>1 DEF Inv, Kept, Decided, TypeOK, Calls, Bound
<1>3. CASE /\ Leave(q) /\ UNCHANGED effect
           /\ UNCHANGED approval \/ RecordExpired(g) \/ RecordOutdated(g)
  BY <1>1, <1>2, <1>3, LeaveKeeps, Marking DEF Inv
<1>4. ASSUME NEW h \in Request, h = g, Intended(q), ~Consumed(h), ~Refused(h),
             approval[h].bound = call[q].by
      PROVE  Kept'
  <2>0. /\ effect'[h].by = call[q].by /\ effect'[h].receipt = effect[h].receipt
        /\ effect'[h].by # None
        /\ \A k \in Request \ {h} : effect'[k] = effect[k]
        /\ approval' = approval
    BY <1>4, IntendedFacts DEF Inv, Intended
  <2>1. approval[h].granted /\ approval[h].version = call[q].state /\ Granted(h)
    BY <1>1, <1>2, <1>4 DEF Decided, Bound, Inv, Kept
  <2>2. ASSUME NEW k \in Request PROVE Grows(k) /\ Granted(k)'
    <3>1. Granted(k) /\ (Refused(k)' <=> Refused(k))
      BY <2>0 DEF Inv, Kept, Refused
    <3>2. CASE k = h
      <4>1. approval[k].granted /\ ~approval[k].withdrawn
        BY <1>4, <2>1, <3>2 DEF Granted
      <4>2. Consumed(k)' /\ ~Consumed(k)
        BY <1>4, <2>0, <3>2 DEF Consumed
      <4> QED
        BY <2>0, <3>1, <4>1, <4>2 DEF Grows, Granted
    <3>3. CASE k # h
      <4>1. effect'[k] = effect[k]
        BY <2>0, <3>3
      <4>2. Consumed(k)' <=> Consumed(k)
        BY <4>1 DEF Consumed
      <4> QED
        BY <2>0, <3>1, <4>1, <4>2 DEF Grows, Granted
    <3> QED
      BY <3>2, <3>3
  <2>4. /\ call'[q].step = "approved_start" /\ call'[q].state = call[q].state
        /\ call'[q].under = call[q].under /\ Decision(call[q].state)' = Decision(call[q].state)
        /\ call'[q].by = call[q].by
        /\ \A k \in Request \ {q} : call'[k] = call[k]
    BY <1>1, <1>4, SameDecision DEF Steps, Intended
  <2>6. Recorded(q)'
    BY <1>1, <1>2, <2>0 DEF Recorded, Told
  <2>7. Placed(q)' /\ tool'[q].start = None
    BY <1>1, <1>2, <2>4 DEF Placed, PreStart, Began, Owing
  <2>8. Decided(q)'
    BY <1>1, <1>2, <1>4, <2>0, <2>1, <2>4 DEF Decided, PreStart, Bound
  <2>9. ASSUME NEW k \in Request, Holds(q, k)' PROVE Owned(q, k)' /\ ~Consumed(k)
    <3>1. k = h
      BY <1>4, <2>4, <2>7, <2>9 DEF Holds
    <3>2. effect'[h].receipt = None /\ ~Consumed(h) /\ effect'[h].by # None
      BY <1>4, <2>0, <2>1 DEF Granted
    <3>3. None # "applied" /\ None # "not_applied"
      BY ToolAssumption DEF Receipts
    <3> QED
      BY <2>7, <3>1, <3>2, <3>3 DEF Owned, Consumed
  <2>10. \A k \in Request : effect'[k].receipt = effect[k].receipt
    BY <2>0
  <2>11. Turn(q)
    BY <1>1, <2>0, <2>2, <2>4, <2>6, <2>7, <2>8, <2>9, <2>10 DEF Turn, Untouched, Grants
  <2> QED
    BY <2>11, Frame
<1> QED
  BY <1>1, <1>2, <1>3, <1>4

\* The start of a command, without an approval or under the one that its call
\* consumed.
LEMMA StartKeeps ==
  ASSUME Inv, TypeOK', NEW q \in Request, Start(q) \/ ApprovedStart(q)
  PROVE  Kept'
<1>1. /\ UNCHANGED <<rule, effect, approval, ran>>
      /\ call[q].step \in {"start", "approved_start"}
      /\ (Leave(q) /\ UNCHANGED tool) \/ Started(q)
  BY DEF Start, ApprovedStart, BlockAndLeave, world
<1>2. Decided(q) /\ Placed(q) /\ Recorded(q)
  BY DEF Inv, Kept
<1>m. OnlyMarked
  BY <1>1, Marking DEF Inv
<1>3. CASE Leave(q) /\ UNCHANGED tool
  BY <1>1, <1>3, <1>m, LeaveKeeps
<1>4. CASE Started(q)
  <2>1. /\ tool'[q].start = [by |-> call[q].by, under |-> call[q].under]
        /\ tool'[q].start # None
        /\ tool'[q].decision = tool[q].decision /\ tool'[q].terminal = tool[q].terminal
        /\ \A k \in Request \ {q} : tool'[k] = tool[k]
    BY <1>4, StartedFacts DEF Inv
  <2>2. /\ call'[q].step = "authorize" /\ call'[q].by = call[q].by
        /\ call'[q].under = call[q].under
        /\ \A k \in Request \ {q} : call'[k] = call[k]
    BY <1>1, <1>4, SameDecision DEF Steps, Started
  <2>3. /\ tool[q].start = None /\ tool[q].decision # None /\ tool[q].terminal = None
        /\ ran[q] = "no"
    BY <1>1, <1>2 DEF Placed, Recorded, PreStart
  <2>4. Recorded(q)'
    BY <1>1, <1>2, <2>1, <2>3 DEF Recorded, Told
  <2>5. Placed(q)'
    BY <1>1, <2>1, <2>2, <2>3 DEF Placed, PreStart, Began, Owing
  <2>6. Decided(q)'
    BY <2>2 DEF Decided, PreStart, Bound
  <2>7. ASSUME NEW g \in Request, Holds(q, g)' PROVE Owned(q, g)' /\ Holds(q, g)
    <3>1. call[q].under = g
      BY <2>1, <2>2, <2>7 DEF Holds
    <3>2. call[q].step = "approved_start"
      BY <1>1, <1>2, <3>1, ToolAssumption DEF Decided
    <3>3. Holds(q, g) /\ effect[g].by = call[q].by /\ approval[g].bound = call[q].by
      BY <1>2, <3>1, <3>2 DEF Holds, Decided
    <3>4. Owned(q, g) /\ effect[g].receipt = None
      BY <3>2, <3>3 DEF Inv, Kept, Sole, Owned
    <3> QED
      BY <1>1, <2>1, <2>3, <3>3, <3>4 DEF Owned, Consumed
  <2>8. Grants /\ \A k \in Request : approval'[k].asked = approval[k].asked
    BY <1>1, <1>m, MarkedGrants
  <2>9. Turn(q)
    BY <1>1, <2>1, <2>2, <2>4, <2>5, <2>6, <2>7, <2>8 DEF Turn, Untouched
  <2> QED
    BY <2>9, Frame
<1> QED
  BY <1>1, <1>3, <1>4

-----------------------------------------------------------------------------
\* The actions of a call once its command has started.  They touch neither a
\* grant nor a start.

\* What is to be shown of such a step: the command and the receipt of its effect.
Running(q) ==
  /\ \A k \in Request \ {q} : Untouched(k)
  /\ UNCHANGED <<rule, approval, tool>>
  /\ \A g \in Request : effect'[g].by = effect[g].by
  /\ \A g \in Request : effect'[g].receipt # effect[g].receipt =>
       tool[q].start # None /\ tool[q].start.under = g
  /\ call'[q].step \notin PreStart
  /\ Recorded(q)' /\ Placed(q)'
  /\ \A g \in Request : tool[q].start # None /\ tool[q].start.under = g =>
       /\ effect'[g].receipt = "applied" => ran'[q] = "stopped"
       /\ effect'[g].receipt = "not_applied" => ran'[q] = "no"
       /\ call'[q].step \in Owing => effect'[g].receipt = None

\* Such a step keeps the invariant: who holds a grant does not change.
LEMMA RunningKeeps ==
  ASSUME Inv, TypeOK', NEW q \in Request, Running(q)
  PROVE  Kept'
<1>1. \A g \in Request : Consumed(g)' <=> Consumed(g)
  BY DEF Running, Consumed
<1>2. \A g \in Request : Refused(g)' <=> Refused(g)
  BY DEF Running, Refused
<1>3. ASSUME NEW g \in Request, tool[q].start # None, tool[q].start.under = g
      PROVE  Holds(q, g) /\ Owned(q, g)
  <2>1. Holds(q, g)
    BY <1>3 DEF Holds
  <2> QED
    BY <2>1 DEF Inv, Kept, Sole
<1>4. ASSUME NEW g \in Request PROVE Grows(g) /\ Granted(g)'
  <2>1. Granted(g)
    BY DEF Inv, Kept
  <2>2. ~Consumed(g) => effect'[g].receipt = effect[g].receipt
    BY <1>3 DEF Running, Owned
  <2> QED
    BY <1>1, <1>2, <2>1, <2>2 DEF Grows, Granted, Running
<1>5. ASSUME NEW g \in Request, Holds(q, g)' PROVE Owned(q, g)' /\ Holds(q, g)
  <2>1. tool[q].start # None /\ tool[q].start.under = g
    BY <1>5 DEF Holds, Running, PreStart
  <2>2. Holds(q, g) /\ Owned(q, g)
    BY <1>3, <2>1
  <2> QED
    BY <1>1, <2>1, <2>2 DEF Owned, Running, PreStart
<1>6. Decided(q)'
  BY DEF Running, Decided, PreStart, Bound
<1>7. Turn(q)
  BY <1>3, <1>4, <1>5, <1>6 DEF Turn, Running, Grants
<1> QED
  BY <1>7, Frame

\* What a call that began knows of its command.
LEMMA BeganFacts ==
  ASSUME Inv, NEW q \in Request, call[q].step \in Began
  PROVE  /\ tool[q].decision # None /\ tool[q].terminal = None
         /\ tool[q].start # None
         /\ tool[q].start.by = call[q].by /\ tool[q].start.under = call[q].under
         /\ tool[q].start = [by |-> call[q].by, under |-> call[q].under]
         /\ \A g \in Request : call[q].under = g => Owned(q, g)
         /\ call[q].step \in {"authorize", "launch"} => ran[q] = "no"
         /\ call[q].step = "receipt" => ran[q] = "stopped" /\ call[q].under # None
         /\ call[q].step \in {"receipt", "end"} => Told(call[q].terminal, ran[q])
<1>1. Placed(q) /\ call[q] \in Calls
  BY DEF Inv, Kept, TypeOK
<1>2. /\ tool[q].start = [by |-> call[q].by, under |-> call[q].under]
      /\ tool[q].decision # None /\ tool[q].terminal = None
  BY <1>1 DEF Placed, Began
<1>3. tool[q].start \in Starts
  BY <1>1, <1>2 DEF Starts, Calls
<1>4. tool[q].start # None
  BY <1>3, ToolAssumption
<1>5. \A g \in Request : call[q].under = g => Holds(q, g)
  BY <1>2, <1>4 DEF Holds
<1>6. \A g \in Request : call[q].under = g => Owned(q, g)
  BY <1>5 DEF Inv, Kept, Sole
<1> QED
  BY <1>1, <1>2, <1>4, <1>6 DEF Placed

\* The last check: a command that is not launched leaves "not_applied".
LEMMA AuthorizeKeeps ==
  ASSUME Inv, TypeOK', NEW q \in Request, Authorize(q)
  PROVE  Kept'
<1>1. /\ UNCHANGED <<rule, approval, tool, ran>> /\ call[q].step = "authorize"
      /\ \/ Goto(q, "launch") /\ UNCHANGED effect
         \/ Receipt(q, "not_applied") /\ EndWith(q, "end", "cancelled")
  BY DEF Authorize, world
<1>2. /\ tool[q].decision # None /\ tool[q].terminal = None /\ tool[q].start # None
      /\ tool[q].start.by = call[q].by /\ tool[q].start.under = call[q].under
      /\ tool[q].start = [by |-> call[q].by, under |-> call[q].under]
      /\ \A g \in Request : call[q].under = g => Owned(q, g)
      /\ ran[q] = "no"
  BY <1>1, BeganFacts DEF Began, Owing
<1>3. Recorded(q)'
  BY <1>1, <1>2 DEF Inv, Kept, Recorded, Told
<1>4. CASE Goto(q, "launch") /\ UNCHANGED effect
  <2>1. /\ call'[q].step = "launch" /\ call'[q].by = call[q].by
        /\ call'[q].under = call[q].under
        /\ \A k \in Request \ {q} : call'[k] = call[k]
    BY <1>4, GotoFacts DEF Inv, Steps
  <2>2. Placed(q)'
    BY <1>1, <1>2, <2>1 DEF Placed, PreStart, Began, Owing
  <2>3. Running(q)
    BY <1>1, <1>2, <1>3, <1>4, <2>1, <2>2 DEF Running, Untouched, Owned, PreStart, Owing
  <2> QED
    BY <2>3, RunningKeeps
<1>5. CASE Receipt(q, "not_applied") /\ EndWith(q, "end", "cancelled")
  <2>1. /\ call'[q].step = "end" /\ call'[q].by = call[q].by
        /\ call'[q].under = call[q].under /\ call'[q].terminal = "cancelled"
        /\ \A k \in Request \ {q} : call'[k] = call[k]
    BY <1>5, EndFacts DEF Inv, Steps, Terminals
  <2>2. Placed(q)'
    BY <1>1, <1>2, <2>1 DEF Placed, PreStart, Began, Owing, Told
  <2>3. /\ \A g \in Request : effect'[g].by = effect[g].by
        /\ \A g \in Request \ {call[q].under} : effect'[g] = effect[g]
        /\ call[q].under # None => effect'[call[q].under].receipt = "not_applied"
    BY <1>5, ReceiptFacts DEF Inv, Receipts
  <2>4. \A g \in Request : effect'[g].receipt # effect[g].receipt => tool[q].start.under = g
    BY <1>2, <2>3
  <2>5. \A g \in Request : tool[q].start.under = g => effect'[g].receipt = "not_applied"
    BY <1>2, <2>3, ToolAssumption
  <2>6. Running(q)
    BY <1>1, <1>2, <1>3, <2>1, <2>2, <2>3, <2>4, <2>5
       DEF Running, Untouched, PreStart, Owing
  <2> QED
    BY <2>6, RunningKeeps
<1> QED
  BY <1>1, <1>4, <1>5

\* A launch that fails may have run the command; no receipt is written.
LEMMA LaunchKeeps ==
  ASSUME Inv, TypeOK', NEW q \in Request, Launch(q)
  PROVE  Kept'
<1>1. /\ UNCHANGED <<rule, approval, tool, effect>> /\ call[q].step = "launch"
      /\ ran' \in {ran, [ran EXCEPT ![q] = "running"], [ran EXCEPT ![q] = "stopped"]}
      /\ Goto(q, "wait") \/ EndWith(q, "end", "failed") \/ EndWith(q, "end", "unknown")
  BY DEF Launch, world
<1>2. /\ tool[q].decision # None /\ tool[q].terminal = None /\ tool[q].start # None
      /\ tool[q].start.by = call[q].by /\ tool[q].start.under = call[q].under
      /\ tool[q].start = [by |-> call[q].by, under |-> call[q].under]
      /\ \A g \in Request : call[q].under = g => Owned(q, g)
  BY <1>1, BeganFacts DEF Began, Owing
<1>3. \A k \in Request \ {q} : ran'[k] = ran[k]
  BY <1>1 DEF Inv, TypeOK
<1>4. None # "completed" /\ None # "cancelled" /\ None # "applied" /\ None # "not_applied"
  BY ToolAssumption DEF Terminals, Receipts
<1>5. Recorded(q)'
  BY <1>1, <1>2, <1>4 DEF Recorded, Told
<1>6. /\ \/ call'[q].step = "wait"
         \/ call'[q].step = "end" /\ call'[q].terminal \in {"failed", "unknown"}
      /\ call'[q].by = call[q].by /\ call'[q].under = call[q].under
      /\ \A k \in Request \ {q} : call'[k] = call[k]
  BY <1>1, GotoFacts, EndFacts DEF Inv, Steps, Terminals
<1>7. Placed(q)'
  BY <1>1, <1>2, <1>6 DEF Placed, PreStart, Began, Owing, Told
<1>8. \A g \in Request : tool[q].start.under = g => effect[g].receipt = None
  BY <1>1, <1>2 DEF Owned, Owing
<1>9. Running(q)
  BY <1>1, <1>2, <1>3, <1>4, <1>5, <1>6, <1>7, <1>8 DEF Running, Untouched, PreStart
<1> QED
  BY <1>9, RunningKeeps

\* A command ends while its call may be anywhere after the launch, or gone.
LEMMA ProcessStopsKeeps ==
  ASSUME Inv, TypeOK', NEW q \in Request, ProcessStops(q)
  PROVE  Kept'
<1>1. /\ UNCHANGED <<rule, approval, tool, effect, call>> /\ ran[q] = "running"
      /\ ran'[q] = "stopped" /\ \A k \in Request \ {q} : ran'[k] = ran[k]
  BY DEF ProcessStops, world, Inv, TypeOK
<1>2. Recorded(q) /\ Placed(q)
  BY DEF Inv, Kept
<1>3. tool[q].start # None /\ tool[q].decision # None /\ call[q].step \notin PreStart
  BY <1>1, <1>2 DEF Recorded, Placed
<1>4. Recorded(q)'
  BY <1>1, <1>3 DEF Recorded, Told
<1>5. Placed(q)'
  BY <1>1, <1>2 DEF Placed, Told
<1>6. ASSUME NEW g \in Request, tool[q].start.under = g
      PROVE  /\ effect[g].receipt # "not_applied"
             /\ call[q].step \in Owing => effect[g].receipt = None
  <2>1. Holds(q, g)
    BY <1>3, <1>6 DEF Holds
  <2>2. Owned(q, g)
    BY <2>1 DEF Inv, Kept, Sole
  <2> QED
    BY <1>1, <2>2 DEF Owned
<1>7. Running(q)
  BY <1>1, <1>3, <1>4, <1>5, <1>6 DEF Running, Untouched
<1> QED
  BY <1>7, RunningKeeps

\* Only a confirmed end is taken for an outcome.
LEMMA WaitKeeps ==
  ASSUME Inv, TypeOK', NEW q \in Request, Wait(q)
  PROVE  Kept'
<1>1. /\ UNCHANGED <<rule, approval, tool, effect, ran>> /\ call[q].step = "wait"
      /\ \/ /\ ran[q] = "stopped"
            /\ \E s \in {"end", "receipt"}, x \in {"cancelled", "completed"} :
                 EndWith(q, s, x) /\ (s = "receipt" => call[q].under # None)
         \/ EndWith(q, "end", "unknown")
  BY DEF Wait, world
<1>2. /\ tool[q].decision # None /\ tool[q].terminal = None /\ tool[q].start # None
      /\ tool[q].start.by = call[q].by /\ tool[q].start.under = call[q].under
      /\ tool[q].start = [by |-> call[q].by, under |-> call[q].under]
      /\ \A g \in Request : call[q].under = g => Owned(q, g)
  BY <1>1, BeganFacts DEF Began, Owing
<1>3. Recorded(q)'
  BY <1>1, <1>2 DEF Inv, Kept, Recorded, Told
<1>4. /\ call'[q].step \in {"end", "receipt"}
      /\ call'[q].step = "receipt" => call'[q].under # None /\ ran[q] = "stopped"
      /\ Told(call'[q].terminal, ran[q])
      /\ call'[q].by = call[q].by /\ call'[q].under = call[q].under
      /\ \A k \in Request \ {q} : call'[k] = call[k]
  <2>1. CASE EndWith(q, "end", "unknown")
    BY <2>1, EndFacts DEF Inv, Steps, Terminals, Told
  <2>2. ASSUME ran[q] = "stopped", NEW s \in {"end", "receipt"},
               NEW x \in {"cancelled", "completed"},
               EndWith(q, s, x), s = "receipt" => call[q].under # None
        PROVE  <1>4!:
    BY <2>2, EndFacts DEF Inv, Steps, Terminals, Told
  <2> QED
    BY <1>1, <2>1, <2>2
<1>5. Placed(q)'
  BY <1>1, <1>2, <1>4 DEF Placed, PreStart, Began, Owing, Told
<1>6. \A g \in Request : tool[q].start.under = g => Owned(q, g) /\ effect[g].receipt = None
  BY <1>1, <1>2 DEF Owned, Owing
<1>7. Running(q)
  BY <1>1, <1>2, <1>3, <1>4, <1>5, <1>6 DEF Running, Untouched, PreStart, Owned
<1> QED
  BY <1>7, RunningKeeps

\* The receipt "applied" is written after a confirmed end.
LEMMA RecordReceiptKeeps ==
  ASSUME Inv, TypeOK', NEW q \in Request, RecordReceipt(q)
  PROVE  Kept'
<1>1. /\ UNCHANGED <<rule, approval, tool, ran>> /\ call[q].step = "receipt"
      /\ \/ Receipt(q, "applied") /\ Goto(q, "end")
         \/ EndWith(q, "end", "unknown") /\ UNCHANGED effect
  BY DEF RecordReceipt, world
<1>2. /\ tool[q].decision # None /\ tool[q].terminal = None /\ tool[q].start # None
      /\ tool[q].start.by = call[q].by /\ tool[q].start.under = call[q].under
      /\ tool[q].start = [by |-> call[q].by, under |-> call[q].under]
      /\ \A g \in Request : call[q].under = g => Owned(q, g)
      /\ ran[q] = "stopped" /\ Told(call[q].terminal, ran[q])
  BY <1>1, BeganFacts DEF Began, Owing
<1>3. Recorded(q)'
  BY <1>1, <1>2 DEF Inv, Kept, Recorded, Told
<1>4. /\ call'[q].step = "end" /\ Told(call'[q].terminal, ran[q])
      /\ call'[q].by = call[q].by /\ call'[q].under = call[q].under
      /\ \A k \in Request \ {q} : call'[k] = call[k]
  BY <1>1, <1>2, GotoFacts, EndFacts DEF Inv, Steps, Terminals, Told
<1>5. Placed(q)'
  BY <1>1, <1>2, <1>4 DEF Placed, PreStart, Began, Owing, Told
<1>6. /\ \A g \in Request : effect'[g].by = effect[g].by
      /\ \A g \in Request \ {call[q].under} : effect'[g] = effect[g]
  BY <1>1, ReceiptFacts DEF Inv, Receipts
<1>7. \A g \in Request : call[q].under = g =>
        effect'[g].receipt = "applied" \/ effect'[g].receipt = effect[g].receipt
  BY <1>1, ReceiptFacts, ToolAssumption DEF Inv, Receipts
<1>8. \A g \in Request : call[q].under = g => effect'[g].receipt # "not_applied"
  BY <1>1, <1>2, <1>7 DEF Owned
<1>9. Running(q)
  BY <1>1, <1>2, <1>3, <1>4, <1>5, <1>6, <1>7, <1>8
     DEF Running, Untouched, PreStart, Owing
<1> QED
  BY <1>9, RunningKeeps

\* The end that is recorded is the one the call found.
LEMMA EndKeeps ==
  ASSUME Inv, TypeOK', NEW q \in Request, End(q)
  PROVE  Kept'
<1>1. /\ UNCHANGED <<rule, approval, effect, ran>> /\ call[q].step = "end" /\ Leave(q)
  BY DEF End, world
<1>2. /\ tool[q].decision # None /\ tool[q].terminal = None /\ tool[q].start # None
      /\ Told(call[q].terminal, ran[q])
  BY <1>1, BeganFacts DEF Began
<1>3. /\ tool'[q].terminal = call[q].terminal /\ tool'[q].start = tool[q].start
      /\ tool'[q].decision = tool[q].decision
      /\ \A k \in Request \ {q} : tool'[k] = tool[k]
  <2>1. tool' = [tool EXCEPT ![q].terminal = call[q].terminal]
    BY <1>2 DEF End
  <2>2. call[q].terminal \in Terminals \cup {None}
    BY DEF Inv, TypeOK, Calls
  <2> QED
    BY <2>1, <2>2, TerminalFacts DEF Inv
<1>4. call'[q].step = "idle" /\ \A k \in Request \ {q} : call'[k] = call[k]
  BY <1>1, LeaveFacts DEF Inv
<1>5. Recorded(q)'
  BY <1>1, <1>2, <1>3 DEF Recorded, Told
<1>6. Placed(q)' /\ Decided(q)'
  BY <1>4 DEF Placed, Decided, PreStart, Began, Owing, Bound
<1>7. OnlyMarked
  BY <1>1, Marking DEF Inv
<1>8. Aside(q)
  BY <1>1, <1>3, <1>4, <1>5, <1>6, <1>7 DEF Aside, Untouched, Owing
<1> QED
  BY <1>8, AsideKeeps

-----------------------------------------------------------------------------
\* Approvers and time, and the control plane.

\* An approver, or the clock, cannot take away a grant that was consumed.
LEMMA HandledKeeps ==
  ASSUME Inv, TypeOK', NEW g \in Request,
         Approve(g) \/ Deny(g) \/ Revoke(g) \/ TimePasses(g)
  PROVE  Kept'
<1>1. UNCHANGED <<rule, effect, tool, call, ran>>
  BY DEF Approve, Deny, Revoke, TimePasses, world
<1>2. Handled(g) /\ Granted(g)
  BY Handling DEF Inv, Kept
<1>3. ASSUME NEW h \in Request PROVE Grows(h) /\ Granted(h)'
  <2>1. Granted(h) /\ Consumed(h)' = Consumed(h) /\ effect'[h] = effect[h]
    BY <1>1 DEF Inv, Kept, Consumed
  <2>2. CASE h = g
    <3>1. /\ approval[h].asked /\ approval'[h].asked = approval[h].asked
          /\ approval[h].granted => approval'[h].granted
          /\ approval'[h].version = approval[h].version
          /\ approval'[h].bound = approval[h].bound
          /\ approval'[h].withdrawn => Refused(h)' \/ approval[h].withdrawn
          /\ Refused(h) => Refused(h)'
          /\ Consumed(h) /\ approval[h].granted => approval'[h].withdrawn = approval[h].withdrawn
      BY <1>2, <2>2 DEF Handled
    <3> QED
      BY <2>1, <3>1 DEF Grows, Granted
  <2>3. CASE h # g
    <3>1. approval'[h] = approval[h]
      BY <1>2, <2>3 DEF Handled
    <3>2. Refused(h)' = Refused(h)
      BY <3>1 DEF Refused
    <3> QED
      BY <2>1, <3>1, <3>2 DEF Grows, Granted
  <2> QED
    BY <2>2, <2>3
<1>4. \A k \in Request : Untouched(k) /\ approval'[k].asked = approval[k].asked
  <2>1. \A k \in Request : approval'[k].asked = approval[k].asked
    BY <1>2 DEF Handled
  <2> QED
    BY <1>1, <2>1 DEF Untouched
<1>5. Grants
  BY <1>1, <1>3 DEF Grants
<1>6. Recorded(g)' /\ Placed(g)' /\ Decided(g)'
  BY <1>4, <1>5, FrameCall
<1>7. ASSUME NEW h \in Request, Holds(g, h)' PROVE Owned(g, h)' /\ Holds(g, h)
  <2>1. Holds(g, h)
    BY <1>1, <1>7 DEF Holds
  <2>2. Owned(g, h)
    BY <2>1 DEF Inv, Kept, Sole
  <2>3. approval'[h].bound = approval[h].bound
    BY <1>3, <2>2 DEF Grows, Owned
  <2> QED
    BY <1>1, <2>1, <2>2, <2>3 DEF Owned, Consumed
<1>8. Turn(g)
  BY <1>1, <1>4, <1>5, <1>6, <1>7 DEF Turn
<1> QED
  BY <1>8, Frame

\* The invariant is inductive.
LEMMA KeptStep == Inv /\ [Next]_vars => Inv'
<1> SUFFICES ASSUME Inv, [Next]_vars PROVE Inv'
  OBVIOUS
<1>t. TypeOK'
  BY TypeStep
<1>1. ASSUME NEW q \in Request, NEW a \in 1 .. attempt, NEW g \in Request \cup {None},
             Enter(q, a, g)
      PROVE  Kept'
  BY <1>1, <1>t, EnterKeeps
<1>2. ASSUME NEW q \in Request,
             RecordRequest(q) \/ Ask(q) \/ Recheck(q) \/ Bind(q) \/ BindCommit(q)
      PROVE  Kept'
  BY <1>2, <1>t, RecordRequestKeeps, AskKeeps, RecheckKeeps, BindKeeps, BindCommitKeeps
<1>3. ASSUME NEW q \in Request, Consume(q) \/ ConsumeCommit(q) \/ Start(q) \/ ApprovedStart(q)
      PROVE  Kept'
  BY <1>3, <1>t, ConsumeKeeps, ConsumeCommitKeeps, StartKeeps
<1>4. ASSUME NEW q \in Request,
             Authorize(q) \/ Launch(q) \/ ProcessStops(q) \/ Wait(q) \/ RecordReceipt(q) \/ End(q)
      PROVE  Kept'
  BY <1>4, <1>t, AuthorizeKeeps, LaunchKeeps, ProcessStopsKeeps, WaitKeeps,
     RecordReceiptKeeps, EndKeeps
<1>5. ASSUME NEW q \in Request, Crash(q) PROVE Kept'
  <2>1. Leave(q) /\ UNCHANGED <<rule, approval, effect, tool, ran>>
    BY <1>5 DEF Crash, world
  <2>2. OnlyMarked
    BY <2>1, Marking DEF Inv
  <2> QED
    BY <1>t, <2>1, <2>2, LeaveKeeps
<1>6. ASSUME NEW g \in Request, Approve(g) \/ Deny(g) \/ Revoke(g) \/ TimePasses(g)
      PROVE  Kept'
  BY <1>6, <1>t, HandledKeeps
<1>7. ASSUME ChangePolicy \/ LoseAttempt \/ AcceptAttempt \/ UNCHANGED vars
      PROVE  Kept'
  <2>1. UNCHANGED <<rule, approval, effect, tool, call, ran>>
    BY <1>7 DEF ChangePolicy, LoseAttempt, AcceptAttempt, vars
  <2>2. Grants
    BY <2>1, MarkedGrants, Marking DEF Inv
  <2>3. \A k \in Request : Untouched(k) /\ approval'[k].asked = approval[k].asked
    BY <2>1 DEF Untouched
  <2>4. \A k \in Request : Recorded(k)' /\ Placed(k)' /\ Decided(k)'
    BY <2>2, <2>3, FrameCall
  <2>5. \A k, g \in Request : (Holds(k, g)' <=> Holds(k, g)) /\ (Owned(k, g)' <=> Owned(k, g))
    BY <2>1 DEF Holds, Owned, Consumed
  <2>6. \A k, g \in Request : Sole(k, g)'
    BY <2>5 DEF Inv, Kept, Sole
  <2> QED
    BY <2>2, <2>4, <2>6 DEF Kept, Grants
<1> QED
  BY <1>t, <1>1, <1>2, <1>3, <1>4, <1>5, <1>6, <1>7 DEF Next, Inv

\* It holds at the start,
LEMMA InitInv == Init => Inv
<1> SUFFICES ASSUME Init PROVE Inv
  OBVIOUS
<1>1. NoCall \in Calls /\ NoCall.step = "idle"
  BY ToolAssumption DEF NoCall, Calls, Steps, Attempts, Policies
<1>2. /\ policy \in Policies /\ attempt \in Attempts
      /\ rule \in {"allow", "needs_approval"} /\ live \in BOOLEAN
  BY ToolAssumption DEF Init, Policies, Attempts
<1> DEFINE p == [asked |-> FALSE, origin |-> 1, version |-> 0, due |-> FALSE,
                 granted |-> FALSE, denied |-> FALSE, revoked |-> FALSE, expired |-> FALSE,
                 bound |-> None, withdrawn |-> FALSE]
           e == [by |-> None, receipt |-> None]
           t == [decision |-> None, start |-> None, terminal |-> None]
<1>3. p \in Approvals /\ ~p.asked /\ ~p.granted /\ ~p.withdrawn
  BY ToolAssumption DEF Approvals, Attempts, Policies
<1>4. e \in Effects /\ e.by = None /\ e.receipt = None
  BY DEF Effects
<1>5. t \in Tools /\ t.decision = None /\ t.start = None /\ t.terminal = None
  BY DEF Tools
<1>6. /\ approval = [q \in Request |-> p] /\ effect = [q \in Request |-> e]
      /\ tool = [q \in Request |-> t] /\ call = [q \in Request |-> NoCall]
      /\ ran = [q \in Request |-> "no"]
  BY DEF Init
<1> HIDE DEF p, e, t
<1>7. TypeOK
  BY <1>1, <1>2, <1>3, <1>4, <1>5, <1>6 DEF TypeOK
<1>8. ASSUME NEW q \in Request PROVE Recorded(q) /\ Placed(q) /\ Decided(q) /\ Granted(q)
  <2>1. Told(None, "no")
    BY ToolAssumption DEF Told, Terminals
  <2>2. Recorded(q)
    BY <1>3, <1>5, <1>6, <2>1 DEF Recorded
  <2>3. Placed(q) /\ Decided(q)
    BY <1>1, <1>6 DEF Placed, Decided, PreStart, Bound, Began, Owing
  <2>4. Granted(q)
    BY <1>3, <1>4, <1>6 DEF Granted, Consumed
  <2> QED
    BY <2>2, <2>3, <2>4
<1>9. \A q, g \in Request : Sole(q, g)
  BY <1>1, <1>5, <1>6 DEF Sole, Holds
<1> QED
  BY <1>7, <1>8, <1>9 DEF Inv, Kept

\* and therefore always.
LEMMA AlwaysInv == Spec => []Inv
BY InitInv, KeptStep, PTL DEF Spec

\* Every variable of the gateway keeps to its type (execute and the approval
\* service).
THEOREM TypeCorrect == Spec => []TypeOK
<1>1. Inv => TypeOK
  BY DEF Inv
<1> QED
  BY <1>1, AlwaysInv, PTL

\* A denial or revocation that reported success is never followed by a command
\* under its approval, however many calls raced with it (deny, revoke,
\* consume_and_intend).
THEOREM RefusalsAlwaysHold == Spec => []RefusalsHold
<1>1. Inv => RefusalsHold
  <2> SUFFICES ASSUME Inv, NEW q \in Request, NEW g \in Request,
                      tool[q].start # None, tool[q].start.under = g
               PROVE  ~approval[g].withdrawn
    BY DEF RefusalsHold
  <2>1. Holds(q, g)
    BY DEF Holds
  <2>2. Consumed(g)
    BY <2>1 DEF Inv, Kept, Sole, Owned
  <2> QED
    BY <2>2 DEF Inv, Kept, Granted
<1> QED
  BY <1>1, AlwaysInv, PTL

\* The receipts and ends in the streams are true of the commands, and no two
\* commands share a grant (execute, record_effect_receipt, _record_terminal).
THEOREM RecordsAlwaysTrue == Spec => []RecordsAreTrue
<1>1. Inv => RecordsAreTrue
  <2> SUFFICES ASSUME Inv PROVE RecordsAreTrue
    OBVIOUS
  <2>1. ASSUME NEW q \in Request
        PROVE  /\ ran[q] # "no" => tool[q].start # None
               /\ tool[q].terminal = "completed" => ran[q] = "stopped"
               /\ tool[q].terminal = "cancelled" => ran[q] # "running"
    BY DEF Inv, Kept, Recorded, Told
  <2>2. ASSUME NEW q \in Request, tool[q].start # None, tool[q].start.under # None
        PROVE  LET g == tool[q].start.under IN
               /\ effect[g].by = tool[q].start.by
               /\ approval[g].bound = tool[q].start.by
               /\ effect[g].receipt = "applied" => ran[q] = "stopped"
               /\ effect[g].receipt = "not_applied" => ran[q] = "no"
               /\ \A r \in Request : r # q => tool[r].start = None \/ tool[r].start.under # g
    <3>1. tool[q].start \in Starts
      BY <2>2 DEF Inv, TypeOK, Tools
    <3>2. tool[q].start.under \in Request
      BY <2>2, <3>1 DEF Starts
    <3>3. Holds(q, tool[q].start.under)
      BY <2>2 DEF Holds
    <3>4. Sole(q, tool[q].start.under)
      BY <3>2 DEF Inv, Kept
    <3>5. \A r \in Request : r # q => ~Holds(r, tool[q].start.under)
      BY <3>3, <3>4 DEF Sole
    <3> QED
      BY <2>2, <3>3, <3>4, <3>5 DEF Sole, Owned, Holds
  <2> QED
    BY <2>1, <2>2 DEF RecordsAreTrue
<1> QED
  BY <1>1, AlwaysInv, PTL

\* Only the two actions that start a command record a start.
LEMMA OnlyStarts ==
  ASSUME Inv, Next, NEW q \in Request, tool'[q].start # tool[q].start
  PROVE  (Start(q) \/ ApprovedStart(q)) /\ Started(q)
<1>1. ASSUME NEW p \in Request, RecordRequest(p) PROVE FALSE
  <2>1. Decision(call[p].state) \in Decisions
    BY DEF Decision, Decisions, Inv, TypeOK
  <2>2. tool' = tool \/ tool' = [tool EXCEPT ![p].decision = Decision(call[p].state)]
    BY <1>1 DEF RecordRequest
  <2> QED
    BY <2>1, <2>2, DecisionFacts DEF Inv
<1>2. ASSUME NEW p \in Request, End(p) PROVE FALSE
  <2> DEFINE x == IF tool[p].terminal = None THEN call[p].terminal ELSE tool[p].terminal
  <2>1. tool' = [tool EXCEPT ![p].terminal = x] /\ x \in Terminals \cup {None}
    BY <1>2 DEF End, Inv, TypeOK, Tools, Calls
  <2> HIDE DEF x
  <2> QED
    BY <2>1, TerminalFacts DEF Inv
<1>3. ASSUME NEW p \in Request, Start(p) \/ ApprovedStart(p) PROVE p = q /\ Started(q)
  <2>1. tool' = tool \/ Started(p)
    BY <1>3 DEF Start, ApprovedStart, BlockAndLeave
  <2> QED
    BY <2>1, StartedFacts DEF Inv
<1>4. ASSUME NEW p \in Request,
             \/ \E a \in 1 .. attempt, g \in Request \cup {None} : Enter(p, a, g)
             \/ Ask(p) \/ Recheck(p) \/ Bind(p) \/ BindCommit(p) \/ Consume(p)
             \/ ConsumeCommit(p)
      PROVE  FALSE
  BY <1>4 DEF Enter, Ask, Recheck, Bind, BindCommit, Consume, ConsumeCommit, Intended,
     BlockAndLeave
<1>5. ASSUME NEW p \in Request,
             \/ Authorize(p) \/ Launch(p) \/ ProcessStops(p) \/ Wait(p) \/ RecordReceipt(p)
             \/ Crash(p) \/ Approve(p) \/ Deny(p) \/ Revoke(p) \/ TimePasses(p)
             \/ ChangePolicy \/ LoseAttempt \/ AcceptAttempt
      PROVE  FALSE
  BY <1>5 DEF Authorize, Launch, ProcessStops, Wait, RecordReceipt, Crash, Approve, Deny,
     Revoke, TimePasses, ChangePolicy, LoseAttempt, AcceptAttempt
<1> QED
  BY <1>1, <1>2, <1>3, <1>4, <1>5 DEF Next

\* A command starts only by the current attempt, on the policy state its
\* decision was made on and under a grant of that version when one is needed
\* (_consume_grant_and_start, _consume_approved_and_start).
THEOREM StartsAlwaysHaveAuthority == Spec => StartsHaveAuthority
<1> DEFINE Authority == \A q \in Request : tool[q].start = None /\ tool'[q].start # None =>
             /\ live /\ tool'[q].start.by = attempt
             /\ Decision(policy) # "deny"
             /\ (rule = "needs_approval") =
                  (tool'[q].start.under # None /\ approval[tool'[q].start.under].version = policy)
<1>1. Inv /\ [Next]_vars => [Authority]_vars
  <2> SUFFICES ASSUME Inv, Next, NEW q \in Request,
                      tool[q].start = None, tool'[q].start # None
               PROVE  /\ live /\ tool'[q].start.by = attempt
                      /\ Decision(policy) # "deny"
                      /\ (rule = "needs_approval") =
                           (/\ tool'[q].start.under # None
                            /\ approval[tool'[q].start.under].version = policy)
    BY DEF Authority
  <2> HIDE DEF Authority
  <2>1. (Start(q) \/ ApprovedStart(q)) /\ Started(q)
    BY OnlyStarts
  <2>2. /\ Authorized(q) /\ call[q].step \in {"start", "approved_start"}
    BY <2>1 DEF Start, ApprovedStart, BlockAndLeave
  <2>3. tool'[q].start.by = call[q].by /\ tool'[q].start.under = call[q].under
    <3>1. TypeOK /\ Started(q)
      BY <2>1 DEF Inv
    <3>2. tool'[q].start = [by |-> call[q].by, under |-> call[q].under]
      BY <3>1, StartedFacts
    <3> QED
      BY <3>2
  <2>4. live /\ call[q].by = attempt /\ policy = call[q].state
    BY <2>2 DEF Authorized, IsCurrent
  <2>5. Decision(policy) = IF call[q].under = None THEN "allow" ELSE "needs_approval"
    BY <2>2, <2>4 DEF Inv, Kept, Decided, PreStart
  <2>6. rule = IF call[q].under = None THEN "allow" ELSE "needs_approval"
    BY <2>5 DEF Decision
  <2>7. call[q].under # None => approval[call[q].under].version = policy
    BY <2>2, <2>4 DEF Inv, Kept, Decided, Bound
  <2> QED
    BY <2>3, <2>4, <2>5, <2>6, <2>7
<1> QED
  BY <1>1, AlwaysInv, PTL DEF Spec, StartsHaveAuthority

-----------------------------------------------------------------------------
\* Workspace operations: where the holder of the lease is.

Waiting == {"none", "admitted", "proposed"}
Early == {"occupy", "launch", "wait", "intend", "intend_run", "capture"}
Applying == {"apply", "install", "unlink", "commit"}
Restoring == {"rollback", "remake", "replace", "record"}
Completing == {"completed", "completed_run", "completed_terminal", "completed_shared"}
Aborting == {"aborted", "aborted_run", "aborted_shared"}
Cancelling == {"cancel", "cancel_terminal"}
Settling == {"recovered"} \cup Completing \cup Aborting

\* Before the commit marker of the operation that holds the lease.
Trying == {"admission"} \cup Early \cup PublishPhases

GatewayPhases ==
  Trying \cup RecoverPhases \cup Settling \cup Cancelling
    \cup {"published", "unrecovered", "unknown", "uncertain", "return"}
ReconcilePhases ==
  RecoverPhases \cup Settling \cup AckPhases \cup {"unrecovered", "finish", "give_up", "released"}

\* The holder of the lease is at a step of its own kind of call, the gateway
\* for a thread that is in it, a reconciliation for one that is not any more.
Leased ==
  /\ lease = Nothing <=> phase = "idle"
  /\ lease # Nothing =>
       \/ lease.by = "gateway" /\ phase \in GatewayPhases
       \/ /\ lease.by = "reconcile" /\ phase \in ReconcilePhases
          /\ thread[lease.op] \notin Waiting
       \/ lease.by = "service" /\ phase \in AckPhases \cup {"released"}
  /\ \A o \in Operation : thread[o] = "gateway" <=> HasLease(o, "gateway")

\* No stream says how an operation ended.
Silent(o) ==
  /\ trace[o].terminal = Nothing /\ trace[o].resolution = Nothing /\ trace[o].receipt = Nothing
  /\ shared[o].resolution = Nothing /\ result[o] = Nothing

Attempting(o) == HasLease(o, "gateway") /\ phase \in Trying

\* Before its commit nothing is said of an operation; what the holder of the
\* lease is about to say of its own is true.
SpokenOf(o) ==
  /\ thread[o] \in Waiting \/ Attempting(o) => o \notin settled /\ Silent(o)
  /\ thread[o] \in Waiting => ~trace[o].start
  /\ thread[o] = "acknowledge" => result[o] = "published"
Speaks ==
  lease # Nothing =>
    /\ phase \in Completing \cup {"published"} => lease.op \in settled
    /\ phase \in Aborting \cup Cancelling => lease.op \notin settled
Spoken == Speaks /\ \A o \in Operation : SpokenOf(o)

\* What the journal proves.
JournalProves ==
  /\ journal.name = Nothing => journal = NoJournal
  /\ journal.name # Nothing => journal.op \in Operation
  /\ journal.state = "committed" => journal.op \in settled
  /\ journal.op \in settled =>
       \/ journal.state = "committed"
       \/ journal.name = "acknowledged" /\ journal.state = "unbound"
  /\ journal.state = "prepared" =>
       journal.name = "publish" /\ journal.op = subject /\ subject \notin settled

At(name, state) == journal = [name |-> name, state |-> state, op |-> lease.op]

\* The journal at each step of the holder of the lease.
JournalFits ==
  lease # Nothing =>
    /\ phase \in Early \cup {"stage"} => journal = NoJournal
    /\ phase = "bind" => At("staging", "unbound")
    /\ phase = "promote" => At("staging", "preparing")
    /\ phase = "prepare" => At("publish", "preparing")
    /\ phase \in Applying => At("publish", "prepared")
    /\ phase \in {"sweep"} \cup Restoring => journal.state = "prepared"
    /\ phase \in {"wait", "intend", "intend_run", "capture"} \cup PublishPhases =>
         subject = lease.op
    /\ lease.by = "gateway" /\ phase \in RecoverPhases \cup {"recovered"} =>
         \/ Pending /\ journal.op = lease.op
         \/ journal = NoJournal /\ lease.op \notin settled
    /\ lease.by = "reconcile" /\ phase \notin AckPhases \cup {"released", "give_up"} =>
         Pending /\ journal.op = lease.op /\ journal.state # "unbound"
    /\ lease.by = "reconcile" /\ phase \in Settling \cup {"finish"} => journal.state # "prepared"
    /\ phase = "ack" /\ journal.op = lease.op => journal.state # "prepared"
    /\ phase \in {"discard", "remove"} => journal.name = "acknowledged"
    /\ phase = "remove" => journal.state = "unbound"

\* Half of the change set: what is applied, and what is rolled back.
AppliedSoFar ==
  /\ place \in 1 .. Len(Diff) + 1
  /\ \A e \in Entry :
       /\ e < place => tree[e] \in {"after", "foreign"} /\ ~temp[e]
       /\ e > place => tree[e] \in {"before", "foreign"} /\ ~temp[e]
  /\ phase = "commit" <=> place = Len(Diff) + 1
  /\ phase = "apply" => tree[place] \in {"before", "foreign"} /\ ~temp[place]
  /\ phase = "install" /\ Diff[place].kind = "directory" => ~temp[place]
  /\ phase = "unlink" => tree[place] \in {"after", "foreign"}

RestoredSoFar ==
  /\ place \in 0 .. Len(Diff)
  /\ \A e \in Entry :
       /\ e < place => ~temp[e]
       /\ e > place => tree[e] \in {"before", "foreign"} /\ ~temp[e]
  /\ phase = "record" <=> place = 0
  /\ phase \in {"rollback", "remake"} => ~temp[place]
  /\ phase = "remake" => tree[place] \in {"partial", "foreign"}
  /\ phase = "replace" => tree[place] \in {"after", "foreign"}

TreeFits ==
  /\ TreeIsWhole
  /\ phase \in Applying => AppliedSoFar
  /\ phase \in Restoring => RestoredSoFar

\* An operation whose candidate may still run is alone: every start, receipt
\* and reconciliation waits for the record that the candidate has stopped.
AloneOf(o) ==
  /\ Occupied(o) =>
       /\ journal = NoJournal
       /\ \A q \in Operation : ~Unresolved(q) /\ (Occupied(q) => q = o)
       /\ \/ phase \in {"idle", "admission", "return", "ack", "released"}
          \/ phase \in {"launch", "wait", "unknown"} /\ lease.op = o
  /\ unit[o] = "running" => Occupied(o)
  /\ \/ thread[o] \in Waiting
     \/ HasLease(o, "gateway") /\ phase \in {"admission", "occupy", "launch"}
     => unit[o] = "none"
Alone ==
  /\ phase = "occupy" => \A q \in Operation : ~Unresolved(q) /\ ~Occupied(q)
  /\ phase \in {"launch", "wait"} => Occupied(lease.op)
  /\ \A o \in Operation : AloneOf(o)

WriteInv ==
  /\ WriteTypeOK /\ Leased /\ Spoken /\ JournalProves /\ JournalFits /\ TreeFits /\ Alone
  /\ RecordsMatchTree

\* The fields of an operation's records.
TraceField == {"start", "captured", "terminal", "intent", "resolution", "receipt"}
ShareField == {"intent", "resolution", "running"}

\* Nothing is no operation, no holder of the lease and no word of a stream.
LEMMA NothingApart ==
  /\ Nothing \notin Operation
  /\ \A o \in Operation, by \in Actors : [op |-> o, by |-> by] # Nothing
  /\ Nothing # "staging" /\ Nothing # "publish" /\ Nothing # "acknowledged"
  /\ Nothing # "completed" /\ Nothing # "aborted"
  /\ Nothing # "applied" /\ Nothing # "not_applied" /\ Nothing # "published"
  /\ Nothing # "failed" /\ Nothing # "intended"
  BY PublishAssumption

\* The lists of values and of steps are expanded throughout.
USE NothingApart
    DEF Actors, Threads, Results, Resolutions, Traces, Shares, HasLease, PublishPhases,
        RecoverPhases, AckPhases, AppendPhases, Waiting, Early, Applying, Restoring, Completing,
        Aborting, Cancelling, Settling, Trying, GatewayPhases, ReconcilePhases

\* The initial states.
LEMMA WriteInitInv == WriteInit => WriteInv
<1> SUFFICES ASSUME WriteInit PROVE WriteInv
  OBVIOUS
<1> USE DEF WriteInit, PublishInit, NoJournal
<1>1. Diff \in Seq([does : {"add", "modify", "delete"},
                    kind : {"file", "directory"}, up : Nat]) /\ Len(Diff) \in Nat
  BY PublishAssumption
<1>2. WriteTypeOK
  BY <1>1, PublishAssumption DEF WriteTypeOK, PublishTypeOK
<1>3. Leased
  BY DEF Leased
<1>7. Spoken
  BY DEF Spoken, SpokenOf, Speaks, Attempting, Silent
<1>6. JournalProves /\ JournalFits
  BY DEF JournalProves, JournalFits
<1>4. TreeFits /\ Alone
  BY DEF TreeFits, TreeIsWhole, Whole, Alone, AloneOf, Unresolved, Occupied
<1>5. RecordsMatchTree
  BY DEF RecordsMatchTree, Says
<1> QED
  BY <1>2, <1>3, <1>7, <1>6, <1>4, <1>5 DEF WriteInv

\* What a step keeps that leaves the disk alone and is no part of an
\* application or a rollback.
LEMMA TreeStays ==
  ASSUME WriteInv, UNCHANGED <<tree, temp, journal, subject, settled>>,
         phase' \notin Applying \cup Restoring
  PROVE  TreeFits'
  BY DEF WriteInv, TreeFits, TreeIsWhole, Whole

LEMMA TreeKept ==
  ASSUME WriteInv, UNCHANGED <<tree, temp, journal, subject, settled, place, phase>>
  PROVE  TreeFits'
  BY DEF WriteInv, TreeFits, TreeIsWhole, Whole, AppliedSoFar, RestoredSoFar

LEMMA JournalStays ==
  ASSUME WriteInv, UNCHANGED <<journal, subject, settled>>
  PROVE  JournalProves'
  BY DEF WriteInv, JournalProves

LEMMA SaidStays ==
  ASSUME WriteInv, UNCHANGED <<trace, shared, result, settled>>
  PROVE  RecordsMatchTree'
  BY DEF WriteInv, RecordsMatchTree, Says

\* The holder of the lease.
LEMMA HolderFacts ==
  ASSUME WriteInv, lease # Nothing
  PROVE  /\ lease.op \in Operation /\ lease.by \in Actors /\ phase # "idle"
         /\ lease = [op |-> lease.op, by |-> lease.by]
         /\ lease.by = "gateway" => thread[lease.op] = "gateway"
         /\ lease.by # "gateway" => \A o \in Operation : thread[o] # "gateway"
  BY DEF WriteInv, WriteTypeOK, PublishTypeOK, Leased

\* Whose lease it is.
LEMMA HolderIs ==
  ASSUME WriteInv, NEW o \in Operation, NEW by \in Actors, HasLease(o, by)
  PROVE  /\ lease # Nothing /\ lease.op = o /\ lease.by = by
         /\ \A q \in Operation : thread[q] = "gateway" <=> q = o /\ by = "gateway"
  BY DEF WriteInv, Leased

\* What was said of an operation stays said.
LEMMA RecordsStay ==
  ASSUME WriteInv, UNCHANGED <<settled, result>>,
         \A q \in Operation :
           /\ trace'[q].terminal = trace[q].terminal /\ trace'[q].receipt = trace[q].receipt
           /\ trace'[q].resolution = trace[q].resolution
           /\ shared'[q].resolution = shared[q].resolution
  PROVE  RecordsMatchTree' /\ \A q \in Operation : Silent(q)' <=> Silent(q)
  BY DEF WriteInv, RecordsMatchTree, Says, Silent

\* Nothing new has to be silent.
LEMMA SpokenStays ==
  ASSUME WriteInv, UNCHANGED settled, Speaks',
         \A q \in Operation :
           /\ Silent(q)' <=> Silent(q)
           /\ thread'[q] \in Waiting => thread[q] \in Waiting /\ ~trace'[q].start
           /\ Attempting(q)' => Attempting(q)
           /\ thread'[q] = "acknowledge" => thread[q] = "acknowledge" /\ result'[q] = result[q]
  PROVE  Spoken'
  BY DEF WriteInv, Spoken, SpokenOf

\* trace after an event of one field.
LEMMA Noted ==
  ASSUME trace \in [Operation -> Traces], NEW o \in Operation, NEW f \in TraceField, NEW v,
         Notes(o, f, v)
  PROVE  /\ \A q \in Operation \ {o} : trace'[q] = trace[q]
         /\ trace'[o][f] = v
         /\ \A g \in TraceField \ {f} : trace'[o][g] = trace[o][g]
  BY DEF Notes, TraceField

LEMMA NotedTrue ==
  ASSUME trace \in [Operation -> Traces], NEW o \in Operation,
         NEW f \in {"start", "captured", "intent"}, Notes(o, f, TRUE)
  PROVE  /\ trace' \in [Operation -> Traces]
         /\ \A q \in Operation \ {o} : trace'[q] = trace[q]
         /\ trace'[o][f]
         /\ \A g \in TraceField \ {f} : trace'[o][g] = trace[o][g]
<1> DEFINE u == [trace[o] EXCEPT ![f] = TRUE]
<1>1. trace[o] \in Traces
  OBVIOUS
<1>2. u \in Traces /\ u[f] /\ \A g \in TraceField \ {f} : u[g] = trace[o][g]
  BY <1>1 DEF TraceField
<1>3. trace' = [trace EXCEPT ![o] = u]
  BY DEF Notes
<1> HIDE DEF u
<1> QED
  BY <1>2, <1>3

LEMMA NotedTyped ==
  ASSUME trace \in [Operation -> Traces], NEW o \in Operation, NEW f \in TraceField, NEW v,
         Notes(o, f, v), f \in {"start", "captured", "intent"} => v \in BOOLEAN,
         f = "terminal" => v \in {"completed", "not_applied", "unknown"},
         f = "resolution" => v \in {"completed", "aborted"},
         f = "receipt" => v \in {"applied", "not_applied"}
  PROVE  trace' \in [Operation -> Traces]
<1> DEFINE u == [trace[o] EXCEPT ![f] = v]
<1>1. u \in Traces
  <2>1. trace[o] \in Traces
    OBVIOUS
  <2> HIDE DEF u
  <2> QED
    BY <2>1 DEF TraceField, u
<1>2. trace' = [trace EXCEPT ![o] = u]
  BY DEF Notes
<1> HIDE DEF u
<1> QED
  BY <1>1, <1>2

\* shared after an event of one field.
LEMMA Announced ==
  ASSUME shared \in [Operation -> Shares], NEW o \in Operation, NEW f \in ShareField, NEW v,
         Announces(o, f, v)
  PROVE  /\ \A q \in Operation \ {o} : shared'[q] = shared[q]
         /\ shared'[o][f] = v
         /\ \A g \in ShareField \ {f} : shared'[o][g] = shared[o][g]
  BY DEF Announces, ShareField

LEMMA AnnouncedTyped ==
  ASSUME shared \in [Operation -> Shares], NEW o \in Operation, NEW f \in ShareField, NEW v,
         Announces(o, f, v), f = "intent" => v \in BOOLEAN,
         f = "resolution" => v \in {"completed", "aborted"},
         f = "running" => v \in {"intended", "stopped"}
  PROVE  shared' \in [Operation -> Shares]
<1> DEFINE u == [shared[o] EXCEPT ![f] = v]
<1>1. u \in Shares
  <2>1. shared[o] \in Shares
    OBVIOUS
  <2> HIDE DEF u
  <2> QED
    BY <2>1 DEF ShareField, u
<1>2. shared' = [shared EXCEPT ![o] = u]
  BY DEF Announces
<1> HIDE DEF u
<1> QED
  BY <1>1, <1>2

\* The place of a thread, and the terminal event of an operation.
LEMMA Went ==
  ASSUME thread \in [Operation -> Threads], NEW o \in Operation, NEW t \in Threads, Goes(o, t)
  PROVE  /\ thread' \in [Operation -> Threads] /\ thread'[o] = t
         /\ \A q \in Operation \ {o} : thread'[q] = thread[q]
  BY DEF Goes

LEMMA Finished ==
  ASSUME stream \in [Operation -> {"none", "requested", "stopped", "finished"}],
         result \in [Operation -> Results], NEW o \in Operation, NEW r \in Results,
         Finishes(o, r)
  PROVE  /\ stream' \in [Operation -> {"none", "requested", "stopped", "finished"}]
         /\ result' \in [Operation -> Results] /\ result'[o] = r
         /\ \A q \in Operation \ {o} : result'[q] = result[q]
<1>1. CASE stream[o] = "finished"
  BY <1>1 DEF Finishes
<1>2. CASE stream[o] # "finished"
  <2>1. stream' = [stream EXCEPT ![o] = "finished"] /\ result' = [result EXCEPT ![o] = r]
    BY <1>2 DEF Finishes
  <2> QED
    BY <2>1
<1> QED
  BY <1>1, <1>2

\* While the holder of the lease is past its candidate no candidate runs.
LEMMA NotOccupied ==
  ASSUME WriteInv,
         phase \notin {"idle", "admission", "return", "ack", "released", "launch", "wait",
                       "unknown"}
  PROVE  \A q \in Operation : ~Occupied(q) /\ unit[q] # "running"
  BY DEF WriteInv, Alone, AloneOf

LEMMA AloneClears ==
  ASSUME WriteInv, \A q \in Operation : ~Occupied(q)' /\ unit'[q] # "running",
         phase' \notin {"admission", "occupy", "launch", "wait"},
         \A q \in Operation : thread'[q] \in Waiting => thread[q] \in Waiting /\ unit'[q] = unit[q]
  PROVE  Alone'
  BY DEF WriteInv, Alone, AloneOf

LEMMA AloneStays ==
  ASSUME WriteInv, UNCHANGED <<journal, unit>>,
         \A q \in Operation : (Unresolved(q)' <=> Unresolved(q)) /\ (Occupied(q)' <=> Occupied(q)),
         phase' \in {"idle", "admission", "return", "ack", "released"},
         \A q \in Operation :
           thread'[q] \in Waiting \/ (HasLease(q, "gateway")' /\ phase' = "admission")
             => thread[q] \in Waiting
  PROVE  Alone'
  BY DEF WriteInv, Alone, AloneOf

\* What is said of the operation whose outcome is known.
LEMMA SpokenAfter ==
  ASSUME WriteInv, NEW o \in Operation, lease # Nothing, lease.op = o,
         phase \notin Trying \cup AckPhases \cup {"released"}, phase' \notin Trying, Speaks',
         UNCHANGED <<lease, thread, result, settled>>,
         \A q \in Operation \ {o} : trace'[q] = trace[q] /\ shared'[q] = shared[q]
  PROVE  Spoken'
<1>1. thread[o] \notin Waiting
  BY HolderFacts DEF WriteInv, Leased
<1>2. ASSUME NEW q \in Operation PROVE SpokenOf(q)'
  <2>1. ~Attempting(q)'
    BY DEF Attempting
  <2>2. CASE q = o
    BY <1>1, <2>1, <2>2 DEF WriteInv, Spoken, SpokenOf
  <2>3. CASE q # o
    BY <2>1, <2>3 DEF WriteInv, Spoken, SpokenOf, Silent
  <2> QED
    BY <2>2, <2>3
<1> QED
  BY <1>2 DEF Spoken

\* The entries of the change set.
LEMMA DiffLength ==
  /\ Len(Diff) \in Nat /\ Entry = 1 .. Len(Diff) /\ (Diff = <<>> <=> Len(Diff) = 0)
  /\ \A e \in Entry : /\ Diff[e].does \in {"add", "modify", "delete"}
                      /\ Diff[e].kind \in {"file", "directory"}
<1> DEFINE R == [does : {"add", "modify", "delete"}, kind : {"file", "directory"}, up : Nat]
<1>1. Diff \in Seq(R)
  BY PublishAssumption
<1>2. Len(Diff) \in Nat /\ Entry = 1 .. Len(Diff) /\ (Diff = <<>> <=> Len(Diff) = 0)
  BY <1>1, EmptySeq DEF Entry
<1>3. ASSUME NEW e \in Entry PROVE Diff[e] \in R
  <2> HIDE DEF R
  <2> QED
    BY <1>1, <1>2, ElementOfSeq
<1> QED
  BY <1>2, <1>3

\* An operation is admitted.
LEMMA OperationIsAdmitted ==
  ASSUME WriteInv, NEW o \in Operation, Admit(o)
  PROVE  WriteInv'
<1>1. WriteTypeOK'
  BY DEF WriteInv, WriteTypeOK, PublishTypeOK, Admit, Goes, publisher, disk, records
<1>2. Leased'
  BY DEF WriteInv, WriteTypeOK, PublishTypeOK, Leased, Admit, Goes, publisher, disk, records
<1>3. Spoken'
  BY
     DEF WriteInv, WriteTypeOK, PublishTypeOK, Leased, Spoken, SpokenOf, Speaks, Silent,
         Attempting, Admit, Goes, publisher, disk, records
<1>4. JournalProves'
  BY JournalStays DEF Admit, Goes, publisher, disk, records
<1>5. JournalFits'
  BY
     DEF WriteInv, WriteTypeOK, PublishTypeOK, Leased, JournalFits, JournalProves, At,
         Pending, NoJournal, Admit, Goes, publisher, disk, records
<1>6. TreeFits'
  BY TreeKept DEF Admit, Goes, publisher, disk, records
<1>7. Alone'
  BY
     DEF WriteInv, WriteTypeOK, PublishTypeOK, Leased, Alone, AloneOf, Spoken, SpokenOf,
         JournalFits, Unresolved, Occupied, Silent, Attempting, Admit, Goes, publisher, disk,
         records
<1>8. RecordsMatchTree'
  BY RecordsStay DEF Admit, Goes, publisher, disk, records
<1> QED
  BY <1>1, <1>2, <1>3, <1>4, <1>5, <1>6, <1>7, <1>8 DEF WriteInv

\* The worker of an operation has stopped.
LEMMA WorkerHasStopped ==
  ASSUME WriteInv, NEW o \in Operation, StopWorker(o)
  PROVE  WriteInv'
<1>1. WriteTypeOK'
  BY DEF WriteInv, WriteTypeOK, PublishTypeOK, StopWorker, Goes, publisher, disk, records
<1>2. Leased'
  BY
     DEF WriteInv, WriteTypeOK, PublishTypeOK, Leased, StopWorker, Goes, publisher, disk,
         records
<1>3. Spoken'
  BY
     DEF WriteInv, WriteTypeOK, PublishTypeOK, Leased, Spoken, SpokenOf, Speaks, Silent,
         Attempting, StopWorker, Goes, publisher, disk, records
<1>4. JournalProves'
  BY JournalStays DEF StopWorker, Goes, publisher, disk, records
<1>5. JournalFits'
  BY
     DEF WriteInv, WriteTypeOK, PublishTypeOK, Leased, JournalFits, JournalProves, At,
         Pending, NoJournal, StopWorker, Goes, publisher, disk, records
<1>6. TreeFits'
  BY TreeKept DEF StopWorker, Goes, publisher, disk, records
<1>7. Alone'
  BY
     DEF WriteInv, WriteTypeOK, PublishTypeOK, Leased, Alone, AloneOf, Spoken, SpokenOf,
         JournalFits, Unresolved, Occupied, Silent, Attempting, StopWorker, Goes, publisher,
         disk, records
<1>8. RecordsMatchTree'
  BY RecordsStay DEF StopWorker, Goes, publisher, disk, records
<1> QED
  BY <1>1, <1>2, <1>3, <1>4, <1>5, <1>6, <1>7, <1>8 DEF WriteInv

\* An operation is refused before its lease.
LEMMA OperationIsRefused ==
  ASSUME WriteInv, NEW o \in Operation, Refuse(o)
  PROVE  WriteInv'
<1>1. /\ thread[o] \in {"admitted", "proposed"}
      /\ UNCHANGED <<tree, temp, journal, place, phase, lease, settled, subject, auth, faults>>
      /\ UNCHANGED <<trace, shared, unit>>
  BY DEF Refuse, publisher, disk, records
<1>2. /\ thread' \in [Operation -> Threads] /\ thread'[o] = "gone"
      /\ \A q \in Operation \ {o} : thread'[q] = thread[q]
  BY Went DEF Refuse, WriteInv, WriteTypeOK
<1>3. /\ stream' \in [Operation -> {"none", "requested", "stopped", "finished"}]
      /\ result' \in [Operation -> Results] /\ result'[o] = "refused"
      /\ \A q \in Operation \ {o} : result'[q] = result[q]
  BY Finished DEF Refuse, WriteInv, WriteTypeOK
<1>4. WriteTypeOK'
  BY <1>1, <1>2, <1>3 DEF WriteInv, WriteTypeOK, PublishTypeOK
<1>5. Leased'
  BY <1>1, <1>2, <1>3 DEF WriteInv, WriteTypeOK, PublishTypeOK, Leased
<1>6. Spoken'
  BY <1>1, <1>2, <1>3
     DEF WriteInv, WriteTypeOK, PublishTypeOK, Leased, Spoken, SpokenOf, Speaks, Silent,
         Attempting
<1>7. JournalProves'
  BY <1>1, <1>2, <1>3, JournalStays
<1>8. JournalFits'
  BY <1>1, <1>2, <1>3
     DEF WriteInv, WriteTypeOK, PublishTypeOK, Leased, JournalFits, JournalProves, At,
         Pending, NoJournal
<1>9. TreeFits'
  BY <1>1, TreeKept
<1>10. Alone'
  BY <1>1, <1>2, <1>3
     DEF WriteInv, WriteTypeOK, PublishTypeOK, Leased, Alone, AloneOf, Spoken, SpokenOf,
         JournalFits, Unresolved, Occupied, Silent, Attempting
<1>11. RecordsMatchTree'
  BY <1>1, <1>3 DEF WriteInv, RecordsMatchTree, Says, Spoken, SpokenOf, Silent
<1> QED
  BY <1>4, <1>5, <1>6, <1>7, <1>8, <1>9, <1>10, <1>11 DEF WriteInv

\* The terminal event of an operation.
LEMMA OperationIsFinished ==
  ASSUME WriteInv, NEW o \in Operation, Finish(o)
  PROVE  WriteInv'
<1>1. /\ thread[o] = "returned"
      /\ UNCHANGED <<tree, temp, journal, place, phase, lease, settled, subject, auth, faults>>
      /\ UNCHANGED <<trace, shared, unit>>
  BY DEF Finish, publisher, disk, records
<1>2. \E r \in Results :
        /\ Finishes(o, r) /\ Goes(o, IF r = "published" THEN "acknowledge" ELSE "gone")
        /\ r = "published" => trace[o].terminal = "completed"
        /\ r = "failed" => trace[o].terminal = "not_applied"
  BY DEF Finish
<1>3. PICK r \in Results :
        /\ Finishes(o, r) /\ Goes(o, IF r = "published" THEN "acknowledge" ELSE "gone")
        /\ r = "published" => trace[o].terminal = "completed"
        /\ r = "failed" => trace[o].terminal = "not_applied"
  BY <1>2
<1>4. /\ thread' \in [Operation -> Threads]
      /\ thread'[o] = "acknowledge" => r = "published"
      /\ thread'[o] \in {"acknowledge", "gone"}
      /\ \A q \in Operation \ {o} : thread'[q] = thread[q]
  BY <1>3, Went DEF WriteInv, WriteTypeOK
<1>5. /\ stream' \in [Operation -> {"none", "requested", "stopped", "finished"}]
      /\ result' \in [Operation -> Results] /\ result'[o] = r
      /\ \A q \in Operation \ {o} : result'[q] = result[q]
      /\ result'[o] = "published" => trace[o].terminal = "completed"
      /\ result'[o] = "failed" => trace[o].terminal = "not_applied"
  BY <1>3, Finished DEF WriteInv, WriteTypeOK
<1>6. thread'[o] = "acknowledge" => result'[o] = "published"
  BY <1>4, <1>5
<1>7. WriteTypeOK'
  BY <1>1, <1>4, <1>5, <1>6 DEF WriteInv, WriteTypeOK, PublishTypeOK
<1>8. Leased'
  BY <1>1, <1>4, <1>5, <1>6 DEF WriteInv, WriteTypeOK, PublishTypeOK, Leased
<1>9. Spoken'
  BY <1>1, <1>4, <1>5, <1>6
     DEF WriteInv, WriteTypeOK, PublishTypeOK, Leased, Spoken, SpokenOf, Speaks, Silent,
         Attempting
<1>10. JournalProves'
  BY <1>1, <1>4, <1>5, <1>6, JournalStays
<1>11. JournalFits'
  BY <1>1, <1>4, <1>5, <1>6
     DEF WriteInv, WriteTypeOK, PublishTypeOK, Leased, JournalFits, JournalProves, At,
         Pending, NoJournal
<1>12. TreeFits'
  BY <1>1, TreeKept
<1>13. Alone'
  BY <1>1, <1>4, <1>5, <1>6
     DEF WriteInv, WriteTypeOK, PublishTypeOK, Leased, Alone, AloneOf, Spoken, SpokenOf,
         JournalFits, Unresolved, Occupied, Silent, Attempting
<1>14. RecordsMatchTree'
  BY <1>1, <1>5 DEF WriteInv, RecordsMatchTree, Says, Spoken, SpokenOf, Silent
<1> QED
  BY <1>7, <1>8, <1>9, <1>10, <1>11, <1>12, <1>13, <1>14 DEF WriteInv

\* The service takes the lease to release the journal.
LEMMA OwnJournalIsTaken ==
  ASSUME WriteInv, NEW o \in Operation, AcknowledgeOwn(o)
  PROVE  WriteInv'
<1>1. /\ thread[o] = "acknowledge"
      /\ UNCHANGED <<tree, temp, journal, place, settled, subject, auth, faults>>
      /\ UNCHANGED <<stream, result, trace, shared, unit>>
      /\ \/ lease = Nothing /\ lease' = [op |-> o, by |-> "service"] /\ phase' = "ack"
         \/ UNCHANGED <<lease, phase>>
  BY DEF AcknowledgeOwn, Acquire, disk, records
<1>2. /\ thread' \in [Operation -> Threads] /\ thread'[o] = "gone"
      /\ \A q \in Operation \ {o} : thread'[q] = thread[q]
  BY Went DEF AcknowledgeOwn, WriteInv, WriteTypeOK
<1>3. journal.op = o => journal.state # "prepared"
  BY <1>1 DEF WriteInv, Spoken, SpokenOf, RecordsMatchTree, JournalProves
<1>4. WriteTypeOK'
  BY <1>1, <1>2, <1>3 DEF WriteInv, WriteTypeOK, PublishTypeOK
<1>5. Leased'
  BY <1>1, <1>2, <1>3 DEF WriteInv, WriteTypeOK, PublishTypeOK, Leased
<1>6. Spoken'
  BY <1>1, <1>2, <1>3
     DEF WriteInv, WriteTypeOK, PublishTypeOK, Leased, Spoken, SpokenOf, Speaks, Silent,
         Attempting
<1>7. JournalProves'
  BY <1>1, <1>2, <1>3, JournalStays
<1>8. JournalFits'
  BY <1>1, <1>2, <1>3
     DEF WriteInv, WriteTypeOK, PublishTypeOK, Leased, JournalFits, JournalProves, At,
         Pending, NoJournal
<1>9. TreeFits'
  BY <1>1, TreeStays, TreeKept
<1>10. Alone'
  BY <1>1, <1>2, <1>3
     DEF WriteInv, WriteTypeOK, PublishTypeOK, Leased, Alone, AloneOf, Spoken, SpokenOf,
         JournalFits, Unresolved, Occupied, Silent, Attempting
<1>11. RecordsMatchTree'
  BY <1>1, <1>2, <1>3, RecordsStay
<1> QED
  BY <1>4, <1>5, <1>6, <1>7, <1>8, <1>9, <1>10, <1>11 DEF WriteInv

\* The gateway takes the lease.
LEMMA LeaseIsTaken ==
  ASSUME WriteInv, NEW o \in Operation, Lease(o)
  PROVE  WriteInv'
<1>1. /\ thread[o] = "proposed"
      /\ lease = Nothing /\ lease' = [op |-> o, by |-> "gateway"] /\ phase' = "admission"
      /\ UNCHANGED <<tree, temp, journal, place, settled, subject, auth, faults>>
      /\ UNCHANGED <<stream, result, trace, shared, unit>>
  BY DEF Lease, Acquire, disk, records
<1>2. /\ thread' \in [Operation -> Threads] /\ thread'[o] = "gateway"
      /\ \A q \in Operation \ {o} : thread'[q] = thread[q]
  BY Went DEF Lease, WriteInv, WriteTypeOK
<1>3. /\ lease'.op = o /\ lease'.by = "gateway" /\ lease' # Nothing
      /\ \A q \in Operation : lease' = [op |-> q, by |-> "gateway"] <=> q = o
  BY <1>1
<1>4. WriteTypeOK'
  BY <1>1, <1>2, <1>3 DEF WriteInv, WriteTypeOK, PublishTypeOK
<1>5. Leased'
  BY <1>1, <1>2, <1>3 DEF WriteInv, WriteTypeOK, PublishTypeOK, Leased
<1>6. Spoken'
  BY <1>1, <1>2, <1>3
     DEF WriteInv, WriteTypeOK, PublishTypeOK, Leased, Spoken, SpokenOf, Speaks, Silent,
         Attempting
<1>7. JournalProves'
  BY <1>1, <1>2, <1>3, JournalStays
<1>8. JournalFits'
  BY <1>1, <1>2, <1>3
     DEF WriteInv, WriteTypeOK, PublishTypeOK, Leased, JournalFits, JournalProves, At,
         Pending, NoJournal
<1>9. TreeFits'
  BY <1>1, TreeStays
<1>10. Alone'
  BY <1>1, <1>2, <1>3
     DEF WriteInv, WriteTypeOK, PublishTypeOK, Leased, Alone, AloneOf, Spoken, SpokenOf,
         JournalFits, Unresolved, Occupied, Silent, Attempting
<1>11. RecordsMatchTree'
  BY <1>1, <1>2, <1>3, RecordsStay
<1> QED
  BY <1>4, <1>5, <1>6, <1>7, <1>8, <1>9, <1>10, <1>11 DEF WriteInv

\* The gateway gives the lease up and hands what happened to the service.
LEMMA LeaseGoesBack ==
  ASSUME WriteInv, NEW o \in Operation, HasLease(o, "gateway"), Returns(o),
         faults' \in 0 .. MaxFaults,
         UNCHANGED <<disk, place, auth, subject, settled, records, unit>>
  PROVE  WriteInv'
<1>1. /\ HasLease(o, "gateway")
      /\ lease' = Nothing /\ phase' = "idle" /\ faults' \in 0 .. MaxFaults
      /\ UNCHANGED <<tree, temp, journal, place, settled, subject, auth>>
      /\ UNCHANGED <<stream, result, trace, shared, unit>>
  BY DEF Returns, Release, disk, records
<1>2. /\ thread' \in [Operation -> Threads] /\ thread'[o] = "returned"
      /\ \A q \in Operation \ {o} : thread'[q] = thread[q]
  BY Went DEF Returns, WriteInv, WriteTypeOK
<1>3. \A q \in Operation : thread[q] = "gateway" <=> q = o
  BY <1>1, HolderIs
<1>4. WriteTypeOK'
  BY <1>1, <1>2, <1>3 DEF WriteInv, WriteTypeOK, PublishTypeOK
<1>5. Leased'
  BY <1>1, <1>2, <1>3 DEF Leased
<1>6. Spoken'
  <2>1. Speaks'
    BY <1>1, <1>2, HolderIs DEF WriteInv, Spoken, SpokenOf, Speaks, Attempting
  <2>2. \A q \in Operation : Attempting(q)' => Attempting(q)
    BY <1>1, <1>2 DEF Attempting
  <2>3. \A q \in Operation : Silent(q)' <=> Silent(q)
    BY <1>1, <1>2, RecordsStay
  <2>4. \A q \in Operation :
          /\ thread'[q] \in Waiting => thread[q] \in Waiting /\ ~trace'[q].start
          /\ thread'[q] = "acknowledge" => thread[q] = "acknowledge" /\ result'[q] = result[q]
    BY <1>1, <1>2 DEF WriteInv, Spoken, SpokenOf
  <2> QED
    BY <1>1, <1>2, <2>1, <2>2, <2>3, <2>4, SpokenStays
<1>7. JournalProves'
  BY <1>1, <1>2, <1>3, JournalStays
<1>8. JournalFits'
  BY <1>1, <1>2, <1>3
     DEF WriteInv, WriteTypeOK, PublishTypeOK, Leased, JournalFits, JournalProves, At,
         Pending, NoJournal
<1>9. TreeFits'
  BY <1>1, TreeStays
<1>10. Alone'
  BY <1>1, <1>2, AloneStays DEF Unresolved, Occupied
<1>11. RecordsMatchTree'
  BY <1>1, <1>2, <1>3, RecordsStay
<1> QED
  BY <1>4, <1>5, <1>6, <1>7, <1>8, <1>9, <1>10, <1>11 DEF WriteInv

\* The gateway returns at the end of its call, or refuses at its admission.
LEMMA GatewayReturns ==
  ASSUME WriteInv, NEW o \in Operation, Return(o)
  PROVE  WriteInv'
<1>1. HasLease(o, "gateway") /\ Returns(o) /\ faults' \in 0 .. MaxFaults
  BY DEF Return, Gateway, WriteInv, WriteTypeOK, PublishTypeOK
<1>2. UNCHANGED <<disk, place, auth, subject, settled, records, unit>>
  BY DEF Return
<1> QED
  BY <1>1, <1>2, LeaseGoesBack

\* The candidate ends.
LEMMA CandidateExits ==
  ASSUME WriteInv, NEW o \in Operation, Exit(o)
  PROVE  WriteInv'
<1>1. WriteTypeOK'
  BY DEF WriteInv, WriteTypeOK, PublishTypeOK, Exit, publisher, disk, records
<1>2. Leased'
  BY DEF WriteInv, WriteTypeOK, PublishTypeOK, Leased, Exit, publisher, disk, records
<1>3. Spoken'
  BY
     DEF WriteInv, WriteTypeOK, PublishTypeOK, Leased, Spoken, SpokenOf, Speaks, Silent,
         Attempting, Exit, publisher, disk, records
<1>4. JournalProves'
  BY JournalStays DEF Exit, publisher, disk, records
<1>5. JournalFits'
  BY
     DEF WriteInv, WriteTypeOK, PublishTypeOK, Leased, JournalFits, JournalProves, At,
         Pending, NoJournal, Exit, publisher, disk, records
<1>6. TreeFits'
  BY TreeKept DEF Exit, publisher, disk, records
<1>7. Alone'
  BY
     DEF WriteInv, WriteTypeOK, PublishTypeOK, Leased, Alone, AloneOf, Spoken, SpokenOf,
         JournalFits, Unresolved, Occupied, Silent, Attempting, Exit, publisher, disk, records
<1>8. RecordsMatchTree'
  BY RecordsStay DEF Exit, publisher, disk, records
<1> QED
  BY <1>1, <1>2, <1>3, <1>4, <1>5, <1>6, <1>7, <1>8 DEF WriteInv

\* The capability or the approval is consumed.
LEMMA OperationIsStarted ==
  ASSUME WriteInv, NEW o \in Operation, StartOperation(o)
  PROVE  WriteInv'
<1>1. /\ HasLease(o, "gateway") /\ thread[o] = "gateway"
      /\ phase = "admission" /\ phase' = "occupy"
      /\ journal = NoJournal /\ \A q \in Operation : ~Unresolved(q) /\ ~Occupied(q)
      /\ UNCHANGED <<tree, temp, journal, place, lease, settled, subject, auth, faults>>
      /\ UNCHANGED <<thread, stream, result>>
      /\ UNCHANGED <<shared, unit>>
  BY DEF StartOperation, fixed, disk, Gateway, Moves, WriteInv, Leased, JournalProves
<1>2. /\ trace' \in [Operation -> Traces] /\ trace'[o].start
      /\ \A q \in Operation \ {o} : trace'[q] = trace[q]
      /\ trace'[o].terminal = trace[o].terminal /\ trace'[o].receipt = trace[o].receipt
      /\ trace'[o].resolution = trace[o].resolution /\ trace'[o].captured = trace[o].captured
      /\ trace'[o].intent = trace[o].intent
  BY NotedTrue DEF StartOperation, TraceField, WriteInv, WriteTypeOK
<1>3. \A q \in Operation :
        /\ trace'[q].terminal = trace[q].terminal /\ trace'[q].receipt = trace[q].receipt
        /\ trace'[q].resolution = trace[q].resolution
  BY <1>2
<1>4. \A q \in Operation : ~Unresolved(q)' /\ ~Occupied(q)' /\ unit'[q] # "running"
  <2>1. \A q \in Operation : ~Unresolved(q)' /\ ~Occupied(q)'
    BY <1>1, <1>2 DEF Unresolved, Occupied
  <2> QED
    BY <1>1, <2>1 DEF WriteInv, Alone, AloneOf
<1>5. WriteTypeOK'
  BY <1>1, <1>2, <1>3 DEF WriteInv, WriteTypeOK, PublishTypeOK
<1>6. Leased'
  BY <1>1, <1>2, <1>3 DEF WriteInv, WriteTypeOK, PublishTypeOK, Leased
<1>7. Spoken'
  BY <1>1, <1>2, <1>3
     DEF WriteInv, WriteTypeOK, PublishTypeOK, Leased, Spoken, SpokenOf, Speaks, Silent,
         Attempting
<1>8. JournalProves'
  BY <1>1, <1>2, <1>3, JournalStays
<1>9. JournalFits'
  BY <1>1, <1>2, <1>3
     DEF WriteInv, WriteTypeOK, PublishTypeOK, Leased, JournalFits, JournalProves, At,
         Pending, NoJournal
<1>10. TreeFits'
  BY <1>1, TreeStays
<1>11. Alone'
  BY <1>1, <1>4 DEF WriteInv, Alone, AloneOf
<1>12. RecordsMatchTree'
  BY <1>1, <1>2, <1>3, RecordsStay
<1> QED
  BY <1>5, <1>6, <1>7, <1>8, <1>9, <1>10, <1>11, <1>12 DEF WriteInv

\* The intent to run a candidate.
LEMMA WorkspaceIsOccupied ==
  ASSUME WriteInv, NEW o \in Operation, auth[o], Occupy(o)
  PROVE  WriteInv'
<1>1. /\ HasLease(o, "gateway") /\ thread[o] = "gateway"
      /\ phase = "occupy" /\ phase' = "launch" /\ Announces(o, "running", "intended")
      /\ UNCHANGED <<tree, temp, journal, place, lease, settled, subject, auth, faults>>
      /\ UNCHANGED <<thread, stream, result>>
      /\ UNCHANGED <<trace, unit>>
  BY DEF Occupy, fixed, disk, Gateway, Moves, WriteInv, Leased
<1>2. shared' \in [Operation -> Shares]
  BY AnnouncedTyped DEF Occupy, ShareField, WriteInv, WriteTypeOK
<1>3. /\ \A q \in Operation \ {o} : shared'[q] = shared[q]
      /\ shared'[o].running = "intended"
      /\ shared'[o].resolution = shared[o].resolution /\ shared'[o].intent = shared[o].intent
  BY Announced DEF Occupy, ShareField, WriteInv, WriteTypeOK
<1>4. \A q \in Operation : shared'[q].resolution = shared[q].resolution
  BY <1>3
<1>5. \A q \in Operation : ~Unresolved(q)' /\ (Occupied(q)' <=> q = o) /\ unit'[q] # "running"
  <2>1. \A q \in Operation : ~Unresolved(q)' /\ (Occupied(q)' <=> q = o)
    BY <1>1, <1>3 DEF WriteInv, Alone, Unresolved, Occupied
  <2>2. \A q \in Operation : unit[q] # "running"
    BY <1>1 DEF WriteInv, Alone, AloneOf
  <2> QED
    BY <1>1, <2>1, <2>2
<1>6. WriteTypeOK'
  BY <1>1, <1>2, <1>3, <1>4 DEF WriteInv, WriteTypeOK, PublishTypeOK
<1>7. Leased'
  BY <1>1, <1>2, <1>3, <1>4 DEF WriteInv, WriteTypeOK, PublishTypeOK, Leased
<1>8. Spoken'
  BY <1>1, <1>2, <1>3, <1>4
     DEF WriteInv, WriteTypeOK, PublishTypeOK, Leased, Spoken, SpokenOf, Speaks, Silent,
         Attempting
<1>9. JournalProves'
  BY <1>1, <1>2, <1>3, <1>4, JournalStays
<1>10. JournalFits'
  BY <1>1, <1>2, <1>3, <1>4
     DEF WriteInv, WriteTypeOK, PublishTypeOK, Leased, JournalFits, JournalProves, At,
         Pending, NoJournal
<1>11. TreeFits'
  BY <1>1, TreeStays
<1>12. Alone'
  BY <1>1, <1>5 DEF WriteInv, Leased, Alone, AloneOf, JournalFits
<1>13. RecordsMatchTree'
  BY <1>1, <1>2, <1>3, <1>4, RecordsStay
<1> QED
  BY <1>6, <1>7, <1>8, <1>9, <1>10, <1>11, <1>12, <1>13 DEF WriteInv

\* Authority is lost before the workspace is occupied.
LEMMA OccupationIsCancelled ==
  ASSUME WriteInv, NEW o \in Operation, ~auth[o], Occupy(o)
  PROVE  WriteInv'
<1>1. /\ HasLease(o, "gateway") /\ thread[o] = "gateway"
      /\ phase = "occupy" /\ phase' = "cancel"
      /\ UNCHANGED <<tree, temp, journal, place, lease, settled, subject, auth, faults>>
      /\ UNCHANGED <<thread, stream, result>>
      /\ UNCHANGED <<trace, shared, unit>>
  BY DEF Occupy, fixed, disk, Gateway, Moves, WriteInv, Leased
<1>2. WriteTypeOK'
  BY <1>1 DEF WriteInv, WriteTypeOK, PublishTypeOK
<1>3. Leased'
  BY <1>1 DEF WriteInv, WriteTypeOK, PublishTypeOK, Leased
<1>4. Spoken'
  BY <1>1
     DEF WriteInv, WriteTypeOK, PublishTypeOK, Leased, Spoken, SpokenOf, Speaks, Silent,
         Attempting
<1>5. JournalProves'
  BY <1>1, JournalStays
<1>6. JournalFits'
  BY <1>1
     DEF WriteInv, WriteTypeOK, PublishTypeOK, Leased, JournalFits, JournalProves, At,
         Pending, NoJournal
<1>7. TreeFits'
  BY <1>1, TreeStays
<1>8. Alone'
  BY <1>1
     DEF WriteInv, WriteTypeOK, PublishTypeOK, Leased, Alone, AloneOf, Spoken, SpokenOf,
         JournalFits, Unresolved, Occupied, Silent, Attempting
<1>9. RecordsMatchTree'
  BY <1>1, RecordsStay
<1> QED
  BY <1>2, <1>3, <1>4, <1>5, <1>6, <1>7, <1>8, <1>9 DEF WriteInv

\* The candidate could not be started.
LEMMA CandidateIsNotStarted ==
  ASSUME WriteInv, NEW o \in Operation, NotStarted(o)
  PROVE  WriteInv'
<1>1. /\ HasLease(o, "gateway") /\ thread[o] = "gateway"
      /\ phase = "launch" /\ phase' = "cancel"
      /\ UNCHANGED <<tree, temp, journal, place, lease, settled, subject, auth, faults>>
      /\ UNCHANGED <<thread, stream, result>>
      /\ UNCHANGED <<trace, unit>>
  BY DEF NotStarted, fixed, disk, Gateway, Moves, WriteInv, Leased
<1>2. shared' \in [Operation -> Shares]
  BY AnnouncedTyped DEF NotStarted, ShareField, WriteInv, WriteTypeOK
<1>3. /\ \A q \in Operation \ {o} : shared'[q] = shared[q]
      /\ shared'[o].running = "stopped"
      /\ shared'[o].resolution = shared[o].resolution /\ shared'[o].intent = shared[o].intent
  BY Announced DEF NotStarted, ShareField, WriteInv, WriteTypeOK
<1>4. \A q \in Operation : shared'[q].resolution = shared[q].resolution
  BY <1>3
<1>5. \A q \in Operation : ~Occupied(q)' /\ unit'[q] # "running"
  <2>1. Occupied(o) /\ \A q \in Operation \ {o} : ~Occupied(q)
    BY <1>1, HolderIs DEF WriteInv, Alone, AloneOf
  <2>2. \A q \in Operation : ~Occupied(q)'
    BY <1>1, <1>3, <2>1 DEF Occupied
  <2>3. \A q \in Operation : unit[q] # "running"
    BY <1>1, <2>1 DEF WriteInv, Alone, AloneOf
  <2> QED
    BY <1>1, <2>2, <2>3
<1>6. WriteTypeOK'
  BY <1>1, <1>2, <1>3, <1>4 DEF WriteInv, WriteTypeOK, PublishTypeOK
<1>7. Leased'
  BY <1>1, <1>2, <1>3, <1>4 DEF WriteInv, WriteTypeOK, PublishTypeOK, Leased
<1>8. Spoken'
  <2>1. Speaks'
    BY <1>1, <1>2, <1>3, <1>4, HolderIs DEF WriteInv, Spoken, SpokenOf, Speaks, Attempting
  <2>2. \A q \in Operation : Attempting(q)' => Attempting(q)
    BY <1>1, <1>2, <1>3, <1>4 DEF Attempting
  <2>3. \A q \in Operation : Silent(q)' <=> Silent(q)
    BY <1>1, <1>2, <1>3, <1>4, RecordsStay
  <2>4. \A q \in Operation :
          /\ thread'[q] \in Waiting => thread[q] \in Waiting /\ ~trace'[q].start
          /\ thread'[q] = "acknowledge" => thread[q] = "acknowledge" /\ result'[q] = result[q]
    BY <1>1, <1>2, <1>3, <1>4 DEF WriteInv, Spoken, SpokenOf
  <2> QED
    BY <1>1, <1>2, <1>3, <1>4, <2>1, <2>2, <2>3, <2>4, SpokenStays
<1>9. JournalProves'
  BY <1>1, <1>2, <1>3, <1>4, JournalStays
<1>10. JournalFits'
  BY <1>1, <1>2, <1>3, <1>4
     DEF WriteInv, WriteTypeOK, PublishTypeOK, Leased, JournalFits, JournalProves, At,
         Pending, NoJournal
<1>11. TreeFits'
  BY <1>1, TreeStays
<1>12. Alone'
  BY <1>1, <1>5, AloneClears
<1>13. RecordsMatchTree'
  BY <1>1, <1>2, <1>3, <1>4, RecordsStay
<1> QED
  BY <1>6, <1>7, <1>8, <1>9, <1>10, <1>11, <1>12, <1>13 DEF WriteInv

\* The stop of the candidate is recorded.
LEMMA CandidateIsCollected ==
  ASSUME WriteInv, NEW o \in Operation, Collect(o)
  PROVE  WriteInv'
<1>1. /\ HasLease(o, "gateway") /\ thread[o] = "gateway"
      /\ phase = "wait" /\ phase' \in {"cancel", "intend"} /\ unit[o] = "exited"
      /\ UNCHANGED <<tree, temp, journal, place, lease, settled, subject, auth, faults>>
      /\ UNCHANGED <<thread, stream, result>>
      /\ UNCHANGED <<trace, unit>>
  BY DEF Collect, fixed, disk, Gateway, Moves, WriteInv, Leased
<1>2. shared' \in [Operation -> Shares]
  BY AnnouncedTyped DEF Collect, ShareField, WriteInv, WriteTypeOK
<1>3. /\ \A q \in Operation \ {o} : shared'[q] = shared[q]
      /\ shared'[o].running = "stopped"
      /\ shared'[o].resolution = shared[o].resolution /\ shared'[o].intent = shared[o].intent
  BY Announced DEF Collect, ShareField, WriteInv, WriteTypeOK
<1>4. \A q \in Operation : shared'[q].resolution = shared[q].resolution
  BY <1>3
<1>5. \A q \in Operation : ~Occupied(q)' /\ unit'[q] # "running"
  <2>1. Occupied(o) /\ \A q \in Operation \ {o} : ~Occupied(q)
    BY <1>1, HolderIs DEF WriteInv, Alone, AloneOf
  <2>2. \A q \in Operation : ~Occupied(q)'
    BY <1>1, <1>3, <2>1 DEF Occupied
  <2>3. \A q \in Operation : unit[q] # "running"
    BY <1>1, <2>1 DEF WriteInv, Alone, AloneOf
  <2> QED
    BY <1>1, <2>2, <2>3
<1>6. WriteTypeOK'
  BY <1>1, <1>2, <1>3, <1>4 DEF WriteInv, WriteTypeOK, PublishTypeOK
<1>7. Leased'
  BY <1>1, <1>2, <1>3, <1>4 DEF WriteInv, WriteTypeOK, PublishTypeOK, Leased
<1>8. Spoken'
  BY <1>1, <1>2, <1>3, <1>4
     DEF WriteInv, WriteTypeOK, PublishTypeOK, Leased, Spoken, SpokenOf, Speaks, Silent,
         Attempting
<1>9. JournalProves'
  BY <1>1, <1>2, <1>3, <1>4, JournalStays
<1>10. JournalFits'
  BY <1>1, <1>2, <1>3, <1>4
     DEF WriteInv, WriteTypeOK, PublishTypeOK, Leased, JournalFits, JournalProves, At,
         Pending, NoJournal
<1>11. TreeFits'
  BY <1>1, TreeStays
<1>12. Alone'
  BY <1>1, <1>5, AloneClears
<1>13. RecordsMatchTree'
  BY <1>1, <1>2, <1>3, <1>4, RecordsStay
<1> QED
  BY <1>6, <1>7, <1>8, <1>9, <1>10, <1>11, <1>12, <1>13 DEF WriteInv

\* The stop of the candidate cannot be confirmed.
LEMMA StopIsUnconfirmed ==
  ASSUME WriteInv, NEW o \in Operation, Unconfirmed(o)
  PROVE  WriteInv'
<1>1. /\ HasLease(o, "gateway") /\ thread[o] = "gateway"
      /\ phase = "wait" /\ phase' = "unknown"
      /\ UNCHANGED <<tree, temp, journal, place, lease, settled, subject, auth, faults>>
      /\ UNCHANGED <<thread, stream, result>>
      /\ UNCHANGED <<trace, shared, unit>>
  BY DEF Unconfirmed, fixed, disk, Gateway, Moves, WriteInv, Leased
<1>2. WriteTypeOK'
  BY <1>1 DEF WriteInv, WriteTypeOK, PublishTypeOK
<1>3. Leased'
  BY <1>1 DEF WriteInv, WriteTypeOK, PublishTypeOK, Leased
<1>4. Spoken'
  BY <1>1
     DEF WriteInv, WriteTypeOK, PublishTypeOK, Leased, Spoken, SpokenOf, Speaks, Silent,
         Attempting
<1>5. JournalProves'
  BY <1>1, JournalStays
<1>6. JournalFits'
  BY <1>1
     DEF WriteInv, WriteTypeOK, PublishTypeOK, Leased, JournalFits, JournalProves, At,
         Pending, NoJournal
<1>7. TreeFits'
  BY <1>1, TreeStays
<1>8. Alone'
  BY <1>1
     DEF WriteInv, WriteTypeOK, PublishTypeOK, Leased, Alone, AloneOf, Spoken, SpokenOf,
         JournalFits, Unresolved, Occupied, Silent, Attempting
<1>9. RecordsMatchTree'
  BY <1>1, RecordsStay
<1> QED
  BY <1>2, <1>3, <1>4, <1>5, <1>6, <1>7, <1>8, <1>9 DEF WriteInv

\* The intent of the publication in the streams of the workspace.
LEMMA PublicationIsIntended ==
  ASSUME WriteInv, NEW o \in Operation, phase = "intend", auth[o], Intend(o)
  PROVE  WriteInv'
<1>1. /\ HasLease(o, "gateway") /\ thread[o] = "gateway"
      /\ phase' = "intend_run"
      /\ UNCHANGED <<tree, temp, journal, place, lease, settled, subject, auth, faults>>
      /\ UNCHANGED <<thread, stream, result>>
      /\ UNCHANGED <<trace, unit>>
  BY DEF Intend, fixed, disk, Gateway, Moves, WriteInv, Leased
<1>2. shared' \in [Operation -> Shares]
  BY AnnouncedTyped DEF Intend, Gateway, ShareField, WriteInv, WriteTypeOK
<1>3. /\ \A q \in Operation \ {o} : shared'[q] = shared[q]
      /\ shared'[o].intent = TRUE
      /\ shared'[o].resolution = shared[o].resolution /\ shared'[o].running = shared[o].running
  BY Announced DEF Intend, Gateway, ShareField, WriteInv, WriteTypeOK
<1>4. \A q \in Operation : shared'[q].resolution = shared[q].resolution
  BY <1>3
<1>5. \A q \in Operation : ~Occupied(q)' /\ unit'[q] # "running"
  BY <1>1, <1>2, <1>3, <1>4, NotOccupied DEF Occupied
<1>6. WriteTypeOK'
  BY <1>1, <1>2, <1>3, <1>4 DEF WriteInv, WriteTypeOK, PublishTypeOK
<1>7. Leased'
  BY <1>1, <1>2, <1>3, <1>4 DEF WriteInv, WriteTypeOK, PublishTypeOK, Leased
<1>8. Spoken'
  BY <1>1, <1>2, <1>3, <1>4
     DEF WriteInv, WriteTypeOK, PublishTypeOK, Leased, Spoken, SpokenOf, Speaks, Silent,
         Attempting
<1>9. JournalProves'
  BY <1>1, <1>2, <1>3, <1>4, JournalStays
<1>10. JournalFits'
  BY <1>1, <1>2, <1>3, <1>4
     DEF WriteInv, WriteTypeOK, PublishTypeOK, Leased, JournalFits, JournalProves, At,
         Pending, NoJournal
<1>11. TreeFits'
  BY <1>1, TreeStays
<1>12. Alone'
  BY <1>1, <1>5, AloneClears
<1>13. RecordsMatchTree'
  BY <1>1, <1>2, <1>3, <1>4, RecordsStay
<1> QED
  BY <1>6, <1>7, <1>8, <1>9, <1>10, <1>11, <1>12, <1>13 DEF WriteInv

\* Authority is lost before the intent of the publication.
LEMMA PublicationIsCancelled ==
  ASSUME WriteInv, NEW o \in Operation, phase = "intend", ~auth[o], Intend(o)
  PROVE  WriteInv'
<1>1. /\ HasLease(o, "gateway") /\ thread[o] = "gateway"
      /\ phase' = "cancel"
      /\ UNCHANGED <<tree, temp, journal, place, lease, settled, subject, auth, faults>>
      /\ UNCHANGED <<thread, stream, result>>
      /\ UNCHANGED <<trace, shared, unit>>
  BY DEF Intend, fixed, disk, Gateway, Moves, WriteInv, Leased
<1>2. \A q \in Operation : ~Occupied(q)' /\ unit'[q] # "running"
  BY <1>1, NotOccupied DEF Occupied
<1>3. WriteTypeOK'
  BY <1>1 DEF WriteInv, WriteTypeOK, PublishTypeOK
<1>4. Leased'
  BY <1>1 DEF WriteInv, WriteTypeOK, PublishTypeOK, Leased
<1>5. Spoken'
  BY <1>1
     DEF WriteInv, WriteTypeOK, PublishTypeOK, Leased, Spoken, SpokenOf, Speaks, Silent,
         Attempting
<1>6. JournalProves'
  BY <1>1, JournalStays
<1>7. JournalFits'
  BY <1>1
     DEF WriteInv, WriteTypeOK, PublishTypeOK, Leased, JournalFits, JournalProves, At,
         Pending, NoJournal
<1>8. TreeFits'
  BY <1>1, TreeStays
<1>9. Alone'
  BY <1>1, <1>2, AloneClears
<1>10. RecordsMatchTree'
  BY <1>1, RecordsStay
<1> QED
  BY <1>3, <1>4, <1>5, <1>6, <1>7, <1>8, <1>9, <1>10 DEF WriteInv

\* The intent of the publication in the streams of the Run.
LEMMA PublicationIsNoted ==
  ASSUME WriteInv, NEW o \in Operation, phase = "intend_run", Intend(o)
  PROVE  WriteInv'
<1>1. /\ HasLease(o, "gateway") /\ thread[o] = "gateway"
      /\ phase' = "capture"
      /\ UNCHANGED <<tree, temp, journal, place, lease, settled, subject, auth, faults>>
      /\ UNCHANGED <<thread, stream, result>>
      /\ UNCHANGED <<shared, unit>>
  BY DEF Intend, fixed, disk, Gateway, Moves, WriteInv, Leased
<1>2. /\ trace' \in [Operation -> Traces] /\ trace'[o].intent
      /\ \A q \in Operation \ {o} : trace'[q] = trace[q]
      /\ trace'[o].terminal = trace[o].terminal /\ trace'[o].receipt = trace[o].receipt
      /\ trace'[o].resolution = trace[o].resolution /\ trace'[o].start = trace[o].start
      /\ trace'[o].captured = trace[o].captured
  BY NotedTrue DEF Intend, Gateway, TraceField, WriteInv, WriteTypeOK
<1>3. \A q \in Operation :
        /\ trace'[q].terminal = trace[q].terminal /\ trace'[q].receipt = trace[q].receipt
        /\ trace'[q].resolution = trace[q].resolution
  BY <1>2
<1>4. \A q \in Operation : ~Occupied(q)' /\ unit'[q] # "running"
  BY <1>1, <1>2, <1>3, NotOccupied DEF Occupied
<1>5. WriteTypeOK'
  BY <1>1, <1>2, <1>3 DEF WriteInv, WriteTypeOK, PublishTypeOK
<1>6. Leased'
  BY <1>1, <1>2, <1>3 DEF WriteInv, WriteTypeOK, PublishTypeOK, Leased
<1>7. Spoken'
  BY <1>1, <1>2, <1>3
     DEF WriteInv, WriteTypeOK, PublishTypeOK, Leased, Spoken, SpokenOf, Speaks, Silent,
         Attempting
<1>8. JournalProves'
  BY <1>1, <1>2, <1>3, JournalStays
<1>9. JournalFits'
  BY <1>1, <1>2, <1>3
     DEF WriteInv, WriteTypeOK, PublishTypeOK, Leased, JournalFits, JournalProves, At,
         Pending, NoJournal
<1>10. TreeFits'
  BY <1>1, TreeStays
<1>11. Alone'
  BY <1>1, <1>4, AloneClears
<1>12. RecordsMatchTree'
  BY <1>1, <1>2, <1>3, RecordsStay
<1> QED
  BY <1>5, <1>6, <1>7, <1>8, <1>9, <1>10, <1>11, <1>12 DEF WriteInv

\* The captured result.
LEMMA ResultIsCaptured ==
  ASSUME WriteInv, NEW o \in Operation, phase = "capture", Intend(o)
  PROVE  WriteInv'
<1>1. /\ HasLease(o, "gateway") /\ thread[o] = "gateway"
      /\ phase' = "stage"
      /\ UNCHANGED <<tree, temp, journal, place, lease, settled, subject, auth, faults>>
      /\ UNCHANGED <<thread, stream, result>>
      /\ UNCHANGED <<shared, unit>>
  BY DEF Intend, fixed, disk, Gateway, Moves, WriteInv, Leased
<1>2. /\ trace' \in [Operation -> Traces] /\ trace'[o].captured
      /\ \A q \in Operation \ {o} : trace'[q] = trace[q]
      /\ trace'[o].terminal = trace[o].terminal /\ trace'[o].receipt = trace[o].receipt
      /\ trace'[o].resolution = trace[o].resolution /\ trace'[o].start = trace[o].start
      /\ trace'[o].intent = trace[o].intent
  BY NotedTrue DEF Intend, Gateway, TraceField, WriteInv, WriteTypeOK
<1>3. \A q \in Operation :
        /\ trace'[q].terminal = trace[q].terminal /\ trace'[q].receipt = trace[q].receipt
        /\ trace'[q].resolution = trace[q].resolution
  BY <1>2
<1>4. \A q \in Operation : ~Occupied(q)' /\ unit'[q] # "running"
  BY <1>1, <1>2, <1>3, NotOccupied DEF Occupied
<1>5. WriteTypeOK'
  BY <1>1, <1>2, <1>3 DEF WriteInv, WriteTypeOK, PublishTypeOK
<1>6. Leased'
  BY <1>1, <1>2, <1>3 DEF WriteInv, WriteTypeOK, PublishTypeOK, Leased
<1>7. Spoken'
  BY <1>1, <1>2, <1>3
     DEF WriteInv, WriteTypeOK, PublishTypeOK, Leased, Spoken, SpokenOf, Speaks, Silent,
         Attempting
<1>8. JournalProves'
  BY <1>1, <1>2, <1>3, JournalStays
<1>9. JournalFits'
  BY <1>1, <1>2, <1>3
     DEF WriteInv, WriteTypeOK, PublishTypeOK, Leased, JournalFits, JournalProves, At,
         Pending, NoJournal
<1>10. TreeFits'
  BY <1>1, TreeStays
<1>11. Alone'
  BY <1>1, <1>4, AloneClears
<1>12. RecordsMatchTree'
  BY <1>1, <1>2, <1>3, RecordsStay
<1> QED
  BY <1>5, <1>6, <1>7, <1>8, <1>9, <1>10, <1>11, <1>12 DEF WriteInv

\* What the publisher returned, or what the recovered journal proves.
LEMMA OutcomeIsConcluded ==
  ASSUME WriteInv, NEW o \in Operation, Conclude(o)
  PROVE  WriteInv'
<1>1. /\ lease # Nothing /\ lease.op = o
      /\ UNCHANGED <<tree, temp, journal, place, lease, settled, subject, auth, faults>>
      /\ UNCHANGED <<thread, stream, result>>
      /\ UNCHANGED <<trace, shared, unit>>
      /\ phase \in {"published", "recovered", "unrecovered"}
  BY DEF Conclude, fixed, disk, Gateway, Moves
<1>2. \/ phase' = "completed" /\ o \in settled
      \/ phase' = "aborted" /\ o \notin settled /\ phase = "recovered"
      \/ phase' = "give_up" /\ lease.by = "reconcile"
      \/ phase' = "uncertain" /\ lease.by = "gateway"
  <2>1. CASE phase = "published"
    BY <1>1, <2>1 DEF Conclude, Moves, WriteInv, Spoken, Speaks
  <2>2. CASE phase = "recovered" /\ Proved(o)
    BY <2>2 DEF Conclude, Moves, Proved, WriteInv, JournalProves
  <2>3. CASE phase = "recovered" /\ ~Proved(o)
    BY <1>1, <2>3
       DEF Conclude, Moves, Proved, WriteInv, Leased, JournalProves, JournalFits, Pending
  <2>4. CASE phase = "unrecovered"
    BY <1>1, <2>4, HolderFacts DEF Conclude, Moves, Reconciling, WriteInv, Leased
  <2> QED
    BY <1>1, <2>1, <2>2, <2>3, <2>4
<1>3. \A q \in Operation : ~Occupied(q)' /\ unit'[q] # "running"
  BY <1>1, NotOccupied DEF Occupied
<1>4. WriteTypeOK'
  BY <1>1, <1>2 DEF WriteInv, WriteTypeOK, PublishTypeOK
<1>5. Leased'
  BY <1>1, <1>2 DEF WriteInv, WriteTypeOK, PublishTypeOK, Leased
<1>6. Spoken'
  BY <1>1, <1>2, SpokenAfter DEF WriteInv, Spoken, Speaks
<1>7. JournalProves'
  BY <1>1, <1>2, JournalStays
<1>8. JournalFits'
  BY <1>1, <1>2
     DEF WriteInv, WriteTypeOK, PublishTypeOK, Leased, JournalFits, JournalProves, At,
         Pending, NoJournal
<1>9. TreeFits'
  BY <1>1, <1>2, TreeStays
<1>10. Alone'
  BY <1>1, <1>2, <1>3, AloneClears
<1>11. RecordsMatchTree'
  BY <1>1, <1>2, RecordsStay
<1> QED
  BY <1>4, <1>5, <1>6, <1>7, <1>8, <1>9, <1>10, <1>11 DEF WriteInv

\* The effect receipt of a completed operation.
LEMMA AppliedReceiptIsKept ==
  ASSUME WriteInv, NEW o \in Operation, phase = "completed", Complete(o)
  PROVE  WriteInv'
<1>1. /\ lease # Nothing /\ lease.op = o
      /\ o \in settled
      /\ phase' = "completed_run"
      /\ UNCHANGED <<tree, temp, journal, place, lease, settled, subject, auth, faults>>
      /\ UNCHANGED <<thread, stream, result>>
      /\ UNCHANGED <<shared, unit>>
  BY HolderIs, HolderFacts
     DEF Complete, Appends, Reconciling, fixed, disk, Gateway, Moves, WriteInv, Leased,
         Spoken, Speaks
<1>2. \/ UNCHANGED trace
      \/ Notes(o, "receipt", "applied")
  BY DEF Complete, ReceiptOf
<1>3. /\ trace' \in [Operation -> Traces]
      /\ \A q \in Operation \ {o} : trace'[q] = trace[q]
  BY <1>2, NotedTyped, Noted DEF TraceField, WriteInv, WriteTypeOK
<1>4. /\ trace'[o].receipt \in {trace[o].receipt, "applied"}
      /\ trace'[o].terminal = trace[o].terminal /\ trace'[o].resolution = trace[o].resolution
      /\ trace'[o].start = trace[o].start /\ trace'[o].intent = trace[o].intent
  BY <1>2, Noted DEF TraceField, WriteInv, WriteTypeOK
<1>5. \A q \in Operation : ~Occupied(q)' /\ unit'[q] # "running"
  BY <1>1, <1>2, <1>3, <1>4, NotOccupied DEF Occupied
<1>6. WriteTypeOK'
  BY <1>1, <1>2, <1>3, <1>4 DEF WriteInv, WriteTypeOK, PublishTypeOK
<1>7. Leased'
  BY <1>1, <1>2, <1>3, <1>4 DEF WriteInv, WriteTypeOK, PublishTypeOK, Leased
<1>8. Spoken'
  BY <1>1, <1>2, <1>3, <1>4, SpokenAfter DEF WriteInv, Spoken, Speaks
<1>9. JournalProves'
  BY <1>1, <1>2, <1>3, <1>4, JournalStays
<1>10. JournalFits'
  BY <1>1, <1>2, <1>3, <1>4
     DEF WriteInv, WriteTypeOK, PublishTypeOK, Leased, JournalFits, JournalProves, At,
         Pending, NoJournal
<1>11. TreeFits'
  BY <1>1, TreeStays
<1>12. Alone'
  BY <1>1, <1>5, AloneClears
<1>13. RecordsMatchTree'
  BY <1>1, <1>2, <1>3, <1>4 DEF WriteInv, RecordsMatchTree, Says
<1> QED
  BY <1>6, <1>7, <1>8, <1>9, <1>10, <1>11, <1>12, <1>13 DEF WriteInv

\* The completion in the streams of the Run.
LEMMA CompletionIsNoted ==
  ASSUME WriteInv, NEW o \in Operation, phase = "completed_run", Complete(o)
  PROVE  WriteInv'
<1>1. /\ lease # Nothing /\ lease.op = o
      /\ o \in settled
      /\ phase' = "completed_terminal"
      /\ UNCHANGED <<tree, temp, journal, place, lease, settled, subject, auth, faults>>
      /\ UNCHANGED <<thread, stream, result>>
      /\ UNCHANGED <<shared, unit>>
  BY HolderIs, HolderFacts
     DEF Complete, Appends, Reconciling, fixed, disk, Gateway, Moves, WriteInv, Leased,
         Spoken, Speaks
<1>2. /\ trace' \in [Operation -> Traces]
      /\ \A q \in Operation \ {o} : trace'[q] = trace[q]
  BY NotedTyped, Noted DEF Complete, TraceField, WriteInv, WriteTypeOK
<1>3. /\ trace'[o].resolution = "completed"
      /\ trace'[o].terminal = trace[o].terminal /\ trace'[o].receipt = trace[o].receipt
      /\ trace'[o].start = trace[o].start /\ trace'[o].captured = trace[o].captured
      /\ trace'[o].intent = trace[o].intent
  BY Noted DEF Complete, TraceField, WriteInv, WriteTypeOK
<1>4. \A q \in Operation : ~Occupied(q)' /\ unit'[q] # "running"
  BY <1>1, <1>2, <1>3, NotOccupied DEF Occupied
<1>5. WriteTypeOK'
  BY <1>1, <1>2, <1>3 DEF WriteInv, WriteTypeOK, PublishTypeOK
<1>6. Leased'
  BY <1>1, <1>2, <1>3 DEF WriteInv, WriteTypeOK, PublishTypeOK, Leased
<1>7. Spoken'
  BY <1>1, <1>2, <1>3, SpokenAfter DEF WriteInv, Spoken, Speaks
<1>8. JournalProves'
  BY <1>1, <1>2, <1>3, JournalStays
<1>9. JournalFits'
  BY <1>1, <1>2, <1>3
     DEF WriteInv, WriteTypeOK, PublishTypeOK, Leased, JournalFits, JournalProves, At,
         Pending, NoJournal
<1>10. TreeFits'
  BY <1>1, TreeStays
<1>11. Alone'
  BY <1>1, <1>4, AloneClears
<1>12. RecordsMatchTree'
  BY <1>1, <1>2, <1>3 DEF WriteInv, RecordsMatchTree, Says
<1> QED
  BY <1>5, <1>6, <1>7, <1>8, <1>9, <1>10, <1>11, <1>12 DEF WriteInv

\* The terminal event of a completed operation.
LEMMA CompletionIsTold ==
  ASSUME WriteInv, NEW o \in Operation, phase = "completed_terminal", Complete(o)
  PROVE  WriteInv'
<1>1. /\ lease # Nothing /\ lease.op = o
      /\ o \in settled
      /\ phase' = "completed_shared"
      /\ UNCHANGED <<tree, temp, journal, place, lease, settled, subject, auth, faults>>
      /\ UNCHANGED <<thread, stream, result>>
      /\ UNCHANGED <<shared, unit>>
  BY HolderIs, HolderFacts
     DEF Complete, Appends, Reconciling, fixed, disk, Gateway, Moves, WriteInv, Leased,
         Spoken, Speaks
<1>2. \/ UNCHANGED trace
      \/ Notes(o, "terminal", "completed")
  BY DEF Complete
<1>3. /\ trace' \in [Operation -> Traces]
      /\ \A q \in Operation \ {o} : trace'[q] = trace[q]
  BY <1>2, NotedTyped, Noted DEF TraceField, WriteInv, WriteTypeOK
<1>4. /\ trace'[o].terminal \in {trace[o].terminal, "completed"}
      /\ trace'[o].receipt = trace[o].receipt /\ trace'[o].resolution = trace[o].resolution
      /\ trace'[o].start = trace[o].start /\ trace'[o].intent = trace[o].intent
  BY <1>2, Noted DEF TraceField, WriteInv, WriteTypeOK
<1>5. \A q \in Operation : ~Occupied(q)' /\ unit'[q] # "running"
  BY <1>1, <1>2, <1>3, <1>4, NotOccupied DEF Occupied
<1>6. WriteTypeOK'
  BY <1>1, <1>2, <1>3, <1>4 DEF WriteInv, WriteTypeOK, PublishTypeOK
<1>7. Leased'
  BY <1>1, <1>2, <1>3, <1>4 DEF WriteInv, WriteTypeOK, PublishTypeOK, Leased
<1>8. Spoken'
  BY <1>1, <1>2, <1>3, <1>4, SpokenAfter DEF WriteInv, Spoken, Speaks
<1>9. JournalProves'
  BY <1>1, <1>2, <1>3, <1>4, JournalStays
<1>10. JournalFits'
  BY <1>1, <1>2, <1>3, <1>4
     DEF WriteInv, WriteTypeOK, PublishTypeOK, Leased, JournalFits, JournalProves, At,
         Pending, NoJournal
<1>11. TreeFits'
  BY <1>1, TreeStays
<1>12. Alone'
  BY <1>1, <1>5, AloneClears
<1>13. RecordsMatchTree'
  BY <1>1, <1>2, <1>3, <1>4 DEF WriteInv, RecordsMatchTree, Says
<1> QED
  BY <1>6, <1>7, <1>8, <1>9, <1>10, <1>11, <1>12, <1>13 DEF WriteInv

\* The completion in the streams of the workspace.
LEMMA CompletionIsAnnounced ==
  ASSUME WriteInv, NEW o \in Operation, phase = "completed_shared", Complete(o)
  PROVE  WriteInv'
<1>1. /\ lease # Nothing /\ lease.op = o
      /\ o \in settled
      /\ phase' \in {"finish", "return"}
      /\ phase' = "finish" => lease.by = "reconcile"
      /\ phase' = "return" => lease.by = "gateway"
      /\ UNCHANGED <<tree, temp, journal, place, lease, settled, subject, auth, faults>>
      /\ UNCHANGED <<thread, stream, result>>
      /\ UNCHANGED <<trace, unit>>
  BY HolderIs, HolderFacts
     DEF Complete, Appends, Reconciling, fixed, disk, Gateway, Moves, WriteInv, Leased,
         Spoken, Speaks
<1>2. /\ shared' \in [Operation -> Shares]
      /\ \A q \in Operation \ {o} : shared'[q] = shared[q]
  BY AnnouncedTyped, Announced DEF Complete, ShareField, WriteInv, WriteTypeOK
<1>3. /\ shared'[o].resolution = "completed"
      /\ shared'[o].intent = shared[o].intent /\ shared'[o].running = shared[o].running
  BY Announced DEF Complete, ShareField, WriteInv, WriteTypeOK
<1>4. \A q \in Operation : ~Occupied(q)' /\ unit'[q] # "running"
  BY <1>1, <1>2, <1>3, NotOccupied DEF Occupied
<1>5. WriteTypeOK'
  BY <1>1, <1>2, <1>3 DEF WriteInv, WriteTypeOK, PublishTypeOK
<1>6. Leased'
  BY <1>1, <1>2, <1>3 DEF WriteInv, WriteTypeOK, PublishTypeOK, Leased
<1>7. Spoken'
  BY <1>1, <1>2, <1>3, SpokenAfter DEF WriteInv, Spoken, Speaks
<1>8. JournalProves'
  BY <1>1, <1>2, <1>3, JournalStays
<1>9. JournalFits'
  BY <1>1, <1>2, <1>3
     DEF WriteInv, WriteTypeOK, PublishTypeOK, Leased, JournalFits, JournalProves, At,
         Pending, NoJournal
<1>10. TreeFits'
  BY <1>1, TreeStays
<1>11. Alone'
  BY <1>1, <1>4, AloneClears
<1>12. RecordsMatchTree'
  BY <1>1, <1>2, <1>3 DEF WriteInv, RecordsMatchTree, Says
<1> QED
  BY <1>5, <1>6, <1>7, <1>8, <1>9, <1>10, <1>11, <1>12 DEF WriteInv

\* The effect receipt of an aborted operation.
LEMMA AbortReceiptIsKept ==
  ASSUME WriteInv, NEW o \in Operation, phase = "aborted", Abort(o)
  PROVE  WriteInv'
<1>1. /\ lease # Nothing /\ lease.op = o
      /\ o \notin settled
      /\ phase' = "aborted_run"
      /\ UNCHANGED <<tree, temp, journal, place, lease, settled, subject, auth, faults>>
      /\ UNCHANGED <<thread, stream, result>>
      /\ UNCHANGED <<shared, unit>>
  BY HolderIs, HolderFacts
     DEF Abort, Appends, Reconciling, fixed, disk, Gateway, Moves, WriteInv, Leased, Spoken,
         Speaks
<1>2. \/ UNCHANGED trace
      \/ Notes(o, "receipt", "not_applied")
  BY DEF Abort, ReceiptOf
<1>3. /\ trace' \in [Operation -> Traces]
      /\ \A q \in Operation \ {o} : trace'[q] = trace[q]
  BY <1>2, NotedTyped, Noted DEF TraceField, WriteInv, WriteTypeOK
<1>4. /\ trace'[o].receipt \in {trace[o].receipt, "not_applied"}
      /\ trace'[o].terminal = trace[o].terminal /\ trace'[o].resolution = trace[o].resolution
      /\ trace'[o].start = trace[o].start /\ trace'[o].intent = trace[o].intent
  BY <1>2, Noted DEF TraceField, WriteInv, WriteTypeOK
<1>5. \A q \in Operation : ~Occupied(q)' /\ unit'[q] # "running"
  BY <1>1, <1>2, <1>3, <1>4, NotOccupied DEF Occupied
<1>6. WriteTypeOK'
  BY <1>1, <1>2, <1>3, <1>4 DEF WriteInv, WriteTypeOK, PublishTypeOK
<1>7. Leased'
  BY <1>1, <1>2, <1>3, <1>4 DEF WriteInv, WriteTypeOK, PublishTypeOK, Leased
<1>8. Spoken'
  BY <1>1, <1>2, <1>3, <1>4, SpokenAfter DEF WriteInv, Spoken, Speaks
<1>9. JournalProves'
  BY <1>1, <1>2, <1>3, <1>4, JournalStays
<1>10. JournalFits'
  BY <1>1, <1>2, <1>3, <1>4
     DEF WriteInv, WriteTypeOK, PublishTypeOK, Leased, JournalFits, JournalProves, At,
         Pending, NoJournal
<1>11. TreeFits'
  BY <1>1, TreeStays
<1>12. Alone'
  BY <1>1, <1>5, AloneClears
<1>13. RecordsMatchTree'
  BY <1>1, <1>2, <1>3, <1>4 DEF WriteInv, RecordsMatchTree, Says
<1> QED
  BY <1>6, <1>7, <1>8, <1>9, <1>10, <1>11, <1>12, <1>13 DEF WriteInv

\* The abort in the streams of the Run.
LEMMA AbortIsNoted ==
  ASSUME WriteInv, NEW o \in Operation, phase = "aborted_run", Abort(o)
  PROVE  WriteInv'
<1>1. /\ lease # Nothing /\ lease.op = o
      /\ o \notin settled
      /\ phase' = "aborted_shared"
      /\ UNCHANGED <<tree, temp, journal, place, lease, settled, subject, auth, faults>>
      /\ UNCHANGED <<thread, stream, result>>
      /\ UNCHANGED <<shared, unit>>
  BY HolderIs, HolderFacts
     DEF Abort, Appends, Reconciling, fixed, disk, Gateway, Moves, WriteInv, Leased, Spoken,
         Speaks
<1>2. /\ trace' \in [Operation -> Traces]
      /\ \A q \in Operation \ {o} : trace'[q] = trace[q]
  BY NotedTyped, Noted DEF Abort, TraceField, WriteInv, WriteTypeOK
<1>3. /\ trace'[o].resolution = "aborted"
      /\ trace'[o].terminal = trace[o].terminal /\ trace'[o].receipt = trace[o].receipt
      /\ trace'[o].start = trace[o].start /\ trace'[o].captured = trace[o].captured
      /\ trace'[o].intent = trace[o].intent
  BY Noted DEF Abort, TraceField, WriteInv, WriteTypeOK
<1>4. \A q \in Operation : ~Occupied(q)' /\ unit'[q] # "running"
  BY <1>1, <1>2, <1>3, NotOccupied DEF Occupied
<1>5. WriteTypeOK'
  BY <1>1, <1>2, <1>3 DEF WriteInv, WriteTypeOK, PublishTypeOK
<1>6. Leased'
  BY <1>1, <1>2, <1>3 DEF WriteInv, WriteTypeOK, PublishTypeOK, Leased
<1>7. Spoken'
  BY <1>1, <1>2, <1>3, SpokenAfter DEF WriteInv, Spoken, Speaks
<1>8. JournalProves'
  BY <1>1, <1>2, <1>3, JournalStays
<1>9. JournalFits'
  BY <1>1, <1>2, <1>3
     DEF WriteInv, WriteTypeOK, PublishTypeOK, Leased, JournalFits, JournalProves, At,
         Pending, NoJournal
<1>10. TreeFits'
  BY <1>1, TreeStays
<1>11. Alone'
  BY <1>1, <1>4, AloneClears
<1>12. RecordsMatchTree'
  BY <1>1, <1>2, <1>3 DEF WriteInv, RecordsMatchTree, Says
<1> QED
  BY <1>5, <1>6, <1>7, <1>8, <1>9, <1>10, <1>11, <1>12 DEF WriteInv

\* The abort in the streams of the workspace.
LEMMA AbortIsAnnounced ==
  ASSUME WriteInv, NEW o \in Operation, phase = "aborted_shared", Abort(o)
  PROVE  WriteInv'
<1>1. /\ lease # Nothing /\ lease.op = o
      /\ o \notin settled
      /\ phase' \in {"finish", "cancel_terminal"}
      /\ phase' = "finish" => lease.by = "reconcile"
      /\ phase' = "cancel_terminal" => lease.by = "gateway"
      /\ UNCHANGED <<tree, temp, journal, place, lease, settled, subject, auth, faults>>
      /\ UNCHANGED <<thread, stream, result>>
      /\ UNCHANGED <<trace, unit>>
  BY HolderIs, HolderFacts
     DEF Abort, Appends, Reconciling, fixed, disk, Gateway, Moves, WriteInv, Leased, Spoken,
         Speaks
<1>2. /\ shared' \in [Operation -> Shares]
      /\ \A q \in Operation \ {o} : shared'[q] = shared[q]
  BY AnnouncedTyped, Announced DEF Abort, ShareField, WriteInv, WriteTypeOK
<1>3. /\ shared'[o].resolution = "aborted"
      /\ shared'[o].intent = shared[o].intent /\ shared'[o].running = shared[o].running
  BY Announced DEF Abort, ShareField, WriteInv, WriteTypeOK
<1>4. \A q \in Operation : ~Occupied(q)' /\ unit'[q] # "running"
  BY <1>1, <1>2, <1>3, NotOccupied DEF Occupied
<1>5. WriteTypeOK'
  BY <1>1, <1>2, <1>3 DEF WriteInv, WriteTypeOK, PublishTypeOK
<1>6. Leased'
  BY <1>1, <1>2, <1>3 DEF WriteInv, WriteTypeOK, PublishTypeOK, Leased
<1>7. Spoken'
  BY <1>1, <1>2, <1>3, SpokenAfter DEF WriteInv, Spoken, Speaks
<1>8. JournalProves'
  BY <1>1, <1>2, <1>3, JournalStays
<1>9. JournalFits'
  BY <1>1, <1>2, <1>3
     DEF WriteInv, WriteTypeOK, PublishTypeOK, Leased, JournalFits, JournalProves, At,
         Pending, NoJournal
<1>10. TreeFits'
  BY <1>1, TreeStays
<1>11. Alone'
  BY <1>1, <1>4, AloneClears
<1>12. RecordsMatchTree'
  BY <1>1, <1>2, <1>3 DEF WriteInv, RecordsMatchTree, Says
<1> QED
  BY <1>5, <1>6, <1>7, <1>8, <1>9, <1>10, <1>11, <1>12 DEF WriteInv

\* The effect receipt of an operation that published nothing.
LEMMA CancelReceiptIsKept ==
  ASSUME WriteInv, NEW o \in Operation, phase = "cancel", Cancel(o)
  PROVE  WriteInv'
<1>1. /\ lease # Nothing /\ lease.op = o
      /\ o \notin settled
      /\ phase' = "cancel_terminal"
      /\ UNCHANGED <<tree, temp, journal, place, lease, settled, subject, auth, faults>>
      /\ UNCHANGED <<thread, stream, result>>
      /\ UNCHANGED <<shared, unit>>
  BY HolderIs, HolderFacts
     DEF Cancel, Appends, Reconciling, fixed, disk, Gateway, Moves, WriteInv, Leased, Spoken,
         Speaks
<1>2. \/ UNCHANGED trace
      \/ Notes(o, "receipt", "not_applied")
  BY DEF Cancel, ReceiptOf
<1>3. /\ trace' \in [Operation -> Traces]
      /\ \A q \in Operation \ {o} : trace'[q] = trace[q]
  BY <1>2, NotedTyped, Noted DEF TraceField, WriteInv, WriteTypeOK
<1>4. /\ trace'[o].receipt \in {trace[o].receipt, "not_applied"}
      /\ trace'[o].terminal = trace[o].terminal /\ trace'[o].resolution = trace[o].resolution
      /\ trace'[o].start = trace[o].start /\ trace'[o].intent = trace[o].intent
  BY <1>2, Noted DEF TraceField, WriteInv, WriteTypeOK
<1>5. \A q \in Operation : ~Occupied(q)' /\ unit'[q] # "running"
  BY <1>1, <1>2, <1>3, <1>4, NotOccupied DEF Occupied
<1>6. WriteTypeOK'
  BY <1>1, <1>2, <1>3, <1>4 DEF WriteInv, WriteTypeOK, PublishTypeOK
<1>7. Leased'
  BY <1>1, <1>2, <1>3, <1>4 DEF WriteInv, WriteTypeOK, PublishTypeOK, Leased
<1>8. Spoken'
  BY <1>1, <1>2, <1>3, <1>4, SpokenAfter DEF WriteInv, Spoken, Speaks
<1>9. JournalProves'
  BY <1>1, <1>2, <1>3, <1>4, JournalStays
<1>10. JournalFits'
  BY <1>1, <1>2, <1>3, <1>4
     DEF WriteInv, WriteTypeOK, PublishTypeOK, Leased, JournalFits, JournalProves, At,
         Pending, NoJournal
<1>11. TreeFits'
  BY <1>1, TreeStays
<1>12. Alone'
  BY <1>1, <1>5, AloneClears
<1>13. RecordsMatchTree'
  BY <1>1, <1>2, <1>3, <1>4 DEF WriteInv, RecordsMatchTree, Says
<1> QED
  BY <1>6, <1>7, <1>8, <1>9, <1>10, <1>11, <1>12, <1>13 DEF WriteInv

\* The terminal event of an operation that published nothing.
LEMMA CancellationIsTold ==
  ASSUME WriteInv, NEW o \in Operation, phase = "cancel_terminal", Cancel(o)
  PROVE  WriteInv'
<1>1. /\ lease # Nothing /\ lease.op = o
      /\ o \notin settled
      /\ phase' = "return"
      /\ UNCHANGED <<tree, temp, journal, place, lease, settled, subject, auth, faults>>
      /\ UNCHANGED <<thread, stream, result>>
      /\ UNCHANGED <<shared, unit>>
  BY HolderIs, HolderFacts
     DEF Cancel, Appends, Reconciling, fixed, disk, Gateway, Moves, WriteInv, Leased, Spoken,
         Speaks
<1>2. /\ trace' \in [Operation -> Traces]
      /\ \A q \in Operation \ {o} : trace'[q] = trace[q]
  BY NotedTyped, Noted DEF Cancel, TraceField, WriteInv, WriteTypeOK
<1>3. /\ trace'[o].terminal = "not_applied"
      /\ trace'[o].receipt = trace[o].receipt /\ trace'[o].resolution = trace[o].resolution
      /\ trace'[o].start = trace[o].start /\ trace'[o].captured = trace[o].captured
      /\ trace'[o].intent = trace[o].intent
  BY Noted DEF Cancel, TraceField, WriteInv, WriteTypeOK
<1>4. \A q \in Operation : ~Occupied(q)' /\ unit'[q] # "running"
  BY <1>1, <1>2, <1>3, NotOccupied DEF Occupied
<1>5. WriteTypeOK'
  BY <1>1, <1>2, <1>3 DEF WriteInv, WriteTypeOK, PublishTypeOK
<1>6. Leased'
  BY <1>1, <1>2, <1>3 DEF WriteInv, WriteTypeOK, PublishTypeOK, Leased
<1>7. Spoken'
  BY <1>1, <1>2, <1>3, SpokenAfter DEF WriteInv, Spoken, Speaks
<1>8. JournalProves'
  BY <1>1, <1>2, <1>3, JournalStays
<1>9. JournalFits'
  BY <1>1, <1>2, <1>3
     DEF WriteInv, WriteTypeOK, PublishTypeOK, Leased, JournalFits, JournalProves, At,
         Pending, NoJournal
<1>10. TreeFits'
  BY <1>1, TreeStays
<1>11. Alone'
  BY <1>1, <1>4, AloneClears
<1>12. RecordsMatchTree'
  BY <1>1, <1>2, <1>3 DEF WriteInv, RecordsMatchTree, Says
<1> QED
  BY <1>5, <1>6, <1>7, <1>8, <1>9, <1>10, <1>11, <1>12 DEF WriteInv

\* The terminal event of an operation whose outcome nobody knows.
LEMMA OutcomeIsUnknown ==
  ASSUME WriteInv, NEW o \in Operation, phase \in {"unknown", "uncertain"}, Cancel(o)
  PROVE  WriteInv'
<1>1. /\ lease # Nothing /\ lease.op = o
      /\ lease.by = "gateway" /\ phase' = "return"
      /\ UNCHANGED <<tree, temp, journal, place, lease, settled, subject, auth, faults>>
      /\ UNCHANGED <<thread, stream, result>>
      /\ UNCHANGED <<shared, unit>>
  BY HolderIs, HolderFacts DEF Cancel, Appends, fixed, disk, Gateway, Moves, WriteInv, Leased
<1>2. /\ trace' \in [Operation -> Traces]
      /\ \A q \in Operation \ {o} : trace'[q] = trace[q]
  BY NotedTyped, Noted DEF Cancel, TraceField, WriteInv, WriteTypeOK
<1>3. /\ trace'[o].terminal = "unknown"
      /\ trace'[o].receipt = trace[o].receipt /\ trace'[o].resolution = trace[o].resolution
      /\ trace'[o].start = trace[o].start /\ trace'[o].intent = trace[o].intent
  BY Noted DEF Cancel, TraceField, WriteInv, WriteTypeOK
<1>4. \A q \in Operation : (Unresolved(q)' <=> Unresolved(q)) /\ (Occupied(q)' <=> Occupied(q))
  BY <1>1, <1>2, <1>3 DEF Unresolved, Occupied
<1>5. WriteTypeOK'
  BY <1>1, <1>2, <1>3 DEF WriteInv, WriteTypeOK, PublishTypeOK
<1>6. Leased'
  BY <1>1, <1>2, <1>3 DEF WriteInv, WriteTypeOK, PublishTypeOK, Leased
<1>7. Spoken'
  BY <1>1, <1>2, <1>3, SpokenAfter DEF WriteInv, Spoken, Speaks
<1>8. JournalProves'
  BY <1>1, <1>2, <1>3, JournalStays
<1>9. JournalFits'
  BY <1>1, <1>2, <1>3
     DEF WriteInv, WriteTypeOK, PublishTypeOK, Leased, JournalFits, JournalProves, At,
         Pending, NoJournal
<1>10. TreeFits'
  BY <1>1, TreeStays
<1>11. Alone'
  BY <1>1, <1>4, AloneStays
<1>12. RecordsMatchTree'
  BY <1>1, <1>2, <1>3 DEF WriteInv, RecordsMatchTree, Says
<1> QED
  BY <1>5, <1>6, <1>7, <1>8, <1>9, <1>10, <1>11, <1>12 DEF WriteInv

\* A reconciliation takes the lease.
LEMMA JournalIsReconciled ==
  ASSUME WriteInv, NEW o \in Operation, Reconcile(o)
  PROVE  WriteInv'
<1>1. /\ lease = Nothing /\ lease' = [op |-> o, by |-> "reconcile"] /\ phase' = "scan"
      /\ Pending /\ journal.op = o /\ journal.state # "unbound"
      /\ trace[o].start /\ \A q \in Operation : ~Occupied(q)
      /\ UNCHANGED <<tree, temp, journal, place, settled, subject, auth, faults>>
      /\ UNCHANGED <<thread, stream, result, trace, shared, unit>>
  BY DEF Reconcile, Evidence, Coherent, Acquire, disk, records
<1>2. /\ lease' # Nothing /\ lease'.op = o /\ lease'.by = "reconcile"
      /\ \A q \in Operation : thread[q] # "gateway" /\ ~HasLease(q, "gateway")'
      /\ thread[o] \notin Waiting
  BY <1>1 DEF WriteInv, Leased, Spoken, SpokenOf
<1>3. \A q \in Operation : ~Occupied(q)' /\ unit'[q] # "running"
  BY <1>1 DEF WriteInv, Alone, AloneOf, Occupied
<1>4. WriteTypeOK'
  BY <1>1, <1>2 DEF WriteInv, WriteTypeOK, PublishTypeOK
<1>5. Leased'
  BY <1>1, <1>2 DEF WriteInv, WriteTypeOK, PublishTypeOK, Leased
<1>6. Spoken'
  <2>1. Speaks'
    BY <1>1, <1>2, HolderIs DEF WriteInv, Spoken, SpokenOf, Speaks, Attempting
  <2>2. \A q \in Operation : Attempting(q)' => Attempting(q)
    BY <1>1, <1>2 DEF Attempting
  <2>3. \A q \in Operation : Silent(q)' <=> Silent(q)
    BY <1>1, <1>2, RecordsStay
  <2>4. \A q \in Operation :
          /\ thread'[q] \in Waiting => thread[q] \in Waiting /\ ~trace'[q].start
          /\ thread'[q] = "acknowledge" => thread[q] = "acknowledge" /\ result'[q] = result[q]
    BY <1>1, <1>2 DEF WriteInv, Spoken, SpokenOf
  <2> QED
    BY <1>1, <1>2, <2>1, <2>2, <2>3, <2>4, SpokenStays
<1>7. JournalProves'
  BY <1>1, <1>2, JournalStays
<1>8. JournalFits'
  BY <1>1, <1>2
     DEF WriteInv, WriteTypeOK, PublishTypeOK, Leased, JournalFits, JournalProves, At,
         Pending, NoJournal
<1>9. TreeFits'
  BY <1>1, TreeStays
<1>10. Alone'
  BY <1>1, <1>3, AloneClears
<1>11. RecordsMatchTree'
  BY <1>1, <1>2, RecordsStay
<1> QED
  BY <1>4, <1>5, <1>6, <1>7, <1>8, <1>9, <1>10, <1>11 DEF WriteInv

\* The terminal event of a reconciled operation.
LEMMA OutcomeIsReconciled ==
  ASSUME WriteInv, NEW o \in Operation, ReconcileFinish(o)
  PROVE  WriteInv'
<1>1. /\ lease # Nothing /\ lease.op = o
      /\ lease.by = "reconcile" /\ phase = "finish" /\ phase' = "ack" /\ thread[o] \notin Waiting
      /\ Pending /\ journal.op = o /\ journal.state # "prepared"
      /\ UNCHANGED <<tree, temp, journal, place, lease, settled, subject, auth, faults>>
      /\ UNCHANGED <<thread, trace, shared, unit>>
  BY HolderIs DEF ReconcileFinish, Reconciling, Moves, disk, WriteInv, Leased, JournalFits
<1>2. \E r \in Results :
        /\ Finishes(o, r)
        /\ IF journal.state = "committed" THEN r = "published" ELSE r = "failed"
  BY DEF ReconcileFinish
<1>3. PICK r \in Results :
        /\ Finishes(o, r)
        /\ IF journal.state = "committed" THEN r = "published" ELSE r = "failed"
  BY <1>2
<1>4. /\ stream' \in [Operation -> {"none", "requested", "stopped", "finished"}]
      /\ result' \in [Operation -> Results]
      /\ \A q \in Operation \ {o} : result'[q] = result[q]
  BY <1>3, Finished DEF WriteInv, WriteTypeOK
<1>5. \/ o \in settled /\ result'[o] = "published"
      \/ o \notin settled /\ result'[o] = "failed"
  BY <1>1, <1>3, Finished DEF WriteInv, WriteTypeOK, JournalProves, Pending
<1>6. \A q \in Operation : ~Occupied(q)' /\ unit'[q] # "running"
  BY <1>1, NotOccupied DEF Occupied
<1>7. WriteTypeOK'
  BY <1>1, <1>4, <1>5 DEF WriteInv, WriteTypeOK, PublishTypeOK
<1>8. Leased'
  BY <1>1, <1>4, <1>5 DEF WriteInv, WriteTypeOK, PublishTypeOK, Leased
<1>9. Spoken'
  <2>1. thread[o] = "acknowledge" => o \in settled
    BY DEF WriteInv, Spoken, SpokenOf, RecordsMatchTree
  <2>2. ASSUME NEW q \in Operation PROVE SpokenOf(q)'
    <3>1. ~Attempting(q)'
      BY <1>1 DEF Attempting
    <3>2. CASE q = o
      BY <1>1, <1>5, <2>1, <3>1, <3>2 DEF SpokenOf
    <3>3. CASE q # o
      BY <1>1, <1>4, <3>1, <3>3 DEF WriteInv, Spoken, SpokenOf, Silent
    <3> QED
      BY <3>2, <3>3
  <2> QED
    BY <1>1, <2>2 DEF Spoken, Speaks
<1>10. JournalProves'
  BY <1>1, <1>4, <1>5, JournalStays
<1>11. JournalFits'
  BY <1>1, <1>4, <1>5
     DEF WriteInv, WriteTypeOK, PublishTypeOK, Leased, JournalFits, JournalProves, At,
         Pending, NoJournal
<1>12. TreeFits'
  BY <1>1, TreeStays
<1>13. Alone'
  BY <1>1, <1>6, AloneClears
<1>14. RecordsMatchTree'
  BY <1>1, <1>4, <1>5 DEF WriteInv, RecordsMatchTree, Says
<1> QED
  BY <1>7, <1>8, <1>9, <1>10, <1>11, <1>12, <1>13, <1>14 DEF WriteInv

\* A reconciliation takes the lease to release a published journal.
LEMMA PublishedJournalIsTaken ==
  ASSUME WriteInv, NEW o \in Operation, ReconcileTerminal(o)
  PROVE  WriteInv'
<1>1. /\ lease = Nothing /\ lease' = [op |-> o, by |-> "reconcile"] /\ phase' = "ack"
      /\ journal.state = "committed" /\ result[o] = "published"
      /\ UNCHANGED <<tree, temp, journal, place, settled, subject, auth, faults>>
      /\ UNCHANGED <<thread, stream, result, trace, shared, unit>>
  BY DEF ReconcileTerminal, Acquire, disk, records
<1>2. /\ lease' # Nothing /\ lease'.op = o /\ lease'.by = "reconcile"
      /\ \A q \in Operation : thread[q] # "gateway" /\ ~HasLease(q, "gateway")'
      /\ thread[o] \notin Waiting
  BY <1>1 DEF WriteInv, Leased, Spoken, SpokenOf, Silent
<1>3. WriteTypeOK'
  BY <1>1, <1>2 DEF WriteInv, WriteTypeOK, PublishTypeOK
<1>4. Leased'
  BY <1>1, <1>2 DEF WriteInv, WriteTypeOK, PublishTypeOK, Leased
<1>5. Spoken'
  <2>1. Speaks'
    BY <1>1, <1>2, HolderIs DEF WriteInv, Spoken, SpokenOf, Speaks, Attempting
  <2>2. \A q \in Operation : Attempting(q)' => Attempting(q)
    BY <1>1, <1>2 DEF Attempting
  <2>3. \A q \in Operation : Silent(q)' <=> Silent(q)
    BY <1>1, <1>2, RecordsStay
  <2>4. \A q \in Operation :
          /\ thread'[q] \in Waiting => thread[q] \in Waiting /\ ~trace'[q].start
          /\ thread'[q] = "acknowledge" => thread[q] = "acknowledge" /\ result'[q] = result[q]
    BY <1>1, <1>2 DEF WriteInv, Spoken, SpokenOf
  <2> QED
    BY <1>1, <1>2, <2>1, <2>2, <2>3, <2>4, SpokenStays
<1>6. JournalProves'
  BY <1>1, <1>2, JournalStays
<1>7. JournalFits'
  BY <1>1, <1>2
     DEF WriteInv, WriteTypeOK, PublishTypeOK, Leased, JournalFits, JournalProves, At,
         Pending, NoJournal
<1>8. TreeFits'
  BY <1>1, TreeStays
<1>9. Alone'
  BY <1>1, <1>2, AloneStays DEF Unresolved, Occupied
<1>10. RecordsMatchTree'
  BY <1>1, <1>2, RecordsStay
<1> QED
  BY <1>3, <1>4, <1>5, <1>6, <1>7, <1>8, <1>9, <1>10 DEF WriteInv

\* The end of a service or reconciliation call.
LEMMA CallEnds ==
  ASSUME WriteInv, EndCall
  PROVE  WriteInv'
<1>1. /\ lease # Nothing /\ lease' = Nothing /\ phase' = "idle"
      /\ phase \in {"released", "give_up"} \cup AckPhases
      /\ faults' \in 0 .. MaxFaults
      /\ UNCHANGED <<tree, temp, journal, place, settled, subject, auth>>
      /\ UNCHANGED <<thread, stream, result, trace, shared, unit>>
  <2>1. /\ lease' = Nothing /\ phase' = "idle"
        /\ phase \in {"released", "give_up"} \cup AckPhases
        /\ UNCHANGED <<tree, temp, journal, place, settled, subject, auth>>
        /\ UNCHANGED <<thread, stream, result, trace, shared, unit>>
    BY DEF EndCall, Release, disk, records
  <2>2. MaxFaults \in Nat /\ faults \in 0 .. MaxFaults
    BY PublishAssumption DEF WriteInv, WriteTypeOK, PublishTypeOK
  <2>3. faults' \in 0 .. MaxFaults
    BY <2>2 DEF EndCall
  <2> QED
    BY <2>1, <2>3 DEF WriteInv, Leased
<1>2. \A q \in Operation : thread[q] # "gateway"
  BY <1>1, HolderFacts DEF WriteInv, Leased
<1>3. WriteTypeOK'
  BY <1>1, <1>2 DEF WriteInv, WriteTypeOK, PublishTypeOK
<1>4. Leased'
  BY <1>1, <1>2 DEF WriteInv, WriteTypeOK, PublishTypeOK, Leased
<1>5. Spoken'
  <2>1. Speaks'
    BY <1>1, <1>2, HolderIs DEF WriteInv, Spoken, SpokenOf, Speaks, Attempting
  <2>2. \A q \in Operation : Attempting(q)' => Attempting(q)
    BY <1>1, <1>2 DEF Attempting
  <2>3. \A q \in Operation : Silent(q)' <=> Silent(q)
    BY <1>1, <1>2, RecordsStay
  <2>4. \A q \in Operation :
          /\ thread'[q] \in Waiting => thread[q] \in Waiting /\ ~trace'[q].start
          /\ thread'[q] = "acknowledge" => thread[q] = "acknowledge" /\ result'[q] = result[q]
    BY <1>1, <1>2 DEF WriteInv, Spoken, SpokenOf
  <2> QED
    BY <1>1, <1>2, <2>1, <2>2, <2>3, <2>4, SpokenStays
<1>6. JournalProves'
  BY <1>1, <1>2, JournalStays
<1>7. JournalFits'
  BY <1>1, <1>2
     DEF WriteInv, WriteTypeOK, PublishTypeOK, Leased, JournalFits, JournalProves, At,
         Pending, NoJournal
<1>8. TreeFits'
  BY <1>1, TreeStays
<1>9. Alone'
  BY <1>1, <1>2, AloneStays DEF Unresolved, Occupied
<1>10. RecordsMatchTree'
  BY <1>1, <1>2, RecordsStay
<1> QED
  BY <1>3, <1>4, <1>5, <1>6, <1>7, <1>8, <1>9, <1>10 DEF WriteInv

\* The gateway's broad handler takes a failure for an unknown execution.
LEMMA ExecutionIsUnknown ==
  ASSUME WriteInv, NEW o \in Operation, HasLease(o, "gateway"),
         phase \in {"completed", "aborted", "cancel"}, phase' = "unknown",
         faults' \in 0 .. MaxFaults,
         UNCHANGED <<tree, temp, journal, place, lease, settled, subject, auth>>,
         UNCHANGED <<thread, stream, result, trace, shared, unit>>
  PROVE  WriteInv'
<1>1. \A q \in Operation : ~Occupied(q)' /\ unit'[q] # "running"
  BY NotOccupied DEF Occupied
<1>2. WriteTypeOK'
  BY DEF WriteInv, WriteTypeOK, PublishTypeOK
<1>3. Leased'
  BY DEF WriteInv, WriteTypeOK, PublishTypeOK, Leased, HasLease
<1>4. Spoken'
  BY SpokenAfter DEF WriteInv, Spoken, Speaks, HasLease
<1>5. JournalProves'
  BY JournalStays
<1>6. JournalFits'
  BY DEF WriteInv, WriteTypeOK, PublishTypeOK, Leased, JournalFits, JournalProves, At,
         Pending, NoJournal, HasLease
<1>7. TreeFits'
  BY TreeStays
<1>8. Alone'
  BY <1>1, AloneClears
<1>9. RecordsMatchTree'
  BY RecordsStay
<1> QED
  BY <1>2, <1>3, <1>4, <1>5, <1>6, <1>7, <1>8, <1>9 DEF WriteInv

\* A call ends without an outcome: the lease goes, its thread with it.
LEMMA LeaseIsGivenUp ==
  ASSUME WriteInv, lease # Nothing, Release, faults' \in 0 .. MaxFaults,
         IF lease.by = "gateway" THEN Goes(lease.op, "gone") ELSE UNCHANGED thread,
         UNCHANGED <<disk, place, auth, subject, settled, records, unit>>
  PROVE  WriteInv'
<1>1. /\ lease # Nothing /\ lease' = Nothing /\ phase' = "idle"
      /\ faults' \in 0 .. MaxFaults
      /\ UNCHANGED <<tree, temp, journal, place, settled, subject, auth>>
      /\ UNCHANGED <<stream, result, trace, shared, unit>>
  BY DEF Release, disk, records
<1>2. /\ thread' \in [Operation -> Threads]
      /\ \A q \in Operation : thread'[q] = thread[q] \/ thread'[q] = "gone"
      /\ \A q \in Operation : thread'[q] # "gateway"
  <2>1. CASE lease.by = "gateway"
    <3>1. lease.op \in Operation /\ Goes(lease.op, "gone") /\ HasLease(lease.op, "gateway")
      BY <1>1, <2>1, HolderFacts
    <3>2. \A q \in Operation : thread[q] = "gateway" <=> q = lease.op
      BY <3>1, HolderIs
    <3>3. /\ thread' \in [Operation -> Threads] /\ thread'[lease.op] = "gone"
          /\ \A q \in Operation \ {lease.op} : thread'[q] = thread[q]
      BY <3>1, Went DEF WriteInv, WriteTypeOK
    <3> QED
      BY <3>1, <3>2, <3>3
  <2>2. CASE lease.by # "gateway"
    BY <1>1, <2>2, HolderFacts DEF WriteInv, WriteTypeOK
  <2> QED
    BY <2>1, <2>2
<1>3. WriteTypeOK'
  BY <1>1, <1>2 DEF WriteInv, WriteTypeOK, PublishTypeOK
<1>4. Leased'
  BY <1>1, <1>2 DEF WriteInv, WriteTypeOK, PublishTypeOK, Leased
<1>5. Spoken'
  <2>1. Speaks'
    BY <1>1, <1>2, HolderIs DEF WriteInv, Spoken, SpokenOf, Speaks, Attempting
  <2>2. \A q \in Operation : Attempting(q)' => Attempting(q)
    BY <1>1, <1>2 DEF Attempting
  <2>3. \A q \in Operation : Silent(q)' <=> Silent(q)
    BY <1>1, <1>2, RecordsStay
  <2>4. \A q \in Operation :
          /\ thread'[q] \in Waiting => thread[q] \in Waiting /\ ~trace'[q].start
          /\ thread'[q] = "acknowledge" => thread[q] = "acknowledge" /\ result'[q] = result[q]
    BY <1>1, <1>2 DEF WriteInv, Spoken, SpokenOf
  <2> QED
    BY <1>1, <1>2, <2>1, <2>2, <2>3, <2>4, SpokenStays
<1>6. JournalProves'
  BY <1>1, <1>2, JournalStays
<1>7. JournalFits'
  BY <1>1, <1>2
     DEF WriteInv, WriteTypeOK, PublishTypeOK, Leased, JournalFits, JournalProves, At,
         Pending, NoJournal
<1>8. TreeFits'
  BY <1>1, TreeStays
<1>9. Alone'
  BY <1>1, <1>2, AloneStays DEF Unresolved, Occupied
<1>10. RecordsMatchTree'
  BY <1>1, <1>2, RecordsStay
<1> QED
  BY <1>3, <1>4, <1>5, <1>6, <1>7, <1>8, <1>9, <1>10 DEF WriteInv

\* A fault that is still allowed for is counted within its bound.
LEMMA FaultCounted ==
  ASSUME WriteInv, faults < MaxFaults, faults' = faults + 1
  PROVE  faults' \in 0 .. MaxFaults
<1>1. MaxFaults \in Nat /\ faults \in 0 .. MaxFaults
  BY PublishAssumption DEF WriteInv, WriteTypeOK, PublishTypeOK
<1> QED
  BY <1>1

\* An append fails.
LEMMA AuditHasFailed ==
  ASSUME WriteInv, AuditFails
  PROVE  WriteInv'
<1>1. lease # Nothing
  BY DEF AuditFails, AppendPhases, WriteInv, Leased
<1>2. faults' \in 0 .. MaxFaults
  BY FaultCounted DEF AuditFails
<1> QED
  BY <1>1, <1>2, LeaseIsGivenUp DEF AuditFails

\* The effect receipt of an approved operation fails.
LEMMA ReceiptHasFailed ==
  ASSUME WriteInv, NEW o \in Operation, ReceiptFails(o)
  PROVE  WriteInv'
<1>1. /\ lease # Nothing /\ lease.op = o /\ phase \in {"completed", "aborted", "cancel"}
      /\ UNCHANGED <<disk, place, auth, subject, settled, records, unit>>
  BY DEF ReceiptFails
<1>2. faults' \in 0 .. MaxFaults
  BY FaultCounted DEF ReceiptFails
<1>3. CASE Reconciling(o) /\ phase = "completed" /\ Release /\ UNCHANGED thread
  <2>1. lease.by # "gateway"
    BY <1>3 DEF Reconciling, HasLease
  <2> QED
    BY <1>1, <1>2, <1>3, <2>1, LeaseIsGivenUp
<1>4. CASE HasLease(o, "gateway") /\ unit[o] = "none" /\ Returns(o)
  BY <1>1, <1>2, <1>4, LeaseGoesBack
<1>5. CASE /\ HasLease(o, "gateway") /\ unit[o] # "none"
           /\ Moves("unknown") /\ UNCHANGED <<lease, thread>>
  BY <1>1, <1>2, <1>5, ExecutionIsUnknown DEF disk, records, Moves
<1> QED
  BY <1>3, <1>4, <1>5 DEF ReceiptFails

\* The best-effort terminal of an unknown execution fails.
LEMMA UnknownHasFailed ==
  ASSUME WriteInv, NEW o \in Operation, UnknownFails(o)
  PROVE  WriteInv'
<1>1. HasLease(o, "gateway") /\ Returns(o) /\ faults' \in 0 .. MaxFaults
  BY FaultCounted DEF UnknownFails, Gateway
<1>2. UNCHANGED <<disk, place, auth, subject, settled, records, unit>>
  BY DEF UnknownFails
<1> QED
  BY <1>1, <1>2, LeaseGoesBack

\* The process of the application dies.
LEMMA ApplicationHasDied ==
  ASSUME WriteInv, ApplicationDies
  PROVE  WriteInv'
<1>1. /\ lease' = Nothing /\ phase' = "idle"
      /\ faults' \in 0 .. MaxFaults
      /\ UNCHANGED <<tree, temp, journal, place, settled, subject, auth>>
      /\ UNCHANGED <<stream, result, trace, shared, unit>>
  <2>1. /\ lease' = Nothing /\ phase' = "idle"
        /\ UNCHANGED <<tree, temp, journal, place, settled, subject, auth>>
        /\ UNCHANGED <<stream, result, trace, shared, unit>>
    BY DEF ApplicationDies, Release, disk, records
  <2>2. MaxFaults \in Nat /\ faults \in 0 .. MaxFaults
    BY PublishAssumption DEF WriteInv, WriteTypeOK, PublishTypeOK
  <2>3. faults' \in 0 .. MaxFaults
    BY <2>2 DEF ApplicationDies
  <2> QED
    BY <2>1, <2>3
<1>2. /\ thread' \in [Operation -> Threads]
      /\ \A q \in Operation : thread'[q] = thread[q] \/ thread'[q] = "gone"
      /\ \A q \in Operation : thread'[q] # "gateway"
  BY DEF ApplicationDies
<1>3. WriteTypeOK'
  BY <1>1, <1>2 DEF WriteInv, WriteTypeOK, PublishTypeOK
<1>4. Leased'
  BY <1>1, <1>2 DEF WriteInv, WriteTypeOK, PublishTypeOK, Leased
<1>5. Spoken'
  <2>1. Speaks'
    BY <1>1, <1>2, HolderIs DEF WriteInv, Spoken, SpokenOf, Speaks, Attempting
  <2>2. \A q \in Operation : Attempting(q)' => Attempting(q)
    BY <1>1, <1>2 DEF Attempting
  <2>3. \A q \in Operation : Silent(q)' <=> Silent(q)
    BY <1>1, <1>2, RecordsStay
  <2>4. \A q \in Operation :
          /\ thread'[q] \in Waiting => thread[q] \in Waiting /\ ~trace'[q].start
          /\ thread'[q] = "acknowledge" => thread[q] = "acknowledge" /\ result'[q] = result[q]
    BY <1>1, <1>2 DEF WriteInv, Spoken, SpokenOf
  <2> QED
    BY <1>1, <1>2, <2>1, <2>2, <2>3, <2>4, SpokenStays
<1>6. JournalProves'
  BY <1>1, <1>2, JournalStays
<1>7. JournalFits'
  BY <1>1, <1>2
     DEF WriteInv, WriteTypeOK, PublishTypeOK, Leased, JournalFits, JournalProves, At,
         Pending, NoJournal
<1>8. TreeFits'
  BY <1>1, TreeStays
<1>9. Alone'
  BY <1>1, <1>2, AloneStays DEF Unresolved, Occupied
<1>10. RecordsMatchTree'
  BY <1>1, <1>2, RecordsStay
<1> QED
  BY <1>3, <1>4, <1>5, <1>6, <1>7, <1>8, <1>9, <1>10 DEF WriteInv

\* A staging directory is made.
LEMMA JournalIsStaged ==
  ASSUME WriteInv, NEW o \in Operation, HasLease(o, "gateway"),
         UNCHANGED <<lease, auth, faults, subject>>, UNCHANGED <<thread, records, unit>>, Stage
  PROVE  WriteInv'
<1>1. /\ lease # Nothing /\ lease.op = o /\ lease.by = "gateway" /\ thread[o] = "gateway"
      /\ phase = "stage" /\ phase' = "bind"
      /\ journal = NoJournal
      /\ journal' = [name |-> "staging", state |-> "unbound", op |-> o]
      /\ o \notin settled
      /\ UNCHANGED <<tree, temp, place, lease, auth, faults, subject, settled>>
      /\ UNCHANGED <<stream, result, trace, shared, unit, thread>>
  BY HolderIs
     DEF Stage, Turns, disk, records, WriteInv, Leased, Spoken, SpokenOf, Attempting,
         JournalFits, At, NoJournal
<1>2. \A q \in Operation : ~Occupied(q)' /\ unit'[q] # "running"
  BY <1>1, NotOccupied DEF Occupied
<1>3. WriteTypeOK'
  BY <1>1 DEF WriteInv, WriteTypeOK, PublishTypeOK
<1>4. Leased'
  BY <1>1 DEF WriteInv, WriteTypeOK, PublishTypeOK, Leased
<1>5. Spoken'
  BY <1>1
     DEF WriteInv, WriteTypeOK, PublishTypeOK, Leased, Spoken, SpokenOf, Speaks, Silent,
         Attempting
<1>6. JournalProves'
  BY <1>1 DEF WriteInv, WriteTypeOK, PublishTypeOK, JournalProves, Pending, NoJournal
<1>7. JournalFits'
  BY <1>1
     DEF WriteInv, WriteTypeOK, PublishTypeOK, Leased, JournalFits, JournalProves, At,
         Pending, NoJournal
<1>8. TreeFits'
  BY <1>1 DEF WriteInv, TreeFits, TreeIsWhole, Whole, NoJournal
<1>9. Alone'
  BY <1>1, <1>2, AloneClears
<1>10. RecordsMatchTree'
  BY <1>1, RecordsStay
<1> QED
  BY <1>3, <1>4, <1>5, <1>6, <1>7, <1>8, <1>9, <1>10 DEF WriteInv

\* The journal is bound to its operation.
LEMMA JournalIsBound ==
  ASSUME WriteInv, NEW o \in Operation, HasLease(o, "gateway"),
         UNCHANGED <<lease, auth, faults, subject>>, UNCHANGED <<thread, records, unit>>,
         BindJournal
  PROVE  WriteInv'
<1>1. /\ lease # Nothing /\ lease.op = o /\ lease.by = "gateway" /\ thread[o] = "gateway"
      /\ phase = "bind" /\ phase' = "promote"
      /\ journal = [name |-> "staging", state |-> "unbound", op |-> o]
      /\ journal' = [name |-> "staging", state |-> "preparing", op |-> o]
      /\ o \notin settled
      /\ UNCHANGED <<tree, temp, place, lease, auth, faults, subject, settled>>
      /\ UNCHANGED <<stream, result, trace, shared, unit, thread>>
  BY HolderIs
     DEF BindJournal, Turns, disk, records, WriteInv, Leased, Spoken, SpokenOf, Attempting,
         JournalFits, At, NoJournal
<1>2. \A q \in Operation : ~Occupied(q)' /\ unit'[q] # "running"
  BY <1>1, NotOccupied DEF Occupied
<1>3. WriteTypeOK'
  BY <1>1 DEF WriteInv, WriteTypeOK, PublishTypeOK
<1>4. Leased'
  BY <1>1 DEF WriteInv, WriteTypeOK, PublishTypeOK, Leased
<1>5. Spoken'
  BY <1>1
     DEF WriteInv, WriteTypeOK, PublishTypeOK, Leased, Spoken, SpokenOf, Speaks, Silent,
         Attempting
<1>6. JournalProves'
  BY <1>1 DEF WriteInv, WriteTypeOK, PublishTypeOK, JournalProves, Pending, NoJournal
<1>7. JournalFits'
  BY <1>1
     DEF WriteInv, WriteTypeOK, PublishTypeOK, Leased, JournalFits, JournalProves, At,
         Pending, NoJournal
<1>8. TreeFits'
  BY <1>1 DEF WriteInv, TreeFits, TreeIsWhole, Whole, NoJournal
<1>9. Alone'
  BY <1>1, <1>2, AloneClears
<1>10. RecordsMatchTree'
  BY <1>1, RecordsStay
<1> QED
  BY <1>3, <1>4, <1>5, <1>6, <1>7, <1>8, <1>9, <1>10 DEF WriteInv

\* The journal gets its name.
LEMMA JournalIsPromoted ==
  ASSUME WriteInv, NEW o \in Operation, HasLease(o, "gateway"),
         UNCHANGED <<lease, auth, faults, subject>>, UNCHANGED <<thread, records, unit>>,
         Promote
  PROVE  WriteInv'
<1>1. /\ lease # Nothing /\ lease.op = o /\ lease.by = "gateway" /\ thread[o] = "gateway"
      /\ phase = "promote" /\ phase' = "prepare"
      /\ journal = [name |-> "staging", state |-> "preparing", op |-> o]
      /\ journal' = [name |-> "publish", state |-> "preparing", op |-> o]
      /\ o \notin settled
      /\ UNCHANGED <<tree, temp, place, lease, auth, faults, subject, settled>>
      /\ UNCHANGED <<stream, result, trace, shared, unit, thread>>
  BY HolderIs
     DEF Promote, Turns, disk, records, WriteInv, Leased, Spoken, SpokenOf, Attempting,
         JournalFits, At, NoJournal
<1>2. \A q \in Operation : ~Occupied(q)' /\ unit'[q] # "running"
  BY <1>1, NotOccupied DEF Occupied
<1>3. WriteTypeOK'
  BY <1>1 DEF WriteInv, WriteTypeOK, PublishTypeOK
<1>4. Leased'
  BY <1>1 DEF WriteInv, WriteTypeOK, PublishTypeOK, Leased
<1>5. Spoken'
  BY <1>1
     DEF WriteInv, WriteTypeOK, PublishTypeOK, Leased, Spoken, SpokenOf, Speaks, Silent,
         Attempting
<1>6. JournalProves'
  BY <1>1 DEF WriteInv, WriteTypeOK, PublishTypeOK, JournalProves, Pending, NoJournal
<1>7. JournalFits'
  BY <1>1
     DEF WriteInv, WriteTypeOK, PublishTypeOK, Leased, JournalFits, JournalProves, At,
         Pending, NoJournal
<1>8. TreeFits'
  BY <1>1 DEF WriteInv, TreeFits, TreeIsWhole, Whole, NoJournal
<1>9. Alone'
  BY <1>1, <1>2, AloneClears
<1>10. RecordsMatchTree'
  BY <1>1, RecordsStay
<1> QED
  BY <1>3, <1>4, <1>5, <1>6, <1>7, <1>8, <1>9, <1>10 DEF WriteInv

\* Preimages are captured: the application begins.
LEMMA PublicationIsPrepared ==
  ASSUME WriteInv, NEW o \in Operation, HasLease(o, "gateway"),
         UNCHANGED <<lease, auth, faults, subject>>, UNCHANGED <<thread, records, unit>>,
         Prepare
  PROVE  WriteInv'
<1>1. /\ lease # Nothing /\ lease.op = o /\ lease.by = "gateway" /\ thread[o] = "gateway"
      /\ phase = "prepare" /\ phase' \in {"apply", "commit"}
      /\ journal = [name |-> "publish", state |-> "preparing", op |-> o]
      /\ journal' = [name |-> "publish", state |-> "prepared", op |-> o]
      /\ o \notin settled /\ subject = o /\ TreeUntouched /\ place' = 1
      /\ phase' = IF Diff = <<>> THEN "commit" ELSE "apply"
      /\ UNCHANGED <<tree, temp, lease, auth, faults, subject, settled>>
      /\ UNCHANGED <<stream, result, trace, shared, unit, thread>>
  BY HolderIs
     DEF Prepare, Turns, disk, records, WriteInv, Leased, Spoken, SpokenOf, Attempting,
         JournalFits, At, NoJournal
<1>2. /\ Len(Diff) \in Nat /\ Entry = 1 .. Len(Diff) /\ (Diff = <<>> <=> Len(Diff) = 0)
  BY DiffLength
<1>3. \A q \in Operation : ~Occupied(q)' /\ unit'[q] # "running"
  BY <1>1, NotOccupied DEF Occupied
<1>4. WriteTypeOK'
  BY <1>1, <1>2 DEF WriteInv, WriteTypeOK, PublishTypeOK
<1>5. Leased'
  BY <1>1, <1>2 DEF WriteInv, WriteTypeOK, PublishTypeOK, Leased
<1>6. Spoken'
  BY <1>1, <1>2
     DEF WriteInv, WriteTypeOK, PublishTypeOK, Leased, Spoken, SpokenOf, Speaks, Silent,
         Attempting
<1>7. JournalProves'
  BY <1>1 DEF WriteInv, WriteTypeOK, PublishTypeOK, JournalProves, Pending, NoJournal
<1>8. JournalFits'
  BY <1>1, <1>2
     DEF WriteInv, WriteTypeOK, PublishTypeOK, Leased, JournalFits, JournalProves, At,
         Pending, NoJournal
<1>9. TreeFits'
  <2>1. \A e \in Entry : tree[e] = "before" /\ ~temp[e]
    BY <1>1 DEF TreeUntouched, WriteInv, TreeFits, TreeIsWhole, Whole
  <2>2. AppliedSoFar'
    BY <1>1, <1>2, <2>1 DEF AppliedSoFar
  <2> QED
    BY <1>1, <2>2 DEF TreeFits, TreeIsWhole
<1>10. Alone'
  BY <1>1, <1>3, AloneClears
<1>11. RecordsMatchTree'
  BY <1>1, <1>2, RecordsStay
<1> QED
  BY <1>4, <1>5, <1>6, <1>7, <1>8, <1>9, <1>10, <1>11 DEF WriteInv

\* The commit marker.
LEMMA PublicationIsCommitted ==
  ASSUME WriteInv, NEW o \in Operation, HasLease(o, "gateway"),
         UNCHANGED <<thread, records, unit>>, Commit
  PROVE  WriteInv'
<1>1. /\ lease # Nothing /\ lease.op = o /\ lease.by = "gateway" /\ thread[o] = "gateway"
      /\ phase = "commit" /\ phase' \in {"published", "scan"}
      /\ journal = [name |-> "publish", state |-> "prepared", op |-> o]
      /\ journal' = [name |-> "publish", state |-> "committed", op |-> o]
      /\ o \notin settled /\ Silent(o) /\ settled' = settled \cup {o} /\ subject = o
      /\ UNCHANGED <<tree, temp, place, lease, auth, subject>>
      /\ UNCHANGED <<stream, result, trace, shared, unit, thread>>
  BY HolderIs
     DEF Commit, Turns, disk, records, WriteInv, Leased, Spoken, SpokenOf, Attempting,
         JournalFits, At, NoJournal
<1>2. faults' \in 0 .. MaxFaults
  <2>1. MaxFaults \in Nat /\ faults \in 0 .. MaxFaults
    BY PublishAssumption DEF WriteInv, WriteTypeOK, PublishTypeOK
  <2> QED
    BY <2>1 DEF Commit
<1>3. \A q \in Operation : ~Occupied(q)' /\ unit'[q] # "running"
  BY <1>1, NotOccupied DEF Occupied
<1>4. WriteTypeOK'
  BY <1>1, <1>2 DEF WriteInv, WriteTypeOK, PublishTypeOK
<1>5. Leased'
  BY <1>1, <1>2 DEF WriteInv, WriteTypeOK, PublishTypeOK, Leased
<1>6. Spoken'
  <2>1. ASSUME NEW q \in Operation PROVE SpokenOf(q)'
    <3>1. ~Attempting(q)'
      BY <1>1 DEF Attempting
    <3>2. CASE q = o
      BY <1>1, <3>1, <3>2 DEF SpokenOf, WriteInv, Spoken
    <3>3. CASE q # o
      BY <1>1, <3>1, <3>3 DEF WriteInv, Spoken, SpokenOf, Silent
    <3> QED
      BY <3>2, <3>3
  <2> QED
    BY <1>1, <2>1 DEF Spoken, Speaks
<1>7. JournalProves'
  BY <1>1 DEF WriteInv, WriteTypeOK, PublishTypeOK, JournalProves, Pending, NoJournal
<1>8. JournalFits'
  BY <1>1, <1>2
     DEF WriteInv, WriteTypeOK, PublishTypeOK, Leased, JournalFits, JournalProves, At,
         Pending, NoJournal
<1>9. TreeFits'
  <2>1. \A e \in Entry : tree[e] \in {"after", "foreign"} /\ ~temp[e]
    <3>1. Len(Diff) \in Nat /\ place = Len(Diff) + 1 /\ \A e \in Entry : e \in Nat /\ e < place
      BY <1>1, DiffLength DEF WriteInv, TreeFits, AppliedSoFar
    <3> QED
      BY <1>1, <3>1 DEF WriteInv, TreeFits, AppliedSoFar
  <2> QED
    BY <1>1, <2>1 DEF TreeFits, TreeIsWhole, Whole
<1>10. Alone'
  BY <1>1, <1>3, AloneClears
<1>11. RecordsMatchTree'
  BY <1>1 DEF WriteInv, RecordsMatchTree, Says, Silent
<1> QED
  BY <1>4, <1>5, <1>6, <1>7, <1>8, <1>9, <1>10, <1>11 DEF WriteInv

\* A publication fails.
LEMMA PublicationHasFailed ==
  ASSUME WriteInv, NEW o \in Operation, HasLease(o, "gateway"),
         UNCHANGED <<thread, records, unit>>, Fail
  PROVE  WriteInv'
<1>1. /\ lease # Nothing /\ lease.op = o /\ lease.by = "gateway" /\ thread[o] = "gateway"
      /\ phase \in PublishPhases /\ phase' = "scan" /\ o \notin settled
      /\ \/ journal = NoJournal
         \/ Pending /\ journal.op = o
      /\ UNCHANGED <<tree, temp, journal, place, lease, auth, subject, settled>>
      /\ UNCHANGED <<stream, result, trace, shared, unit, thread>>
  BY HolderIs
     DEF Fail, disk, records, WriteInv, Leased, Spoken, SpokenOf, Attempting, JournalFits,
         At, Pending
<1>2. faults' \in 0 .. MaxFaults
  <2>1. MaxFaults \in Nat /\ faults \in 0 .. MaxFaults
    BY PublishAssumption DEF WriteInv, WriteTypeOK, PublishTypeOK
  <2> QED
    BY <2>1 DEF Fail
<1>3. \A q \in Operation : ~Occupied(q)' /\ unit'[q] # "running"
  BY <1>1, NotOccupied DEF Occupied
<1>4. WriteTypeOK'
  BY <1>1, <1>2 DEF WriteInv, WriteTypeOK, PublishTypeOK
<1>5. Leased'
  BY <1>1, <1>2 DEF WriteInv, WriteTypeOK, PublishTypeOK, Leased
<1>6. Spoken'
  <2>1. Speaks'
    BY <1>1, HolderIs DEF WriteInv, Spoken, SpokenOf, Speaks, Attempting
  <2>2. \A q \in Operation : Attempting(q)' => Attempting(q)
    BY <1>1 DEF Attempting
  <2>3. \A q \in Operation : Silent(q)' <=> Silent(q)
    BY <1>1, RecordsStay
  <2>4. \A q \in Operation :
          /\ thread'[q] \in Waiting => thread[q] \in Waiting /\ ~trace'[q].start
          /\ thread'[q] = "acknowledge" => thread[q] = "acknowledge" /\ result'[q] = result[q]
    BY <1>1 DEF WriteInv, Spoken, SpokenOf
  <2> QED
    BY <1>1, <2>1, <2>2, <2>3, <2>4, SpokenStays
<1>7. JournalProves'
  BY <1>1, <1>2, JournalStays
<1>8. JournalFits'
  BY <1>1, <1>2
     DEF WriteInv, WriteTypeOK, PublishTypeOK, Leased, JournalFits, JournalProves, At,
         Pending, NoJournal
<1>9. TreeFits'
  BY <1>1, TreeStays
<1>10. Alone'
  BY <1>1, <1>3, AloneClears
<1>11. RecordsMatchTree'
  BY <1>1, <1>2, RecordsStay
<1> QED
  BY <1>4, <1>5, <1>6, <1>7, <1>8, <1>9, <1>10, <1>11 DEF WriteInv

\* The first change an entry makes.
LEMMA EntryIsBegun ==
  ASSUME WriteInv, NEW o \in Operation, HasLease(o, "gateway"),
         UNCHANGED <<lease, auth, faults, subject>>, UNCHANGED <<thread, records, unit>>, Apply
  PROVE  WriteInv'
<1>1. /\ lease # Nothing /\ lease.op = o /\ lease.by = "gateway" /\ thread[o] = "gateway"
      /\ phase = "apply" /\ phase' \in Applying
      /\ journal.state = "prepared"
      /\ journal = [name |-> "publish", state |-> "prepared", op |-> o]
      /\ UNCHANGED <<journal, lease, auth, faults, subject, settled>>
      /\ UNCHANGED <<stream, result, trace, shared, unit, thread>>
  BY HolderIs
     DEF Apply, Turns, disk, records, WriteInv, Leased, Spoken, SpokenOf, Attempting,
         JournalFits, At, NoJournal, Applied
<1>2. /\ Len(Diff) \in Nat /\ Entry = 1 .. Len(Diff) /\ place \in 1 .. Len(Diff)
      /\ tree[place] = "before" /\ ~temp[place]
  BY <1>1, DiffLength DEF Apply, WriteInv, TreeFits, AppliedSoFar
<1>3. \/ /\ tree' = [tree EXCEPT ![place] = "after"] /\ temp' = temp
         /\ place' = place + 1 /\ phase' = IF place = Len(Diff) THEN "commit" ELSE "apply"
      \/ /\ tree' = [tree EXCEPT ![place] = "partial"] /\ temp' = temp /\ place' = place
         /\ phase' = "install"
      \/ /\ temp' = [temp EXCEPT ![place] = TRUE] /\ tree' = tree /\ place' = place
         /\ phase' = "install" /\ Diff[place].kind = "file"
  BY <1>1, <1>2, DiffLength DEF Apply, Applied, Becomes, AtOnce
<1>4. /\ tree' \in [Entry -> {"before", "partial", "after", "foreign"}]
      /\ temp' \in [Entry -> BOOLEAN] /\ place' \in 0 .. Len(Diff) + 1 /\ AppliedSoFar'
  <2>0. /\ tree \in [Entry -> {"before", "partial", "after", "foreign"}]
        /\ temp \in [Entry -> BOOLEAN] /\ AppliedSoFar
    BY <1>1 DEF WriteInv, WriteTypeOK, PublishTypeOK, TreeFits
  <2>1. CASE /\ tree' = [tree EXCEPT ![place] = "after"] /\ temp' = temp
           /\ place' = place + 1 /\ phase' = IF place = Len(Diff) THEN "commit" ELSE "apply"
    BY <1>1, <1>2, <2>0, <2>1 DEF AppliedSoFar
  <2>2. CASE /\ tree' = [tree EXCEPT ![place] = "partial"] /\ temp' = temp /\ place' = place
           /\ phase' = "install"
    BY <1>1, <1>2, <2>0, <2>2 DEF AppliedSoFar
  <2>3. CASE /\ temp' = [temp EXCEPT ![place] = TRUE] /\ tree' = tree /\ place' = place
           /\ phase' = "install" /\ Diff[place].kind = "file"
    BY <1>1, <1>2, <2>0, <2>3 DEF AppliedSoFar
  <2> QED
    BY <1>3, <2>1, <2>2, <2>3
<1>5. \A q \in Operation : ~Occupied(q)' /\ unit'[q] # "running"
  BY <1>1, NotOccupied DEF Occupied
<1>6. WriteTypeOK'
  BY <1>1, <1>2, <1>3, <1>4 DEF WriteInv, WriteTypeOK, PublishTypeOK
<1>7. Leased'
  BY <1>1, <1>2, <1>3, <1>4 DEF WriteInv, WriteTypeOK, PublishTypeOK, Leased
<1>8. Spoken'
  BY <1>1, <1>2, <1>3, <1>4
     DEF WriteInv, WriteTypeOK, PublishTypeOK, Leased, Spoken, SpokenOf, Speaks, Silent,
         Attempting
<1>9. JournalProves'
  BY <1>1, JournalStays
<1>10. JournalFits'
  BY <1>1, <1>2, <1>3, <1>4
     DEF WriteInv, WriteTypeOK, PublishTypeOK, Leased, JournalFits, JournalProves, At,
         Pending, NoJournal
<1>11. TreeFits'
  BY <1>1, <1>4 DEF TreeFits, TreeIsWhole
<1>12. Alone'
  BY <1>1, <1>5, AloneClears
<1>13. RecordsMatchTree'
  BY <1>1, <1>2, <1>3, <1>4, RecordsStay
<1> QED
  BY <1>6, <1>7, <1>8, <1>9, <1>10, <1>11, <1>12, <1>13 DEF WriteInv

\* The second change an entry makes.
LEMMA EntryIsInstalled ==
  ASSUME WriteInv, NEW o \in Operation, HasLease(o, "gateway"),
         UNCHANGED <<lease, auth, faults, subject>>, UNCHANGED <<thread, records, unit>>,
         Install
  PROVE  WriteInv'
<1>1. /\ lease # Nothing /\ lease.op = o /\ lease.by = "gateway" /\ thread[o] = "gateway"
      /\ phase = "install" /\ phase' \in Applying
      /\ journal.state = "prepared"
      /\ journal = [name |-> "publish", state |-> "prepared", op |-> o]
      /\ UNCHANGED <<journal, lease, auth, faults, subject, settled>>
      /\ UNCHANGED <<stream, result, trace, shared, unit, thread>>
  BY HolderIs
     DEF Install, Turns, disk, records, WriteInv, Leased, Spoken, SpokenOf, Attempting,
         JournalFits, At, NoJournal, Applied
<1>2. /\ Len(Diff) \in Nat /\ Entry = 1 .. Len(Diff) /\ place \in 1 .. Len(Diff)
      /\ tree[place] \in {"before", "partial"}
  BY <1>1, DiffLength DEF Install, WriteInv, TreeFits, AppliedSoFar
<1>3. \/ /\ tree' = [tree EXCEPT ![place] = "after"] /\ temp' = temp /\ place' = place
         /\ phase' = "unlink" /\ Diff[place].kind = "file"
      \/ /\ tree' = [tree EXCEPT ![place] = "after"] /\ temp' = [temp EXCEPT ![place] = FALSE]
         /\ place' = place + 1 /\ phase' = IF place = Len(Diff) THEN "commit" ELSE "apply"
  BY <1>1, <1>2, DiffLength DEF Install, Applied, Becomes, Drops
<1>4. /\ tree' \in [Entry -> {"before", "partial", "after", "foreign"}]
      /\ temp' \in [Entry -> BOOLEAN] /\ place' \in 0 .. Len(Diff) + 1 /\ AppliedSoFar'
  <2>0. /\ tree \in [Entry -> {"before", "partial", "after", "foreign"}]
        /\ temp \in [Entry -> BOOLEAN] /\ AppliedSoFar
    BY <1>1 DEF WriteInv, WriteTypeOK, PublishTypeOK, TreeFits
  <2>1. CASE /\ tree' = [tree EXCEPT ![place] = "after"] /\ temp' = temp /\ place' = place
           /\ phase' = "unlink" /\ Diff[place].kind = "file"
    BY <1>1, <1>2, <2>0, <2>1 DEF AppliedSoFar
  <2>2. CASE /\ tree' = [tree EXCEPT ![place] = "after"] /\ temp' = [temp EXCEPT ![place] = FALSE]
           /\ place' = place + 1 /\ phase' = IF place = Len(Diff) THEN "commit" ELSE "apply"
    BY <1>1, <1>2, <2>0, <2>2 DEF AppliedSoFar
  <2> QED
    BY <1>3, <2>1, <2>2
<1>5. \A q \in Operation : ~Occupied(q)' /\ unit'[q] # "running"
  BY <1>1, NotOccupied DEF Occupied
<1>6. WriteTypeOK'
  BY <1>1, <1>2, <1>3, <1>4 DEF WriteInv, WriteTypeOK, PublishTypeOK
<1>7. Leased'
  BY <1>1, <1>2, <1>3, <1>4 DEF WriteInv, WriteTypeOK, PublishTypeOK, Leased
<1>8. Spoken'
  BY <1>1, <1>2, <1>3, <1>4
     DEF WriteInv, WriteTypeOK, PublishTypeOK, Leased, Spoken, SpokenOf, Speaks, Silent,
         Attempting
<1>9. JournalProves'
  BY <1>1, JournalStays
<1>10. JournalFits'
  BY <1>1, <1>2, <1>3, <1>4
     DEF WriteInv, WriteTypeOK, PublishTypeOK, Leased, JournalFits, JournalProves, At,
         Pending, NoJournal
<1>11. TreeFits'
  BY <1>1, <1>4 DEF TreeFits, TreeIsWhole
<1>12. Alone'
  BY <1>1, <1>5, AloneClears
<1>13. RecordsMatchTree'
  BY <1>1, <1>2, <1>3, <1>4, RecordsStay
<1> QED
  BY <1>6, <1>7, <1>8, <1>9, <1>10, <1>11, <1>12, <1>13 DEF WriteInv

\* The temporary of a new file is removed.
LEMMA EntryIsUnlinked ==
  ASSUME WriteInv, NEW o \in Operation, HasLease(o, "gateway"),
         UNCHANGED <<lease, auth, faults, subject>>, UNCHANGED <<thread, records, unit>>, Unlink
  PROVE  WriteInv'
<1>1. /\ lease # Nothing /\ lease.op = o /\ lease.by = "gateway" /\ thread[o] = "gateway"
      /\ phase = "unlink" /\ phase' \in Applying
      /\ journal.state = "prepared"
      /\ journal = [name |-> "publish", state |-> "prepared", op |-> o]
      /\ UNCHANGED <<journal, lease, auth, faults, subject, settled>>
      /\ UNCHANGED <<stream, result, trace, shared, unit, thread>>
  BY HolderIs
     DEF Unlink, Turns, disk, records, WriteInv, Leased, Spoken, SpokenOf, Attempting,
         JournalFits, At, NoJournal, Applied
<1>2. /\ Len(Diff) \in Nat /\ Entry = 1 .. Len(Diff) /\ place \in 1 .. Len(Diff)
      /\ tree[place] \in {"after", "foreign"}
  BY <1>1, DiffLength DEF Unlink, WriteInv, TreeFits, AppliedSoFar
<1>3. \/ /\ tree' = tree /\ temp' = [temp EXCEPT ![place] = FALSE]
         /\ place' = place + 1 /\ phase' = IF place = Len(Diff) THEN "commit" ELSE "apply"
  BY <1>1, <1>2, DiffLength DEF Unlink, Applied, Drops
<1>4. /\ tree' \in [Entry -> {"before", "partial", "after", "foreign"}]
      /\ temp' \in [Entry -> BOOLEAN] /\ place' \in 0 .. Len(Diff) + 1 /\ AppliedSoFar'
  <2>0. /\ tree \in [Entry -> {"before", "partial", "after", "foreign"}]
        /\ temp \in [Entry -> BOOLEAN] /\ AppliedSoFar
    BY <1>1 DEF WriteInv, WriteTypeOK, PublishTypeOK, TreeFits
  <2>1. CASE /\ tree' = tree /\ temp' = [temp EXCEPT ![place] = FALSE]
           /\ place' = place + 1 /\ phase' = IF place = Len(Diff) THEN "commit" ELSE "apply"
    BY <1>1, <1>2, <2>0, <2>1 DEF AppliedSoFar
  <2> QED
    BY <1>3, <2>1
<1>5. \A q \in Operation : ~Occupied(q)' /\ unit'[q] # "running"
  BY <1>1, NotOccupied DEF Occupied
<1>6. WriteTypeOK'
  BY <1>1, <1>2, <1>3, <1>4 DEF WriteInv, WriteTypeOK, PublishTypeOK
<1>7. Leased'
  BY <1>1, <1>2, <1>3, <1>4 DEF WriteInv, WriteTypeOK, PublishTypeOK, Leased
<1>8. Spoken'
  BY <1>1, <1>2, <1>3, <1>4
     DEF WriteInv, WriteTypeOK, PublishTypeOK, Leased, Spoken, SpokenOf, Speaks, Silent,
         Attempting
<1>9. JournalProves'
  BY <1>1, JournalStays
<1>10. JournalFits'
  BY <1>1, <1>2, <1>3, <1>4
     DEF WriteInv, WriteTypeOK, PublishTypeOK, Leased, JournalFits, JournalProves, At,
         Pending, NoJournal
<1>11. TreeFits'
  BY <1>1, <1>4 DEF TreeFits, TreeIsWhole
<1>12. Alone'
  BY <1>1, <1>5, AloneClears
<1>13. RecordsMatchTree'
  BY <1>1, <1>2, <1>3, <1>4, RecordsStay
<1> QED
  BY <1>6, <1>7, <1>8, <1>9, <1>10, <1>11, <1>12, <1>13 DEF WriteInv

\* What recovery finds.
LEMMA JournalIsScanned ==
  ASSUME WriteInv, NEW o \in Operation, lease # Nothing, lease.op = o,
         UNCHANGED <<subject, settled, lease, auth, faults>>,
         UNCHANGED <<thread, records, unit>>, Scan
  PROVE  WriteInv'
<1>1. /\ lease # Nothing /\ lease.op = o /\ lease.by \in {"gateway", "reconcile"}
      /\ phase = "scan"
      /\ \/ Pending /\ journal.op = o
         \/ lease.by = "gateway" /\ journal = NoJournal /\ o \notin settled
      /\ lease.by = "reconcile" => journal.state # "unbound"
      /\ UNCHANGED <<tree, temp, place>>
      /\ UNCHANGED <<lease, auth, faults, subject, settled>>
      /\ UNCHANGED <<stream, result, trace, shared, unit, thread>>
  <2>1. lease.by \in {"gateway", "reconcile"} /\ phase \in RecoverPhases
    BY HolderFacts DEF Scan, WriteInv, Leased
  <2> QED
    BY <2>1 DEF Scan, Turns, disk, records, WriteInv, JournalFits
<1>2. \/ journal' = journal /\ ~Pending /\ phase' = "recovered"
      \/ journal' = journal /\ Pending /\ journal.state = "unbound" /\ phase' = "unrecovered"
      \/ journal' = journal /\ Pending /\ journal.state = "prepared" /\ phase' = "sweep"
      \/ /\ journal' = journal /\ Pending /\ phase' = "recovered"
         /\ journal.state \in {"committed", "rolled_back", "not_started"}
      \/ /\ journal' = [journal EXCEPT !.state = "not_started"] /\ Pending /\ phase' = "recovered"
         /\ journal.state = "preparing"
  BY <1>1 DEF Scan, Turns
<1>3. /\ journal' \in [name : {Nothing, "staging", "publish", "acknowledged"},
                     state : {"unbound", "preparing", "prepared", "committed",
                              "rolled_back", "not_started"},
                     op : Operation \cup {Nothing}]
      /\ journal'.name = journal.name /\ journal'.op = journal.op
      /\ \/ journal'.state = journal.state
         \/ journal.state = "preparing" /\ journal'.state = "not_started"
      /\ phase' \in {"recovered", "unrecovered", "sweep"}
      /\ phase' = "sweep" => journal'.state = "prepared"
      /\ phase' = "recovered" =>
           ~Pending \/ journal'.state \notin {"prepared", "unbound"}
      /\ journal = NoJournal => journal' = journal
  BY <1>2 DEF WriteInv, WriteTypeOK, PublishTypeOK, NoJournal, Pending
<1>4. \A q \in Operation : ~Occupied(q)' /\ unit'[q] # "running"
  BY <1>1, NotOccupied DEF Occupied
<1>5. WriteTypeOK'
  BY <1>1, <1>2, <1>3 DEF WriteInv, WriteTypeOK, PublishTypeOK
<1>6. Leased'
  BY <1>1, <1>2, <1>3 DEF WriteInv, WriteTypeOK, PublishTypeOK, Leased
<1>7. Spoken'
  BY <1>1, <1>3, SpokenAfter DEF WriteInv, Spoken, Speaks
<1>8. JournalProves'
  BY <1>1, <1>3 DEF WriteInv, JournalProves, Pending, NoJournal
<1>9. JournalFits'
  BY <1>1, <1>3 DEF JournalFits, Pending
<1>10. TreeFits'
  BY <1>1, <1>3 DEF WriteInv, TreeFits, TreeIsWhole, Whole
<1>11. Alone'
  BY <1>1, <1>3, <1>4, AloneClears
<1>12. RecordsMatchTree'
  BY <1>1, <1>2, <1>3, RecordsStay
<1> QED
  BY <1>5, <1>6, <1>7, <1>8, <1>9, <1>10, <1>11, <1>12 DEF WriteInv

\* The temporaries are removed.
LEMMA TemporariesAreSwept ==
  ASSUME WriteInv, NEW o \in Operation, lease # Nothing, lease.op = o,
         UNCHANGED <<subject, settled, lease, auth, faults>>,
         UNCHANGED <<thread, records, unit>>, Sweep
  PROVE  WriteInv'
<1>1. /\ lease # Nothing /\ lease.op = o /\ lease.by \in {"gateway", "reconcile"}
      /\ phase = "sweep" /\ phase' \in {"record", "rollback"}
      /\ journal.state = "prepared" /\ journal' = journal
      /\ UNCHANGED tree
      /\ UNCHANGED <<lease, auth, faults, subject, settled>>
      /\ UNCHANGED <<stream, result, trace, shared, unit, thread>>
  <2>1. lease.by \in {"gateway", "reconcile"} /\ phase \in RecoverPhases
    BY HolderFacts DEF Sweep, WriteInv, Leased
  <2> QED
    BY <2>1 DEF Sweep, Turns, disk, records, WriteInv, JournalFits
<1>2. /\ Len(Diff) \in Nat /\ Entry = 1 .. Len(Diff) /\ (Diff = <<>> <=> Len(Diff) = 0)
  BY DiffLength
<1>3. /\ temp' = [e \in Entry |-> FALSE] /\ place' = Len(Diff)
      /\ phase' = IF Diff = <<>> THEN "record" ELSE "rollback"
  BY DEF Sweep
<1>4. /\ tree' \in [Entry -> {"before", "partial", "after", "foreign"}]
      /\ temp' \in [Entry -> BOOLEAN] /\ place' \in 0 .. Len(Diff) + 1 /\ RestoredSoFar'
  BY <1>1, <1>2, <1>3 DEF WriteInv, WriteTypeOK, PublishTypeOK, RestoredSoFar
<1>5. \A q \in Operation : ~Occupied(q)' /\ unit'[q] # "running"
  BY <1>1, NotOccupied DEF Occupied
<1>6. WriteTypeOK'
  BY <1>1, <1>2, <1>3, <1>4 DEF WriteInv, WriteTypeOK, PublishTypeOK
<1>7. Leased'
  BY <1>1, <1>2, <1>3, <1>4 DEF WriteInv, WriteTypeOK, PublishTypeOK, Leased
<1>8. Spoken'
  BY <1>1, <1>2, <1>3, <1>4, SpokenAfter DEF WriteInv, Spoken, Speaks
<1>9. JournalProves'
  BY <1>1, JournalStays
<1>10. JournalFits'
  BY <1>1, <1>2, <1>3, <1>4
     DEF WriteInv, WriteTypeOK, PublishTypeOK, Leased, JournalFits, JournalProves, At,
         Pending, NoJournal
<1>11. TreeFits'
  BY <1>1, <1>4 DEF TreeFits, TreeIsWhole
<1>12. Alone'
  BY <1>1, <1>5, AloneClears
<1>13. RecordsMatchTree'
  BY <1>1, <1>2, <1>3, <1>4, RecordsStay
<1> QED
  BY <1>6, <1>7, <1>8, <1>9, <1>10, <1>11, <1>12, <1>13 DEF WriteInv

\* The first change a rollback makes for an entry.
LEMMA EntryIsRestored ==
  ASSUME WriteInv, NEW o \in Operation, lease # Nothing, lease.op = o,
         UNCHANGED <<subject, settled, lease, auth, faults>>,
         UNCHANGED <<thread, records, unit>>, Restore
  PROVE  WriteInv'
<1>1. /\ lease # Nothing /\ lease.op = o /\ lease.by \in {"gateway", "reconcile"}
      /\ phase = "rollback" /\ phase' \in Restoring
      /\ journal.state = "prepared" /\ journal' = journal
      /\ UNCHANGED <<lease, auth, faults, subject, settled>>
      /\ UNCHANGED <<stream, result, trace, shared, unit, thread>>
  <2>1. lease.by \in {"gateway", "reconcile"} /\ phase \in RecoverPhases
    BY HolderFacts DEF Restore, WriteInv, Leased
  <2> QED
    BY <2>1 DEF Restore, Turns, disk, records, WriteInv, JournalFits, RolledBack
<1>2. /\ Len(Diff) \in Nat /\ Entry = 1 .. Len(Diff) /\ place \in 1 .. Len(Diff)
      /\ ~temp[place]
  BY <1>1, DiffLength DEF Restore, WriteInv, TreeFits, RestoredSoFar
<1>3. \/ /\ tree[place] = "before" /\ tree' = tree /\ temp' = temp
         /\ place' = place - 1 /\ phase' = IF place = 1 THEN "record" ELSE "rollback"
      \/ /\ tree' = [tree EXCEPT ![place] = "before"] /\ temp' = temp
         /\ place' = place - 1 /\ phase' = IF place = 1 THEN "record" ELSE "rollback"
      \/ /\ tree' = [tree EXCEPT ![place] = "partial"] /\ temp' = temp
         /\ place' = place /\ phase' = "remake"
      \/ /\ tree' = tree /\ temp' = [temp EXCEPT ![place] = TRUE]
         /\ place' = place /\ phase' = "replace" /\ tree[place] = "after"
  BY <1>1, <1>2, DiffLength DEF Restore, RolledBack, AlreadyBefore, Becomes
<1>4. /\ tree' \in [Entry -> {"before", "partial", "after", "foreign"}]
      /\ temp' \in [Entry -> BOOLEAN] /\ place' \in 0 .. Len(Diff) + 1 /\ RestoredSoFar'
  <2>0. /\ tree \in [Entry -> {"before", "partial", "after", "foreign"}]
        /\ temp \in [Entry -> BOOLEAN] /\ RestoredSoFar
    BY <1>1 DEF WriteInv, WriteTypeOK, PublishTypeOK, TreeFits
  <2>1. CASE /\ tree[place] = "before" /\ tree' = tree /\ temp' = temp
           /\ place' = place - 1 /\ phase' = IF place = 1 THEN "record" ELSE "rollback"
    BY <1>1, <1>2, <2>0, <2>1 DEF RestoredSoFar
  <2>2. CASE /\ tree' = [tree EXCEPT ![place] = "before"] /\ temp' = temp
           /\ place' = place - 1 /\ phase' = IF place = 1 THEN "record" ELSE "rollback"
    BY <1>1, <1>2, <2>0, <2>2 DEF RestoredSoFar
  <2>3. CASE /\ tree' = [tree EXCEPT ![place] = "partial"] /\ temp' = temp
           /\ place' = place /\ phase' = "remake"
    BY <1>1, <1>2, <2>0, <2>3 DEF RestoredSoFar
  <2>4. CASE /\ tree' = tree /\ temp' = [temp EXCEPT ![place] = TRUE]
           /\ place' = place /\ phase' = "replace" /\ tree[place] = "after"
    BY <1>1, <1>2, <2>0, <2>4 DEF RestoredSoFar
  <2> QED
    BY <1>3, <2>1, <2>2, <2>3, <2>4
<1>5. \A q \in Operation : ~Occupied(q)' /\ unit'[q] # "running"
  BY <1>1, NotOccupied DEF Occupied
<1>6. WriteTypeOK'
  BY <1>1, <1>2, <1>3, <1>4 DEF WriteInv, WriteTypeOK, PublishTypeOK
<1>7. Leased'
  BY <1>1, <1>2, <1>3, <1>4 DEF WriteInv, WriteTypeOK, PublishTypeOK, Leased
<1>8. Spoken'
  BY <1>1, <1>2, <1>4, SpokenAfter DEF WriteInv, Spoken, Speaks
<1>9. JournalProves'
  BY <1>1, JournalStays
<1>10. JournalFits'
  BY <1>1, <1>2, <1>3, <1>4
     DEF WriteInv, WriteTypeOK, PublishTypeOK, Leased, JournalFits, JournalProves, At,
         Pending, NoJournal
<1>11. TreeFits'
  BY <1>1, <1>4 DEF TreeFits, TreeIsWhole
<1>12. Alone'
  BY <1>1, <1>5, AloneClears
<1>13. RecordsMatchTree'
  BY <1>1, <1>2, <1>3, <1>4, RecordsStay
<1> QED
  BY <1>6, <1>7, <1>8, <1>9, <1>10, <1>11, <1>12, <1>13 DEF WriteInv

\* A deleted directory gets its mode back.
LEMMA DirectoryIsRemade ==
  ASSUME WriteInv, NEW o \in Operation, lease # Nothing, lease.op = o,
         UNCHANGED <<subject, settled, lease, auth, faults>>,
         UNCHANGED <<thread, records, unit>>, Remake
  PROVE  WriteInv'
<1>1. /\ lease # Nothing /\ lease.op = o /\ lease.by \in {"gateway", "reconcile"}
      /\ phase = "remake" /\ phase' \in Restoring
      /\ journal.state = "prepared" /\ journal' = journal
      /\ UNCHANGED <<lease, auth, faults, subject, settled>>
      /\ UNCHANGED <<stream, result, trace, shared, unit, thread>>
  <2>1. lease.by \in {"gateway", "reconcile"} /\ phase \in RecoverPhases
    BY HolderFacts DEF Remake, WriteInv, Leased
  <2> QED
    BY <2>1 DEF Remake, Turns, disk, records, WriteInv, JournalFits, RolledBack
<1>2. /\ Len(Diff) \in Nat /\ Entry = 1 .. Len(Diff) /\ place \in 1 .. Len(Diff)
      /\ ~temp[place]
  BY <1>1, DiffLength DEF Remake, WriteInv, TreeFits, RestoredSoFar
<1>3. \/ /\ tree' = [tree EXCEPT ![place] = "before"] /\ temp' = temp
         /\ place' = place - 1 /\ phase' = IF place = 1 THEN "record" ELSE "rollback"
  BY <1>1, <1>2, DiffLength DEF Remake, RolledBack, Becomes
<1>4. /\ tree' \in [Entry -> {"before", "partial", "after", "foreign"}]
      /\ temp' \in [Entry -> BOOLEAN] /\ place' \in 0 .. Len(Diff) + 1 /\ RestoredSoFar'
  <2>0. /\ tree \in [Entry -> {"before", "partial", "after", "foreign"}]
        /\ temp \in [Entry -> BOOLEAN] /\ RestoredSoFar
    BY <1>1 DEF WriteInv, WriteTypeOK, PublishTypeOK, TreeFits
  <2>1. CASE /\ tree' = [tree EXCEPT ![place] = "before"] /\ temp' = temp
           /\ place' = place - 1 /\ phase' = IF place = 1 THEN "record" ELSE "rollback"
    BY <1>1, <1>2, <2>0, <2>1 DEF RestoredSoFar
  <2> QED
    BY <1>3, <2>1
<1>5. \A q \in Operation : ~Occupied(q)' /\ unit'[q] # "running"
  BY <1>1, NotOccupied DEF Occupied
<1>6. WriteTypeOK'
  BY <1>1, <1>2, <1>3, <1>4 DEF WriteInv, WriteTypeOK, PublishTypeOK
<1>7. Leased'
  BY <1>1, <1>2, <1>3, <1>4 DEF WriteInv, WriteTypeOK, PublishTypeOK, Leased
<1>8. Spoken'
  BY <1>1, <1>2, <1>4, SpokenAfter DEF WriteInv, Spoken, Speaks
<1>9. JournalProves'
  BY <1>1, JournalStays
<1>10. JournalFits'
  BY <1>1, <1>2, <1>3, <1>4
     DEF WriteInv, WriteTypeOK, PublishTypeOK, Leased, JournalFits, JournalProves, At,
         Pending, NoJournal
<1>11. TreeFits'
  BY <1>1, <1>4 DEF TreeFits, TreeIsWhole
<1>12. Alone'
  BY <1>1, <1>5, AloneClears
<1>13. RecordsMatchTree'
  BY <1>1, <1>2, <1>3, <1>4, RecordsStay
<1> QED
  BY <1>6, <1>7, <1>8, <1>9, <1>10, <1>11, <1>12, <1>13 DEF WriteInv

\* A file is replaced by its preimage.
LEMMA FileIsReplaced ==
  ASSUME WriteInv, NEW o \in Operation, lease # Nothing, lease.op = o,
         UNCHANGED <<subject, settled, lease, auth, faults>>,
         UNCHANGED <<thread, records, unit>>, Replace
  PROVE  WriteInv'
<1>1. /\ lease # Nothing /\ lease.op = o /\ lease.by \in {"gateway", "reconcile"}
      /\ phase = "replace" /\ phase' \in Restoring
      /\ journal.state = "prepared" /\ journal' = journal
      /\ UNCHANGED <<lease, auth, faults, subject, settled>>
      /\ UNCHANGED <<stream, result, trace, shared, unit, thread>>
  <2>1. lease.by \in {"gateway", "reconcile"} /\ phase \in RecoverPhases
    BY HolderFacts DEF Replace, WriteInv, Leased
  <2> QED
    BY <2>1 DEF Replace, Turns, disk, records, WriteInv, JournalFits, RolledBack
<1>2. /\ Len(Diff) \in Nat /\ Entry = 1 .. Len(Diff) /\ place \in 1 .. Len(Diff)
      /\ tree[place] = "after"
  BY <1>1, DiffLength DEF Replace, WriteInv, TreeFits, RestoredSoFar
<1>3. \/ /\ tree' = [tree EXCEPT ![place] = "before"] /\ temp' = [temp EXCEPT ![place] = FALSE]
         /\ place' = place - 1 /\ phase' = IF place = 1 THEN "record" ELSE "rollback"
  BY <1>1, <1>2, DiffLength DEF Replace, RolledBack, Becomes, Drops
<1>4. /\ tree' \in [Entry -> {"before", "partial", "after", "foreign"}]
      /\ temp' \in [Entry -> BOOLEAN] /\ place' \in 0 .. Len(Diff) + 1 /\ RestoredSoFar'
  <2>0. /\ tree \in [Entry -> {"before", "partial", "after", "foreign"}]
        /\ temp \in [Entry -> BOOLEAN] /\ RestoredSoFar
    BY <1>1 DEF WriteInv, WriteTypeOK, PublishTypeOK, TreeFits
  <2>1. CASE /\ tree' = [tree EXCEPT ![place] = "before"] /\ temp' = [temp EXCEPT ![place] = FALSE]
           /\ place' = place - 1 /\ phase' = IF place = 1 THEN "record" ELSE "rollback"
    BY <1>1, <1>2, <2>0, <2>1 DEF RestoredSoFar
  <2> QED
    BY <1>3, <2>1
<1>5. \A q \in Operation : ~Occupied(q)' /\ unit'[q] # "running"
  BY <1>1, NotOccupied DEF Occupied
<1>6. WriteTypeOK'
  BY <1>1, <1>2, <1>3, <1>4 DEF WriteInv, WriteTypeOK, PublishTypeOK
<1>7. Leased'
  BY <1>1, <1>2, <1>3, <1>4 DEF WriteInv, WriteTypeOK, PublishTypeOK, Leased
<1>8. Spoken'
  BY <1>1, <1>2, <1>4, SpokenAfter DEF WriteInv, Spoken, Speaks
<1>9. JournalProves'
  BY <1>1, JournalStays
<1>10. JournalFits'
  BY <1>1, <1>2, <1>3, <1>4
     DEF WriteInv, WriteTypeOK, PublishTypeOK, Leased, JournalFits, JournalProves, At,
         Pending, NoJournal
<1>11. TreeFits'
  BY <1>1, <1>4 DEF TreeFits, TreeIsWhole
<1>12. Alone'
  BY <1>1, <1>5, AloneClears
<1>13. RecordsMatchTree'
  BY <1>1, <1>2, <1>3, <1>4, RecordsStay
<1> QED
  BY <1>6, <1>7, <1>8, <1>9, <1>10, <1>11, <1>12, <1>13 DEF WriteInv

\* The rollback is durable.
LEMMA RollbackIsRecorded ==
  ASSUME WriteInv, NEW o \in Operation, lease # Nothing, lease.op = o,
         UNCHANGED <<subject, settled, lease, auth, faults>>,
         UNCHANGED <<thread, records, unit>>, Record
  PROVE  WriteInv'
<1>1. /\ lease # Nothing /\ lease.op = o /\ lease.by \in {"gateway", "reconcile"}
      /\ phase = "record" /\ phase' = "recovered"
      /\ \/ Pending /\ journal.op = o
         \/ lease.by = "gateway" /\ journal = NoJournal /\ o \notin settled
      /\ journal.state = "prepared" /\ journal' = [journal EXCEPT !.state = "rolled_back"]
      /\ UNCHANGED <<tree, temp, place>>
      /\ UNCHANGED <<lease, auth, faults, subject, settled>>
      /\ UNCHANGED <<stream, result, trace, shared, unit, thread>>
  <2>1. lease.by \in {"gateway", "reconcile"} /\ phase \in RecoverPhases
    BY HolderFacts DEF Record, WriteInv, Leased
  <2> QED
    BY <2>1 DEF Record, Turns, disk, records, WriteInv, JournalFits
<1>2. /\ journal' \in [name : {Nothing, "staging", "publish", "acknowledged"},
                     state : {"unbound", "preparing", "prepared", "committed",
                              "rolled_back", "not_started"},
                     op : Operation \cup {Nothing}]
      /\ journal'.name = journal.name /\ journal'.op = journal.op /\ journal'.state = "rolled_back"
      /\ journal # NoJournal
  <2>1. journal \in [name : {Nothing, "staging", "publish", "acknowledged"},
                    state : {"unbound", "preparing", "prepared", "committed",
                             "rolled_back", "not_started"},
                    op : Operation \cup {Nothing}]
    BY DEF WriteInv, WriteTypeOK, PublishTypeOK
  <2>2. journal # NoJournal
    BY <1>1 DEF NoJournal
  <2> QED
    BY <1>1, <2>1, <2>2
<1>3. subject \notin settled /\ \A e \in Entry : tree[e] \in {"before", "foreign"} /\ ~temp[e]
  <2>1. Len(Diff) \in Nat /\ place = 0 /\ \A e \in Entry : e \in Nat /\ e > place
    BY <1>1, DiffLength DEF WriteInv, TreeFits, RestoredSoFar
  <2> QED
    BY <1>1, <2>1 DEF WriteInv, TreeFits, RestoredSoFar, JournalProves
<1>4. \A q \in Operation : ~Occupied(q)' /\ unit'[q] # "running"
  BY <1>1, NotOccupied DEF Occupied
<1>5. WriteTypeOK'
  BY <1>1, <1>2, <1>3 DEF WriteInv, WriteTypeOK, PublishTypeOK
<1>6. Leased'
  BY <1>1, <1>2, <1>3 DEF WriteInv, WriteTypeOK, PublishTypeOK, Leased
<1>7. Spoken'
  BY <1>1, <1>2, SpokenAfter DEF WriteInv, Spoken, Speaks
<1>8. JournalProves'
  BY <1>1, <1>2 DEF WriteInv, JournalProves, Pending, NoJournal
<1>9. JournalFits'
  BY <1>1, <1>2 DEF JournalFits, Pending
<1>10. TreeFits'
  BY <1>1, <1>2, <1>3 DEF TreeFits, TreeIsWhole, Whole
<1>11. Alone'
  BY <1>1, <1>4, AloneClears
<1>12. RecordsMatchTree'
  BY <1>1, <1>2, <1>3, RecordsStay
<1> QED
  BY <1>5, <1>6, <1>7, <1>8, <1>9, <1>10, <1>11, <1>12 DEF WriteInv

\* A recovery fails: the journal stays.
LEMMA RecoveryFails ==
  ASSUME WriteInv, NEW o \in Operation, lease # Nothing, lease.op = o,
         UNCHANGED <<thread, records, unit>>, RecoverFails
  PROVE  WriteInv'
<1>1. /\ lease # Nothing /\ lease.op = o /\ lease.by \in {"gateway", "reconcile"}
      /\ phase \in RecoverPhases /\ phase' = "unrecovered"
      /\ UNCHANGED <<tree, temp, journal, place, lease, auth, subject, settled>>
      /\ UNCHANGED <<stream, result, trace, shared, unit, thread>>
  <2>1. lease.by \in {"gateway", "reconcile"} /\ phase \in RecoverPhases
    BY HolderFacts DEF RecoverFails, WriteInv, Leased
  <2> QED
    BY <2>1 DEF RecoverFails, Turns, disk, records, WriteInv
<1>2. faults' \in 0 .. MaxFaults
  <2>1. MaxFaults \in Nat /\ faults \in 0 .. MaxFaults
    BY PublishAssumption DEF WriteInv, WriteTypeOK, PublishTypeOK
  <2> QED
    BY <2>1 DEF RecoverFails
<1>3. \A q \in Operation : ~Occupied(q)' /\ unit'[q] # "running"
  BY <1>1, NotOccupied DEF Occupied
<1>4. WriteTypeOK'
  BY <1>1, <1>2 DEF WriteInv, WriteTypeOK, PublishTypeOK
<1>5. Leased'
  BY <1>1, <1>2 DEF WriteInv, WriteTypeOK, PublishTypeOK, Leased
<1>6. Spoken'
  BY <1>1, SpokenAfter DEF WriteInv, Spoken, Speaks
<1>7. JournalProves'
  BY <1>1, <1>2, JournalStays
<1>8. JournalFits'
  BY <1>1, <1>2
     DEF WriteInv, WriteTypeOK, PublishTypeOK, Leased, JournalFits, JournalProves, At,
         Pending, NoJournal
<1>9. TreeFits'
  BY <1>1, TreeStays
<1>10. Alone'
  BY <1>1, <1>3, AloneClears
<1>11. RecordsMatchTree'
  BY <1>1, <1>2, RecordsStay
<1> QED
  BY <1>4, <1>5, <1>6, <1>7, <1>8, <1>9, <1>10, <1>11 DEF WriteInv

\* The journal gets the name that releases it.
LEMMA JournalIsAcknowledged ==
  ASSUME WriteInv, NEW o \in Operation, lease # Nothing, lease.op = o, Acknowledge,
         UNCHANGED <<thread, records, unit>>, phase = "ack", journal.name # "acknowledged",
         phase' = "discard"
  PROVE  WriteInv'
<1>1. /\ lease # Nothing /\ lease.op = o /\ lease.by \in {"service", "reconcile"}
      /\ phase = "ack" /\ phase' = "discard"
      /\ journal.name = "publish" \/ journal.name = "staging"
      /\ journal.state # "prepared" /\ journal.state # "unbound"
      /\ journal' = [journal EXCEPT !.name = "acknowledged"]
      /\ UNCHANGED <<tree, temp, place, subject, settled, lease, auth, faults>>
      /\ UNCHANGED <<stream, result, trace, shared, unit, thread>>
  <2>1. lease.by \in {"service", "reconcile"}
    BY HolderFacts DEF WriteInv, Leased
  <2> QED
    BY <2>1 DEF Acknowledge, Turns, disk, records, WriteInv, JournalFits, JournalProves, Pending
<1>2. \A q \in Operation : thread[q] # "gateway" /\ ~HasLease(q, "gateway")' 
  BY <1>1, HolderFacts
<1>3. /\ journal' \in [name : {Nothing, "staging", "publish", "acknowledged"},
                     state : {"unbound", "preparing", "prepared", "committed",
                              "rolled_back", "not_started"},
                     op : Operation \cup {Nothing}]
      /\ journal'.name = "acknowledged" /\ journal'.op = journal.op
      /\ journal'.state = journal.state
  <2>1. journal \in [name : {Nothing, "staging", "publish", "acknowledged"},
                    state : {"unbound", "preparing", "prepared", "committed",
                             "rolled_back", "not_started"},
                    op : Operation \cup {Nothing}]
    BY DEF WriteInv, WriteTypeOK, PublishTypeOK
  <2> QED
    BY <1>1, <2>1 DEF WriteInv, JournalProves, NoJournal
<1>4. \A q \in Operation : ~Occupied(q)' /\ unit'[q] # "running"
  <2>1. \A q \in Operation : ~Occupied(q)
    BY <1>1 DEF WriteInv, Alone, AloneOf, NoJournal
  <2>2. \A q \in Operation : ~Occupied(q)'
    BY <1>1, <2>1 DEF Occupied
  <2> QED
    BY <1>1, <2>1, <2>2 DEF WriteInv, Alone, AloneOf
<1>5. WriteTypeOK'
  BY <1>1, <1>2, <1>3 DEF WriteInv, WriteTypeOK, PublishTypeOK
<1>6. Leased'
  BY <1>1, <1>2, <1>3 DEF WriteInv, WriteTypeOK, PublishTypeOK, Leased
<1>7. Spoken'
  <2>1. Speaks'
    BY <1>1, <1>2, HolderIs DEF WriteInv, Spoken, SpokenOf, Speaks, Attempting
  <2>2. \A q \in Operation : Attempting(q)' => Attempting(q)
    BY <1>1, <1>2 DEF Attempting
  <2>3. \A q \in Operation : Silent(q)' <=> Silent(q)
    BY <1>1, <1>2, RecordsStay
  <2>4. \A q \in Operation :
          /\ thread'[q] \in Waiting => thread[q] \in Waiting /\ ~trace'[q].start
          /\ thread'[q] = "acknowledge" => thread[q] = "acknowledge" /\ result'[q] = result[q]
    BY <1>1, <1>2 DEF WriteInv, Spoken, SpokenOf
  <2> QED
    BY <1>1, <1>2, <2>1, <2>2, <2>3, <2>4, SpokenStays
<1>8. JournalProves'
  BY <1>1, <1>2, <1>3 DEF WriteInv, WriteTypeOK, PublishTypeOK, JournalProves, NoJournal
<1>9. JournalFits'
  BY <1>1, <1>2, <1>3 DEF JournalFits, NoJournal
<1>10. TreeFits'
  BY <1>1, <1>2, <1>3 DEF WriteInv, TreeFits, TreeIsWhole, Whole, NoJournal
<1>11. Alone'
  BY <1>1, <1>4, AloneClears
<1>12. RecordsMatchTree'
  BY <1>1, <1>2, <1>3, RecordsStay
<1> QED
  BY <1>5, <1>6, <1>7, <1>8, <1>9, <1>10, <1>11, <1>12 DEF WriteInv

\* The journal was acknowledged before.
LEMMA JournalWasAcknowledged ==
  ASSUME WriteInv, NEW o \in Operation, lease # Nothing, lease.op = o, Acknowledge,
         UNCHANGED <<thread, records, unit>>, phase = "ack", journal.name = "acknowledged",
         phase' = "discard"
  PROVE  WriteInv'
<1>1. /\ lease # Nothing /\ lease.op = o /\ lease.by \in {"service", "reconcile"}
      /\ phase = "ack" /\ phase' = "discard"
      /\ journal.name = "acknowledged" /\ journal' = journal
      /\ UNCHANGED <<tree, temp, place, subject, settled, lease, auth, faults>>
      /\ UNCHANGED <<stream, result, trace, shared, unit, thread>>
  <2>1. lease.by \in {"service", "reconcile"}
    BY HolderFacts DEF WriteInv, Leased
  <2> QED
    BY <2>1 DEF Acknowledge, Turns, disk, records, WriteInv, JournalFits, JournalProves, Pending
<1>2. \A q \in Operation : thread[q] # "gateway" /\ ~HasLease(q, "gateway")' 
  BY <1>1, HolderFacts
<1>3. /\ journal' \in [name : {Nothing, "staging", "publish", "acknowledged"},
                     state : {"unbound", "preparing", "prepared", "committed",
                              "rolled_back", "not_started"},
                     op : Operation \cup {Nothing}]
      /\ journal'.name = journal.name /\ journal'.op = journal.op /\ journal'.state = journal.state
  <2>1. journal \in [name : {Nothing, "staging", "publish", "acknowledged"},
                    state : {"unbound", "preparing", "prepared", "committed",
                             "rolled_back", "not_started"},
                    op : Operation \cup {Nothing}]
    BY DEF WriteInv, WriteTypeOK, PublishTypeOK
  <2> QED
    BY <1>1, <2>1 DEF WriteInv, JournalProves, NoJournal
<1>4. \A q \in Operation : ~Occupied(q)' /\ unit'[q] # "running"
  <2>1. \A q \in Operation : ~Occupied(q)
    BY <1>1 DEF WriteInv, Alone, AloneOf, NoJournal
  <2>2. \A q \in Operation : ~Occupied(q)'
    BY <1>1, <2>1 DEF Occupied
  <2> QED
    BY <1>1, <2>1, <2>2 DEF WriteInv, Alone, AloneOf
<1>5. WriteTypeOK'
  BY <1>1, <1>2, <1>3 DEF WriteInv, WriteTypeOK, PublishTypeOK
<1>6. Leased'
  BY <1>1, <1>2, <1>3 DEF WriteInv, WriteTypeOK, PublishTypeOK, Leased
<1>7. Spoken'
  <2>1. Speaks'
    BY <1>1, <1>2, HolderIs DEF WriteInv, Spoken, SpokenOf, Speaks, Attempting
  <2>2. \A q \in Operation : Attempting(q)' => Attempting(q)
    BY <1>1, <1>2 DEF Attempting
  <2>3. \A q \in Operation : Silent(q)' <=> Silent(q)
    BY <1>1, <1>2, RecordsStay
  <2>4. \A q \in Operation :
          /\ thread'[q] \in Waiting => thread[q] \in Waiting /\ ~trace'[q].start
          /\ thread'[q] = "acknowledge" => thread[q] = "acknowledge" /\ result'[q] = result[q]
    BY <1>1, <1>2 DEF WriteInv, Spoken, SpokenOf
  <2> QED
    BY <1>1, <1>2, <2>1, <2>2, <2>3, <2>4, SpokenStays
<1>8. JournalProves'
  BY <1>1, <1>2, <1>3 DEF WriteInv, WriteTypeOK, PublishTypeOK, JournalProves, NoJournal
<1>9. JournalFits'
  BY <1>1, <1>2, <1>3 DEF JournalFits, NoJournal
<1>10. TreeFits'
  BY <1>1, <1>2, <1>3 DEF WriteInv, TreeFits, TreeIsWhole, Whole, NoJournal
<1>11. Alone'
  BY <1>1, <1>4, AloneClears
<1>12. RecordsMatchTree'
  BY <1>1, <1>2, <1>3, RecordsStay
<1> QED
  BY <1>5, <1>6, <1>7, <1>8, <1>9, <1>10, <1>11, <1>12 DEF WriteInv

\* The state of the journal is removed.
LEMMA JournalIsDiscarded ==
  ASSUME WriteInv, NEW o \in Operation, lease # Nothing, lease.op = o, Acknowledge,
         UNCHANGED <<thread, records, unit>>, phase = "discard"
  PROVE  WriteInv'
<1>1. /\ lease # Nothing /\ lease.op = o /\ lease.by \in {"service", "reconcile"}
      /\ phase = "discard" /\ phase' = "remove"
      /\ journal.name = "acknowledged" /\ journal' = [journal EXCEPT !.state = "unbound"]
      /\ UNCHANGED <<tree, temp, place, subject, settled, lease, auth, faults>>
      /\ UNCHANGED <<stream, result, trace, shared, unit, thread>>
  <2>1. lease.by \in {"service", "reconcile"}
    BY HolderFacts DEF WriteInv, Leased
  <2> QED
    BY <2>1 DEF Acknowledge, Turns, disk, records, WriteInv, JournalFits, JournalProves, Pending
<1>2. \A q \in Operation : thread[q] # "gateway" /\ ~HasLease(q, "gateway")' 
  BY <1>1, HolderFacts
<1>3. /\ journal' \in [name : {Nothing, "staging", "publish", "acknowledged"},
                     state : {"unbound", "preparing", "prepared", "committed",
                              "rolled_back", "not_started"},
                     op : Operation \cup {Nothing}]
      /\ journal'.name = "acknowledged" /\ journal'.op = journal.op /\ journal'.state = "unbound"
      /\ journal.state # "prepared"
  <2>1. journal \in [name : {Nothing, "staging", "publish", "acknowledged"},
                    state : {"unbound", "preparing", "prepared", "committed",
                             "rolled_back", "not_started"},
                    op : Operation \cup {Nothing}]
    BY DEF WriteInv, WriteTypeOK, PublishTypeOK
  <2> QED
    BY <1>1, <2>1 DEF WriteInv, JournalProves, NoJournal
<1>4. \A q \in Operation : ~Occupied(q)' /\ unit'[q] # "running"
  <2>1. \A q \in Operation : ~Occupied(q)
    BY <1>1 DEF WriteInv, Alone, AloneOf, NoJournal
  <2>2. \A q \in Operation : ~Occupied(q)'
    BY <1>1, <2>1 DEF Occupied
  <2> QED
    BY <1>1, <2>1, <2>2 DEF WriteInv, Alone, AloneOf
<1>5. WriteTypeOK'
  BY <1>1, <1>2, <1>3 DEF WriteInv, WriteTypeOK, PublishTypeOK
<1>6. Leased'
  BY <1>1, <1>2, <1>3 DEF WriteInv, WriteTypeOK, PublishTypeOK, Leased
<1>7. Spoken'
  <2>1. Speaks'
    BY <1>1, <1>2, HolderIs DEF WriteInv, Spoken, SpokenOf, Speaks, Attempting
  <2>2. \A q \in Operation : Attempting(q)' => Attempting(q)
    BY <1>1, <1>2 DEF Attempting
  <2>3. \A q \in Operation : Silent(q)' <=> Silent(q)
    BY <1>1, <1>2, RecordsStay
  <2>4. \A q \in Operation :
          /\ thread'[q] \in Waiting => thread[q] \in Waiting /\ ~trace'[q].start
          /\ thread'[q] = "acknowledge" => thread[q] = "acknowledge" /\ result'[q] = result[q]
    BY <1>1, <1>2 DEF WriteInv, Spoken, SpokenOf
  <2> QED
    BY <1>1, <1>2, <2>1, <2>2, <2>3, <2>4, SpokenStays
<1>8. JournalProves'
  BY <1>1, <1>2, <1>3 DEF WriteInv, WriteTypeOK, PublishTypeOK, JournalProves, NoJournal
<1>9. JournalFits'
  BY <1>1, <1>2, <1>3 DEF JournalFits, NoJournal
<1>10. TreeFits'
  BY <1>1, <1>2, <1>3 DEF WriteInv, TreeFits, TreeIsWhole, Whole, NoJournal
<1>11. Alone'
  BY <1>1, <1>4, AloneClears
<1>12. RecordsMatchTree'
  BY <1>1, <1>2, <1>3, RecordsStay
<1> QED
  BY <1>5, <1>6, <1>7, <1>8, <1>9, <1>10, <1>11, <1>12 DEF WriteInv

\* The transaction directory is removed.
LEMMA JournalIsRemoved ==
  ASSUME WriteInv, NEW o \in Operation, lease # Nothing, lease.op = o, Acknowledge,
         UNCHANGED <<thread, records, unit>>, phase = "remove"
  PROVE  WriteInv'
<1>1. /\ lease # Nothing /\ lease.op = o /\ lease.by \in {"service", "reconcile"}
      /\ phase = "remove" /\ phase' = "released"
      /\ journal.name = "acknowledged" /\ journal.state = "unbound" /\ journal' = NoJournal
      /\ UNCHANGED <<tree, temp, place, subject, settled, lease, auth, faults>>
      /\ UNCHANGED <<stream, result, trace, shared, unit, thread>>
  <2>1. lease.by \in {"service", "reconcile"}
    BY HolderFacts DEF WriteInv, Leased
  <2> QED
    BY <2>1 DEF Acknowledge, Turns, disk, records, WriteInv, JournalFits, JournalProves, Pending
<1>2. \A q \in Operation : thread[q] # "gateway" /\ ~HasLease(q, "gateway")' 
  BY <1>1, HolderFacts
<1>3. /\ journal' \in [name : {Nothing, "staging", "publish", "acknowledged"},
                     state : {"unbound", "preparing", "prepared", "committed",
                              "rolled_back", "not_started"},
                     op : Operation \cup {Nothing}]
      /\ journal' = NoJournal /\ journal'.name = Nothing /\ journal'.op = Nothing
      /\ journal'.state = "unbound"
  <2>1. journal \in [name : {Nothing, "staging", "publish", "acknowledged"},
                    state : {"unbound", "preparing", "prepared", "committed",
                             "rolled_back", "not_started"},
                    op : Operation \cup {Nothing}]
    BY DEF WriteInv, WriteTypeOK, PublishTypeOK
  <2> QED
    BY <1>1, <2>1 DEF WriteInv, JournalProves, NoJournal
<1>4. \A q \in Operation : ~Occupied(q)' /\ unit'[q] # "running"
  <2>1. \A q \in Operation : ~Occupied(q)
    BY <1>1 DEF WriteInv, Alone, AloneOf, NoJournal
  <2>2. \A q \in Operation : ~Occupied(q)'
    BY <1>1, <2>1 DEF Occupied
  <2> QED
    BY <1>1, <2>1, <2>2 DEF WriteInv, Alone, AloneOf
<1>5. WriteTypeOK'
  BY <1>1, <1>2, <1>3 DEF WriteInv, WriteTypeOK, PublishTypeOK
<1>6. Leased'
  BY <1>1, <1>2, <1>3 DEF WriteInv, WriteTypeOK, PublishTypeOK, Leased
<1>7. Spoken'
  <2>1. Speaks'
    BY <1>1, <1>2, HolderIs DEF WriteInv, Spoken, SpokenOf, Speaks, Attempting
  <2>2. \A q \in Operation : Attempting(q)' => Attempting(q)
    BY <1>1, <1>2 DEF Attempting
  <2>3. \A q \in Operation : Silent(q)' <=> Silent(q)
    BY <1>1, <1>2, RecordsStay
  <2>4. \A q \in Operation :
          /\ thread'[q] \in Waiting => thread[q] \in Waiting /\ ~trace'[q].start
          /\ thread'[q] = "acknowledge" => thread[q] = "acknowledge" /\ result'[q] = result[q]
    BY <1>1, <1>2 DEF WriteInv, Spoken, SpokenOf
  <2> QED
    BY <1>1, <1>2, <2>1, <2>2, <2>3, <2>4, SpokenStays
<1>8. JournalProves'
  BY <1>1, <1>2, <1>3 DEF WriteInv, WriteTypeOK, PublishTypeOK, JournalProves, NoJournal
<1>9. JournalFits'
  BY <1>1, <1>2, <1>3 DEF JournalFits, NoJournal
<1>10. TreeFits'
  BY <1>1, <1>2, <1>3 DEF WriteInv, TreeFits, TreeIsWhole, Whole, NoJournal
<1>11. Alone'
  BY <1>1, <1>4, AloneClears
<1>12. RecordsMatchTree'
  BY <1>1, <1>2, <1>3, RecordsStay
<1> QED
  BY <1>5, <1>6, <1>7, <1>8, <1>9, <1>10, <1>11, <1>12 DEF WriteInv

\* There is no journal of the operation to release.
LEMMA NothingToRelease ==
  ASSUME WriteInv, NEW o \in Operation, lease # Nothing, lease.op = o, Acknowledge,
         UNCHANGED <<thread, records, unit>>, phase = "ack", phase' = "released"
  PROVE  WriteInv'
<1>1. /\ lease # Nothing /\ lease.op = o /\ lease.by \in {"service", "reconcile"}
      /\ phase = "ack" /\ phase' = "released"
      /\ journal' = journal
      /\ UNCHANGED <<tree, temp, place, subject, settled, lease, auth, faults>>
      /\ UNCHANGED <<stream, result, trace, shared, unit, thread>>
  <2>1. lease.by \in {"service", "reconcile"}
    BY HolderFacts DEF WriteInv, Leased
  <2> QED
    BY <2>1 DEF Acknowledge, Turns, disk, records, WriteInv, JournalFits, JournalProves, Pending
<1>2. \A q \in Operation : thread[q] # "gateway" /\ ~HasLease(q, "gateway")' 
  BY <1>1, HolderFacts
<1>3. WriteTypeOK'
  BY <1>1, <1>2 DEF WriteInv, WriteTypeOK, PublishTypeOK
<1>4. Leased'
  BY <1>1, <1>2 DEF WriteInv, WriteTypeOK, PublishTypeOK, Leased
<1>5. Spoken'
  <2>1. Speaks'
    BY <1>1, <1>2, HolderIs DEF WriteInv, Spoken, SpokenOf, Speaks, Attempting
  <2>2. \A q \in Operation : Attempting(q)' => Attempting(q)
    BY <1>1, <1>2 DEF Attempting
  <2>3. \A q \in Operation : Silent(q)' <=> Silent(q)
    BY <1>1, <1>2, RecordsStay
  <2>4. \A q \in Operation :
          /\ thread'[q] \in Waiting => thread[q] \in Waiting /\ ~trace'[q].start
          /\ thread'[q] = "acknowledge" => thread[q] = "acknowledge" /\ result'[q] = result[q]
    BY <1>1, <1>2 DEF WriteInv, Spoken, SpokenOf
  <2> QED
    BY <1>1, <1>2, <2>1, <2>2, <2>3, <2>4, SpokenStays
<1>6. JournalProves'
  BY <1>1, <1>2, JournalStays
<1>7. JournalFits'
  BY <1>1, <1>2
     DEF WriteInv, WriteTypeOK, PublishTypeOK, Leased, JournalFits, JournalProves, At,
         Pending, NoJournal
<1>8. TreeFits'
  BY <1>1, TreeStays
<1>9. Alone'
  BY <1>1, <1>2, AloneStays DEF Unresolved, Occupied
<1>10. RecordsMatchTree'
  BY <1>1, <1>2, RecordsStay
<1> QED
  BY <1>3, <1>4, <1>5, <1>6, <1>7, <1>8, <1>9, <1>10 DEF WriteInv

\* The snapshot is taken and the candidate starts.
LEMMA CandidateIsLaunched ==
  ASSUME WriteInv, NEW o \in Operation, LaunchCandidate(o)
  PROVE  WriteInv'
<1>1. /\ HasLease(o, "gateway") /\ thread[o] = "gateway"
      /\ lease # Nothing /\ lease.op = o /\ lease.by = "gateway"
      /\ phase = "launch" /\ phase' = "wait" /\ journal = NoJournal
      /\ subject' = o /\ tree' = [e \in Entry |-> "before"] /\ temp' = [e \in Entry |-> FALSE]
      /\ o \notin settled /\ unit' = [unit EXCEPT ![o] = "running"]
      /\ UNCHANGED <<journal, place, lease, auth, faults, settled>>
      /\ UNCHANGED <<thread, stream, result, trace, shared>>
  BY HolderIs
     DEF LaunchCandidate, Gateway, Moves, records, WriteInv, Leased, Spoken, SpokenOf,
         Attempting, JournalFits
<1>2. /\ Occupied(o) /\ \A q \in Operation : ~Unresolved(q) /\ (Occupied(q) => q = o)
      /\ \A q \in Operation \ {o} : unit'[q] = unit[q]
  BY <1>1 DEF WriteInv, WriteTypeOK, Alone, AloneOf
<1>3. WriteTypeOK'
  BY <1>1, <1>2 DEF WriteInv, WriteTypeOK, PublishTypeOK
<1>4. Leased'
  BY <1>1, <1>2 DEF WriteInv, WriteTypeOK, PublishTypeOK, Leased
<1>5. Spoken'
  BY <1>1, <1>2
     DEF WriteInv, WriteTypeOK, PublishTypeOK, Leased, Spoken, SpokenOf, Speaks, Silent,
         Attempting
<1>6. JournalProves'
  BY <1>1 DEF WriteInv, JournalProves, NoJournal
<1>7. JournalFits'
  BY <1>1 DEF JournalFits
<1>8. TreeFits'
  BY <1>1 DEF TreeFits, TreeIsWhole, Whole
<1>9. Alone'
  <2>1. \A q \in Operation : (Unresolved(q)' <=> Unresolved(q)) /\ (Occupied(q)' <=> Occupied(q))
    BY <1>1 DEF Unresolved, Occupied
  <2>2. ASSUME NEW q \in Operation PROVE AloneOf(q)'
    <3>1. unit'[q] = "running" => Occupied(q)'
      BY <1>1, <1>2, <2>1 DEF WriteInv, Alone, AloneOf
    <3>2. Occupied(q)' => q = o /\ lease' # Nothing /\ lease'.op = o /\ phase' = "wait"
      BY <1>1, <1>2, <2>1
    <3>3. \A p \in Operation : ~Unresolved(p)' /\ (Occupied(p)' => p = o)
      BY <1>2, <2>1
    <3>4. thread'[q] \in Waiting => unit'[q] = "none"
      BY <1>1, <1>2 DEF WriteInv, Alone, AloneOf
    <3> QED
      BY <1>1, <3>1, <3>2, <3>3, <3>4 DEF AloneOf
  <2> QED
    BY <1>1, <1>2, <2>1, <2>2 DEF Alone
<1>10. RecordsMatchTree'
  BY <1>1, <1>2, RecordsStay
<1> QED
  BY <1>3, <1>4, <1>5, <1>6, <1>7, <1>8, <1>9, <1>10 DEF WriteInv

\* Somebody else writes to a path.
LEMMA WorkspaceIsEdited ==
  ASSUME WriteInv, UNCHANGED <<thread, records, unit>>, Interfere
  PROVE  WriteInv'
<1>1. /\ UNCHANGED <<temp, journal, place, phase, lease, auth, subject, settled>>
      /\ UNCHANGED <<stream, result, trace, shared, unit, thread>>
  BY DEF Interfere, records
<1>2. faults' \in 0 .. MaxFaults
  <2>1. MaxFaults \in Nat /\ faults \in 0 .. MaxFaults
    BY PublishAssumption DEF WriteInv, WriteTypeOK, PublishTypeOK
  <2> QED
    BY <2>1 DEF Interfere
<1>3. /\ tree' \in [Entry -> {"before", "partial", "after", "foreign"}]
      /\ \A e \in Entry : tree'[e] = tree[e] \/ tree'[e] = "foreign"
  BY DEF Interfere, Becomes, WriteInv, WriteTypeOK, PublishTypeOK
<1>4. WriteTypeOK'
  BY <1>1, <1>2, <1>3 DEF WriteInv, WriteTypeOK, PublishTypeOK
<1>5. Leased'
  BY <1>1, <1>2, <1>3 DEF WriteInv, WriteTypeOK, PublishTypeOK, Leased
<1>6. Spoken'
  <2>1. Speaks'
    BY <1>1, HolderIs DEF WriteInv, Spoken, SpokenOf, Speaks, Attempting
  <2>2. \A q \in Operation : Attempting(q)' => Attempting(q)
    BY <1>1 DEF Attempting
  <2>3. \A q \in Operation : Silent(q)' <=> Silent(q)
    BY <1>1, RecordsStay
  <2>4. \A q \in Operation :
          /\ thread'[q] \in Waiting => thread[q] \in Waiting /\ ~trace'[q].start
          /\ thread'[q] = "acknowledge" => thread[q] = "acknowledge" /\ result'[q] = result[q]
    BY <1>1 DEF WriteInv, Spoken, SpokenOf
  <2> QED
    BY <1>1, <2>1, <2>2, <2>3, <2>4, SpokenStays
<1>7. JournalProves'
  BY <1>1, <1>2, <1>3, JournalStays
<1>8. JournalFits'
  BY <1>1, <1>2, <1>3
     DEF WriteInv, WriteTypeOK, PublishTypeOK, Leased, JournalFits, JournalProves, At,
         Pending, NoJournal
<1>9. TreeFits'
  <2>1. TreeIsWhole'
    BY <1>1, <1>3 DEF WriteInv, TreeFits, TreeIsWhole, Whole
  <2>2. Len(Diff) \in Nat /\ Entry = 1 .. Len(Diff)
    BY DiffLength
  <2>3. phase \in Applying => AppliedSoFar'
    BY <1>1, <1>3, <2>2 DEF WriteInv, TreeFits, AppliedSoFar
  <2>4. phase \in Restoring => RestoredSoFar'
    BY <1>1, <1>3, <2>2 DEF WriteInv, TreeFits, RestoredSoFar
  <2> QED
    BY <1>1, <2>1, <2>3, <2>4 DEF TreeFits
<1>10. Alone'
  BY <1>1, <1>2, <1>3
     DEF WriteInv, WriteTypeOK, PublishTypeOK, Leased, Alone, AloneOf, Spoken, SpokenOf,
         JournalFits, Unresolved, Occupied, Silent, Attempting
<1>11. RecordsMatchTree'
  BY <1>1, <1>2, <1>3, RecordsStay
<1> QED
  BY <1>4, <1>5, <1>6, <1>7, <1>8, <1>9, <1>10, <1>11 DEF WriteInv

\* The authority of the operation in the gateway is lost.
LEMMA AuthorityIsLost ==
  ASSUME WriteInv, UNCHANGED <<thread, records, unit>>, LoseAuthority
  PROVE  WriteInv'
<1>1. /\ UNCHANGED <<tree, temp, journal, place, phase, lease, faults, subject, settled>>
      /\ UNCHANGED <<stream, result, trace, shared, unit, thread>>
  BY DEF LoseAuthority, disk, records
<1>2. auth' \in [Operation -> BOOLEAN]
  <2>1. lease.op \in Operation /\ auth \in [Operation -> BOOLEAN]
    BY HolderFacts DEF LoseAuthority, WriteInv, WriteTypeOK, PublishTypeOK
  <2> QED
    BY <2>1 DEF LoseAuthority
<1>3. WriteTypeOK'
  BY <1>1, <1>2 DEF WriteInv, WriteTypeOK, PublishTypeOK
<1>4. Leased'
  BY <1>1, <1>2 DEF WriteInv, WriteTypeOK, PublishTypeOK, Leased
<1>5. Spoken'
  <2>1. Speaks'
    BY <1>1, HolderIs DEF WriteInv, Spoken, SpokenOf, Speaks, Attempting
  <2>2. \A q \in Operation : Attempting(q)' => Attempting(q)
    BY <1>1 DEF Attempting
  <2>3. \A q \in Operation : Silent(q)' <=> Silent(q)
    BY <1>1, RecordsStay
  <2>4. \A q \in Operation :
          /\ thread'[q] \in Waiting => thread[q] \in Waiting /\ ~trace'[q].start
          /\ thread'[q] = "acknowledge" => thread[q] = "acknowledge" /\ result'[q] = result[q]
    BY <1>1 DEF WriteInv, Spoken, SpokenOf
  <2> QED
    BY <1>1, <2>1, <2>2, <2>3, <2>4, SpokenStays
<1>6. JournalProves'
  BY <1>1, <1>2, JournalStays
<1>7. JournalFits'
  BY <1>1, <1>2
     DEF WriteInv, WriteTypeOK, PublishTypeOK, Leased, JournalFits, JournalProves, At,
         Pending, NoJournal
<1>8. TreeFits'
  BY <1>1, TreeKept
<1>9. Alone'
  BY <1>1, <1>2
     DEF WriteInv, WriteTypeOK, PublishTypeOK, Leased, Alone, AloneOf, Spoken, SpokenOf,
         JournalFits, Unresolved, Occupied, Silent, Attempting
<1>10. RecordsMatchTree'
  BY <1>1, <1>2, RecordsStay
<1> QED
  BY <1>3, <1>4, <1>5, <1>6, <1>7, <1>8, <1>9, <1>10 DEF WriteInv

\* A step in the streams of the operation whose outcome is known.
LEMMA OutcomeStep ==
  ASSUME WriteInv, NEW o \in Operation, Complete(o) \/ Abort(o) \/ Cancel(o)
  PROVE  WriteInv'
<1>1. CASE Complete(o)
  <2>1. phase \in Completing
    BY <1>1 DEF Complete
  <2> QED
    BY <1>1, <2>1, AppliedReceiptIsKept, CompletionIsNoted, CompletionIsTold, CompletionIsAnnounced
<1>2. CASE Abort(o)
  <2>1. phase \in Aborting
    BY <1>2 DEF Abort
  <2> QED
    BY <1>2, <2>1, AbortReceiptIsKept, AbortIsNoted, AbortIsAnnounced
<1>3. CASE Cancel(o)
  <2>1. phase \in Cancelling \cup {"unknown", "uncertain"}
    BY <1>3 DEF Cancel
  <2> QED
    BY <1>3, <2>1, CancelReceiptIsKept, CancellationIsTold, OutcomeIsUnknown
<1> QED
  BY <1>1, <1>2, <1>3

\* A step of the service or of the gateway for one operation.
LEMMA OperationStep ==
  ASSUME WriteInv, NEW o \in Operation, WriteSteps(o)
  PROVE  WriteInv'
<1>1. CASE StopWorker(o) \/ Refuse(o) \/ Finish(o) \/ AcknowledgeOwn(o) \/ Lease(o) \/ Return(o)
  BY <1>1, WorkerHasStopped, OperationIsRefused, OperationIsFinished, OwnJournalIsTaken,
     LeaseIsTaken, GatewayReturns
<1>2. CASE StartOperation(o) \/ LaunchCandidate(o) \/ NotStarted(o)
  BY <1>2, OperationIsStarted, CandidateIsLaunched, CandidateIsNotStarted
<1>3. CASE Occupy(o)
  BY <1>3, WorkspaceIsOccupied, OccupationIsCancelled
<1>4. CASE Exit(o) \/ Collect(o) \/ Unconfirmed(o)
  BY <1>4, CandidateExits, CandidateIsCollected, StopIsUnconfirmed
<1>5. CASE Intend(o)
  <2>1. phase \in {"intend", "intend_run", "capture"}
    BY <1>5 DEF Intend, Gateway
  <2> QED
    BY <1>5, <2>1, PublicationIsIntended, PublicationIsCancelled, PublicationIsNoted,
       ResultIsCaptured
<1>6. CASE Conclude(o) \/ ReconcileFinish(o)
  BY <1>6, OutcomeIsConcluded, OutcomeIsReconciled
<1>7. CASE Complete(o) \/ Abort(o) \/ Cancel(o)
  BY <1>7, OutcomeStep
<1> QED
  BY <1>1, <1>2, <1>3, <1>4, <1>5, <1>6, <1>7 DEF WriteSteps

\* A step of the publisher.
LEMMA PublishStep ==
  ASSUME WriteInv, Publish, UNCHANGED <<thread, records, unit>>
  PROVE  WriteInv'
<1>1. phase \in PublishPhases
  BY DEF Publish, Commit, Fail, Stage, BindJournal, Promote, Prepare, Apply, Install, Unlink
<1>2. PICK o \in Operation : HasLease(o, "gateway")
  BY <1>1, HolderFacts DEF WriteInv, Leased
<1>3. CASE Commit \/ Fail
  BY <1>2, <1>3, PublicationIsCommitted, PublicationHasFailed
<1>4. CASE /\ Stage \/ BindJournal \/ Promote \/ Prepare \/ Apply \/ Install \/ Unlink
           /\ UNCHANGED <<lease, auth, faults, subject>>
  BY <1>2, <1>4, JournalIsStaged, JournalIsBound, JournalIsPromoted, PublicationIsPrepared,
     EntryIsBegun, EntryIsInstalled, EntryIsUnlinked
<1> QED
  BY <1>3, <1>4 DEF Publish

\* A step of a recovery.
LEMMA RecoveryStep ==
  ASSUME WriteInv, Recover, UNCHANGED <<thread, records, unit>>
  PROVE  WriteInv'
<1>1. phase \in RecoverPhases
  BY DEF Recover, RecoverStep, RecoverFails, Scan, Sweep, Restore, Remake, Replace, Record
<1>2. lease # Nothing /\ lease.op \in Operation
  BY <1>1, HolderFacts DEF WriteInv, Leased
<1>3. CASE RecoverFails
  BY <1>2, <1>3, RecoveryFails
<1>4. CASE RecoverStep
  BY <1>2, <1>4, JournalIsScanned, TemporariesAreSwept, EntryIsRestored, DirectoryIsRemade,
     FileIsReplaced, RollbackIsRecorded DEF RecoverStep
<1> QED
  BY <1>3, <1>4 DEF Recover

\* A step of an acknowledgement.
LEMMA AcknowledgeStep ==
  ASSUME WriteInv, Acknowledge, UNCHANGED <<thread, records, unit>>
  PROVE  WriteInv'
<1>1. phase \in AckPhases
  BY DEF Acknowledge
<1>2. lease # Nothing /\ lease.op \in Operation
  BY <1>1, HolderFacts DEF WriteInv, Leased
<1>3. CASE phase = "ack" /\ phase' = "discard"
  BY <1>2, <1>3, JournalIsAcknowledged, JournalWasAcknowledged
<1>4. CASE phase = "ack" /\ phase' = "released"
  BY <1>2, <1>4, NothingToRelease
<1>5. CASE phase \in {"discard", "remove"}
  BY <1>2, <1>5, JournalIsDiscarded, JournalIsRemoved
<1> QED
  BY <1>1, <1>3, <1>4, <1>5 DEF Acknowledge

\* Every step keeps the invariant.
LEMMA WriteInvStep ==
  ASSUME WriteInv, [WriteNext]_writeVars
  PROVE  WriteInv'
<1>1. ASSUME NEW o \in Operation, WriteSteps(o) \/ Reconcile(o) \/ ReconcileTerminal(o) \/ Admit(o)
      PROVE  WriteInv'
  BY <1>1, OperationStep, JournalIsReconciled, PublishedJournalIsTaken, OperationIsAdmitted
<1>2. CASE PublisherSteps
  BY <1>2, PublishStep, RecoveryStep, AcknowledgeStep DEF PublisherSteps
<1>3. CASE \/ EndCall \/ AuditFails \/ ApplicationDies
           \/ \E o \in Operation : ReceiptFails(o) \/ UnknownFails(o)
  BY <1>3, CallEnds, AuditHasFailed, ReceiptHasFailed, UnknownHasFailed, ApplicationHasDied
<1>4. CASE (Interfere \/ LoseAuthority) /\ UNCHANGED <<thread, records, unit>>
  BY <1>4, WorkspaceIsEdited, AuthorityIsLost
<1>5. CASE UNCHANGED writeVars
  BY <1>5 DEF writeVars, publisher, disk, records, WriteInv, WriteTypeOK, PublishTypeOK, Leased,
     Spoken, SpokenOf, Speaks, Silent, Attempting, JournalProves, JournalFits, At, Pending,
     TreeFits, TreeIsWhole, Whole, AppliedSoFar, RestoredSoFar, Alone, AloneOf, Unresolved,
     Occupied, RecordsMatchTree, Says
<1> QED
  BY <1>1, <1>2, <1>3, <1>4, <1>5 DEF WriteNext, Progress

LEMMA WriteInvariant == WriteSpec => []WriteInv
<1>1. WriteInit => WriteInv
  BY WriteInitInv
<1>2. WriteInv /\ [WriteNext]_writeVars => WriteInv'
  BY WriteInvStep
<1> QED
  BY <1>1, <1>2, PTL DEF WriteSpec

-----------------------------------------------------------------------------
\* The results on workspace operations.

\* The disk, the lease, the threads and the records keep their types.
THEOREM WorkspaceTyped == WriteSpec => []WriteTypeOK
<1>1. WriteInv => WriteTypeOK
  BY DEF WriteInv
<1> QED
  BY <1>1, WriteInvariant, PTL

\* Unless the journal says prepared the workspace holds the whole change set or
\* none of it and no temporary: wherever publish_workspace_diff, a rollback or
\* a second rollback failed or was killed.
THEOREM WorkspaceIsWhole == WriteSpec => []TreeIsWhole
<1>1. WriteInv => TreeIsWhole
  BY DEF WriteInv, TreeFits
<1> QED
  BY <1>1, WriteInvariant, PTL

\* What the streams say of an operation is what happened to the workspace: the
\* gateway and reconcile_publication append nothing else.
THEOREM StreamsTellTheTruth == WriteSpec => []RecordsMatchTree
<1>1. WriteInv => RecordsMatchTree
  BY DEF WriteInv
<1> QED
  BY <1>1, WriteInvariant, PTL

\* The candidate of an operation runs alone, also after its controller died:
\* nobody starts another before its stop is recorded.
THEOREM CandidatesAreAlone == WriteSpec => []CandidatesRunAlone
<1>1. ASSUME WriteInv PROVE CandidatesRunAlone
  <2> SUFFICES ASSUME NEW o \in Operation, unit[o] = "running", NEW q \in Operation \ {o}
               PROVE  unit[q] # "running" /\ ~Unresolved(q) /\ ~(Pending /\ journal.op = q)
    BY DEF CandidatesRunAlone
  <2>1. Occupied(o) /\ ~Occupied(q) /\ ~Unresolved(q) /\ journal = NoJournal
    BY <1>1 DEF WriteInv, Alone, AloneOf
  <2>2. unit[q] # "running"
    BY <1>1, <2>1 DEF WriteInv, Alone, AloneOf
  <2> QED
    BY <2>1, <2>2 DEF Pending, NoJournal
<1> QED
  BY <1>1, WriteInvariant, PTL

\* What the next step of a rollback asks of the workspace: the conditions of
\* Sweep, Restore, Remake, Replace and Record.
Restorable(e) ==
  LET d == Diff[e] IN
  /\ tree[e] # "foreign" /\ ~Unreadable(e)
  /\ \/ AlreadyBefore(e)
     \/ /\ tree[e] = "partial" \/ (tree[e] = "after" /\ (d.does = "add" \/ AtOnce(e)))
        /\ d.does = "add" => Emptied(e)
     \/ tree[e] = "after" /\ d.does = "delete" /\ d.kind = "directory" /\ ParentThere(e)
     \/ tree[e] = "after" /\ d.does # "add" /\ d.kind = "file" /\ ParentThere(e)
RollbackGoesOn ==
  phase \in {"sweep"} \cup Restoring /\ (\A e \in Entry : tree[e] # "foreign") =>
    \/ phase \in {"sweep", "record"}
    \/ /\ place \in Entry
       /\ phase = "rollback" => Restorable(place)
       /\ phase = "remake" => tree[place] = "partial"
       /\ phase = "replace" => tree[place] = "after"

\* Unless somebody edited an entry a rollback finds what its next step needs,
\* for every change set: the order of the records leaves added directories
\* empty and deleted ones there again, and no temporary makes a file unreadable.
THEOREM RollbacksGoOn == WriteSpec => []RollbackGoesOn
<1>1. ASSUME WriteInv PROVE RollbackGoesOn
  <2> SUFFICES ASSUME phase \in Restoring \ {"record"}, \A e \in Entry : tree[e] # "foreign"
               PROVE  /\ place \in Entry
                      /\ phase = "rollback" => Restorable(place)
                      /\ phase = "remake" => tree[place] = "partial"
                      /\ phase = "replace" => tree[place] = "after"
    BY DEF RollbackGoesOn
  <2>1. /\ Len(Diff) \in Nat /\ Entry = 1 .. Len(Diff) /\ place \in 1 .. Len(Diff)
        /\ \A e \in Entry : e > place => tree[e] = "before"
        /\ phase \in {"rollback", "remake"} => ~temp[place]
    BY <1>1, DiffLength DEF WriteInv, TreeFits, RestoredSoFar
  <2>2. tree[place] \in {"before", "partial", "after"} /\ Diff[place].kind \in {"file", "directory"}
    BY <1>1, <2>1, DiffLength DEF WriteInv, WriteTypeOK, PublishTypeOK
  <2>3. Diff[place].does \in {"add", "modify", "delete"}
    BY <2>1, DiffLength
  <2>4. ASSUME Diff[place].does = "add" PROVE Emptied(place)
    <3>1. \A c \in Below(place) : c \in Entry /\ place < c
      BY <2>1, <2>4, PublishAssumption DEF Below
    <3> QED
      BY <2>1, <3>1 DEF Emptied
  <2>5. ASSUME Diff[place].does # "add" PROVE ParentThere(place)
    <3>1. ASSUME Diff[place].up # 0 PROVE Diff[place].up \in Entry /\ place < Diff[place].up
      BY <2>1, <2>3, <2>5, <3>1, PublishAssumption
    <3> QED
      BY <2>1, <3>1 DEF ParentThere
  <2>6. phase = "rollback" => Restorable(place)
    BY <2>1, <2>2, <2>3, <2>4, <2>5 DEF Restorable, Unreadable, AlreadyBefore, AtOnce
  <2> QED
    BY <1>1, <2>1, <2>2, <2>6 DEF WriteInv, TreeFits, RestoredSoFar
<1> QED
  BY <1>1, WriteInvariant, PTL
=============================================================================
