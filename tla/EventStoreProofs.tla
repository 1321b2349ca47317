-------------------------- MODULE EventStoreProofs --------------------------
(***************************************************************************)
(* Proofs about the event store, for any number of processes, streams,     *)
(* keys and nested calls: its records are exact, recovery from a           *)
(* checkpoint is a replay, and what is committed is the log EventLog       *)
(* promises.  Then proofs about the health circuits, which are replays of  *)
(* streams of the store, for any number of models and probe leases and     *)
(* every policy.  Then proofs about the artifact store, whose publishers   *)
(* and inspections meet at the write lock of the event store, for any      *)
(* number of publications, digests, readers and grants.                    *)
(***************************************************************************)
EXTENDS EventStore, HealthCircuit, ArtifactStore, SequenceTheorems, FiniteSetTheorems,
        TLAPS

\* Every checkpoint holds the bodies of the events up to its version.
Anchored(d) ==
  \A s \in Stream :
    d.checkpoint[s] # None =>
      LET c == d.checkpoint[s] IN
      /\ c.version \in 1 .. Len(d.events[s])
      /\ Len(c.state) = c.version
      /\ \A i \in 1 .. c.version : c.state[i] = d.events[s][i].body

Sound(d) == d \in Databases /\ Exact(d) /\ Anchored(d)

\* What a transaction that began on d may have made of it: streams are
\* continued, by events under keys d does not know, and no record is dropped.
Grew(d, e) ==
  /\ \A s \in Stream :
       /\ Len(d.events[s]) <= Len(e.events[s])
       /\ \A i \in 1 .. Len(d.events[s]) : e.events[s][i] = d.events[s][i]
       /\ \A i \in (Len(d.events[s]) + 1) .. Len(e.events[s]) :
            d.record[<<s[2], e.events[s][i].key>>] = None
  /\ \A r \in Id \X Key : d.record[r] # None => e.record[r] # None

\* A database the open transaction is in, or may roll back to.
Reached(d) == Sound(d) /\ Grew(db, d)

Frames == [stream : Stream, key : Key, version : Nat, saved : Databases]

IInv ==
  /\ Sound(db) /\ Reached(work)
  /\ stack \in Seq(Frames)
  /\ \A i \in 1 .. Len(stack) : Reached(stack[i].saved)
  /\ writer \in Process \cup {None}
  /\ writer = None <=> stack = << >>
  /\ writer = None => work = db

-----------------------------------------------------------------------------
\* What an append adds.

\* The events an append drafts.
LEMMA DraftedFacts ==
  ASSUME NEW k \in Key, NEW drafts \in Drafts, NEW v \in Nat
  PROVE  /\ Drafted(k, drafts, v) \in Seq(Events)
         /\ Len(drafts) \in Nat /\ Len(drafts) > 0
         /\ Len(Drafted(k, drafts, v)) = Len(drafts)
         /\ \A i \in 1 .. Len(drafts) :
              Drafted(k, drafts, v)[i] = [key |-> k, body |-> drafts[i], basis |-> v]
<1>1. drafts \in Seq(Body) /\ drafts # << >>
  BY StoreAssumption
<1>2. Len(drafts) \in Nat /\ Len(drafts) > 0
  BY <1>1
<1>3. \A i \in 1 .. Len(drafts) : [key |-> k, body |-> drafts[i], basis |-> v] \in Events
  BY <1>1 DEF Events
<1> QED
  BY <1>2, <1>3 DEF Drafted

\* Database e is d with an append of drafts under key k to stream s.
Added(d, e, s, k, drafts) ==
  LET n == Len(d.events[s]) IN
  /\ e \in Databases
  /\ \A t \in Stream \ {s} : e.events[t] = d.events[t] /\ e.version[t] = d.version[t]
  /\ Len(e.events[s]) = n + Len(drafts)
  /\ \A i \in 1 .. n : e.events[s][i] = d.events[s][i]
  /\ \A i \in 1 .. Len(drafts) :
       e.events[s][n + i] = [key |-> k, body |-> drafts[i], basis |-> d.version[s]]
  /\ e.version[s] = d.version[s] + Len(drafts)
  /\ d.record[<<s[2], k>>] = None
  /\ e.record[<<s[2], k>>] # None
  /\ e.record[<<s[2], k>>] =
       [type |-> s[1], request |-> drafts, first |-> d.version[s] + 1,
        last |-> d.version[s] + Len(drafts)]
  /\ \A r \in (Id \X Key) \ {<<s[2], k>>} : e.record[r] = d.record[r]
  /\ e.checkpoint = d.checkpoint
  /\ Contract(e.events[s])

\* An append leaves the old events and adds the drafted ones, with their record.
LEMMA InsertedFacts ==
  ASSUME NEW d \in Databases, NEW s \in Stream, NEW k \in Key, NEW drafts \in Drafts,
         NEW v \in Nat, Appends(d, s, v, k, drafts)
  PROVE  Added(d, Inserted(Versioned(d, s, drafts), s, v, k, drafts, v), s, k, drafts)
<1> DEFINE D == Drafted(k, drafts, v)
           w == Versioned(d, s, drafts)
           e == Inserted(w, s, v, k, drafts, v)
           r == [type |-> s[1], request |-> drafts, first |-> v + 1, last |-> v + Len(drafts)]
<1>1. /\ d.events \in [Stream -> Seq(Events)] /\ d.version \in [Stream -> Nat]
      /\ d.record \in [Id \X Key -> Records \cup {None}] /\ d.checkpoint \in [Stream -> Checkpoints \cup {None}]
      /\ d = [events |-> d.events, version |-> d.version, record |-> d.record,
              checkpoint |-> d.checkpoint]
  BY DEF Databases
<1>2. /\ D \in Seq(Events) /\ Len(D) = Len(drafts) /\ Len(drafts) \in Nat
      /\ \A i \in 1 .. Len(drafts) : D[i] = [key |-> k, body |-> drafts[i], basis |-> v]
  BY DraftedFacts
<1>3. /\ d.record[<<s[2], k>>] = None /\ d.version[s] = v
      /\ Contract(d.events[s] \o D)
  BY DEF Appends
<1>4. w = [d EXCEPT !.version = [d.version EXCEPT ![s] = d.version[s] + Len(drafts)]]
  BY DEF Versioned
<1> HIDE DEF D
<1>5. /\ w.events = d.events /\ w.record = d.record /\ w.checkpoint = d.checkpoint
      /\ w.version = [d.version EXCEPT ![s] = v + Len(drafts)]
      /\ w = [events |-> w.events, version |-> w.version, record |-> w.record,
              checkpoint |-> w.checkpoint]
  BY <1>1, <1>3, <1>4
<1> HIDE DEF w
<1>6. e = [w EXCEPT !.events = [w.events EXCEPT ![s] = w.events[s] \o D],
                    !.record = [w.record EXCEPT ![<<s[2], k>>] = r]]
  BY DEF Inserted, D
<1>7. /\ e.events = [d.events EXCEPT ![s] = d.events[s] \o D]
      /\ e.record = [d.record EXCEPT ![<<s[2], k>>] = r]
      /\ e.version = [d.version EXCEPT ![s] = v + Len(drafts)]
      /\ e.checkpoint = d.checkpoint
      /\ e = [events |-> e.events, version |-> e.version, record |-> e.record,
              checkpoint |-> e.checkpoint]
  BY <1>5, <1>6
<1> HIDE DEF e
<1>8. s[1] \in Type /\ s[2] \in Id /\ <<s[2], k>> \in Id \X Key
  BY DEF Stream
<1>9. r \in Records
  BY <1>2, <1>8 DEF Records
<1>10. d.events[s] \in Seq(Events) /\ d.events[s] \o D \in Seq(Events)
  BY <1>1, <1>2
<1>11. e \in Databases
  <2>1. e.events \in [Stream -> Seq(Events)]
    BY <1>1, <1>7, <1>10
  <2>2. e.record \in [Id \X Key -> Records \cup {None}]
    BY <1>1, <1>7, <1>8, <1>9
  <2>3. e.version \in [Stream -> Nat]
    BY <1>1, <1>2, <1>7
  <2> QED
    BY <1>1, <1>7, <2>1, <2>2, <2>3 DEF Databases
<1>12. /\ Len(e.events[s]) = Len(d.events[s]) + Len(drafts)
       /\ \A i \in 1 .. Len(d.events[s]) : e.events[s][i] = d.events[s][i]
       /\ \A i \in 1 .. Len(drafts) : e.events[s][Len(d.events[s]) + i] = D[i]
  <2> DEFINE E == d.events[s]
  <2>1. e.events[s] = E \o D /\ E \in Seq(Events)
    BY <1>1, <1>7, <1>10
  <2> HIDE DEF E
  <2>2. /\ Len(E \o D) = Len(E) + Len(D)
        /\ \A i \in 1 .. Len(E) + Len(D) :
             (E \o D)[i] = IF i <= Len(E) THEN E[i] ELSE D[i - Len(E)]
    BY <1>2, <2>1, ConcatProperties
  <2>3. Len(E) \in Nat /\ Len(D) \in Nat
    BY <1>2, <2>1
  <2>4. \A i \in 1 .. Len(E) : (E \o D)[i] = E[i]
    BY <2>2, <2>3
  <2>5. ASSUME NEW i \in 1 .. Len(D) PROVE (E \o D)[Len(E) + i] = D[i]
    <3>1. /\ Len(E) + i \in 1 .. Len(E) + Len(D) /\ ~(Len(E) + i <= Len(E))
          /\ Len(E) + i - Len(E) = i
      BY <2>3
    <3> QED
      BY <2>2, <3>1
  <2> QED
    BY <1>2, <2>1, <2>2, <2>4, <2>5 DEF E
<1>13. /\ e.record[<<s[2], k>>] = r /\ r # None
       /\ \A x \in (Id \X Key) \ {<<s[2], k>>} : e.record[x] = d.record[x]
  BY <1>1, <1>7, <1>8, <1>9, StoreAssumption
<1>14. /\ e.version[s] = d.version[s] + Len(drafts)
       /\ \A t \in Stream \ {s} : e.events[t] = d.events[t] /\ e.version[t] = d.version[t]
  BY <1>1, <1>3, <1>7
<1>15. Contract(e.events[s])
  BY <1>1, <1>3, <1>7
<1>16. \A i \in 1 .. Len(drafts) :
         e.events[s][Len(d.events[s]) + i] =
           [key |-> k, body |-> drafts[i], basis |-> d.version[s]]
  BY <1>2, <1>3, <1>12
<1>17. e.record[<<s[2], k>>] =
         [type |-> s[1], request |-> drafts, first |-> d.version[s] + 1,
          last |-> d.version[s] + Len(drafts)]
  BY <1>3, <1>13
<1>18. e.record[<<s[2], k>>] # None
  BY <1>13
<1> HIDE DEF r
<1>19. Added(d, e, s, k, drafts)
  BY <1>3, <1>7, <1>11, <1>12, <1>13, <1>14, <1>15, <1>16, <1>17, <1>18 DEF Added
<1> QED
  BY <1>19 DEF e, w

\* A call of append adds its drafts or leaves the database as it was: it is a
\* repetition, or it is refused and what it had written is rolled back.
LEMMA AppendedFacts ==
  ASSUME NEW d \in Databases, NEW s \in Stream, NEW k \in Key, NEW drafts \in Drafts,
         NEW v \in Nat
  PROVE  \/ AppendedTo(d, s, v, k, drafts, v) = d
         \/ Added(d, AppendedTo(d, s, v, k, drafts, v), s, k, drafts)
BY InsertedFacts DEF AppendedTo, RolledBack

\* What is known of the shape of a database.
LEMMA DatabaseType ==
  ASSUME NEW d \in Databases
  PROVE  /\ \A s \in Stream : d.events[s] \in Seq(Events) /\ d.version[s] \in Nat
         /\ \A s \in Stream : Len(d.events[s]) \in Nat
         /\ \A s \in Stream : \A i \in 1 .. Len(d.events[s]) :
              d.events[s][i] \in Events /\ d.events[s][i].key \in Key
         /\ \A r \in Id \X Key : d.record[r] # None =>
              /\ d.record[r] \in Records
              /\ <<d.record[r].type, r[1]>> \in Stream
         /\ \A s \in Stream : s[2] \in Id /\ s[1] \in Type /\ s = <<s[1], s[2]>>
<1>1. /\ d.events \in [Stream -> Seq(Events)] /\ d.version \in [Stream -> Nat]
      /\ d.record \in [Id \X Key ->
                         Records \cup {None}]
  BY DEF Databases
<1>2. \A s \in Stream : \A i \in 1 .. Len(d.events[s]) : d.events[s][i] \in Events
  BY <1>1
<1>3. \A s \in Stream : s[2] \in Id /\ s[1] \in Type /\ s = <<s[1], s[2]>>
  BY DEF Stream
<1>4. ASSUME NEW r \in Id \X Key, d.record[r] # None
      PROVE  d.record[r] \in Records /\ <<d.record[r].type, r[1]>> \in Stream
  <2>1. d.record[r] \in Records
    BY <1>1, <1>4
  <2>2. d.record[r].type \in Type /\ r[1] \in Id
    BY <2>1 DEF Records
  <2> QED
    BY <2>1, <2>2 DEF Stream
<1>5. \A s \in Stream : d.events[s] \in Seq(Events) /\ d.version[s] \in Nat
  BY <1>1
<1>6. \A s \in Stream : Len(d.events[s]) \in Nat
  BY <1>5
<1>7. \A s \in Stream : \A i \in 1 .. Len(d.events[s]) : d.events[s][i].key \in Key
  BY <1>2 DEF Events
<1> QED
  BY <1>2, <1>3, <1>4, <1>5, <1>6, <1>7

\* The two halves of Exact.
StreamExact(d, s) ==
  /\ d.version[s] = Len(d.events[s])
  /\ Contract(d.events[s])
  /\ \A i \in 1 .. Len(d.events[s]) :
       LET r == d.record[<<s[2], d.events[s][i].key>>]
       IN r # None /\ r.type = s[1] /\ r.first <= i /\ i <= r.last

RecordExact(d, id, k) ==
  LET r == d.record[<<id, k>>] IN
  r # None =>
    LET s == <<r.type, id>> IN
    /\ r.last <= d.version[s]
    /\ Len(r.request) = r.last - r.first + 1
    /\ \A i \in r.first .. r.last :
         d.events[s][i] = [key |-> k, body |-> r.request[i - r.first + 1], basis |-> r.first - 1]

\* Exactness, stream by stream and record by record.
LEMMA ExactParts ==
  ASSUME NEW d
  PROVE  Exact(d) <=> /\ \A s \in Stream : StreamExact(d, s)
                      /\ \A id \in Id, k \in Key : RecordExact(d, id, k)
BY DEF Exact, StreamExact, RecordExact

\* An append keeps the records exact.
LEMMA AddedExact ==
  ASSUME NEW d \in Databases, Exact(d), NEW e, NEW s \in Stream, NEW k \in Key,
         NEW drafts \in Drafts, Added(d, e, s, k, drafts)
  PROVE  Exact(e)
<1> DEFINE n == Len(d.events[s])
           m == Len(drafts)
<1>1. /\ \A t \in Stream : StreamExact(d, t)
      /\ \A id \in Id, l \in Key : RecordExact(d, id, l)
  BY ExactParts
<1>2. n \in Nat /\ m \in Nat /\ d.version[s] = n
  BY <1>1, DatabaseType, DraftedFacts DEF StreamExact
<1>a. /\ e \in Databases
      /\ \A t \in Stream \ {s} : e.events[t] = d.events[t] /\ e.version[t] = d.version[t]
      /\ Len(e.events[s]) = n + m
      /\ \A i \in 1 .. n : e.events[s][i] = d.events[s][i]
      /\ \A i \in 1 .. m : e.events[s][n + i] = [key |-> k, body |-> drafts[i], basis |-> n]
      /\ e.version[s] = n + m
      /\ d.record[<<s[2], k>>] = None
      /\ e.record[<<s[2], k>>] # None
      /\ e.record[<<s[2], k>>] =
           [type |-> s[1], request |-> drafts, first |-> n + 1, last |-> n + m]
      /\ \A r \in (Id \X Key) \ {<<s[2], k>>} : e.record[r] = d.record[r]
      /\ Contract(e.events[s])
  BY <1>2 DEF Added
<1>b. ASSUME NEW id \in Id, NEW l \in Key, id # s[2] \/ l # k
      PROVE  e.record[<<id, l>>] = d.record[<<id, l>>]
  <2>1. <<id, l>> \in (Id \X Key) \ {<<s[2], k>>}
    BY <1>b
  <2> QED
    BY <1>a, <2>1
<1> HIDE DEF n, m
<1>3. \A i \in (n + 1) .. (n + m) :
        e.events[s][i] = [key |-> k, body |-> drafts[i - n], basis |-> n]
  <2> SUFFICES ASSUME NEW i \in (n + 1) .. (n + m)
               PROVE  e.events[s][i] = [key |-> k, body |-> drafts[i - n], basis |-> n]
    OBVIOUS
  <2>1. i - n \in 1 .. m /\ n + (i - n) = i
    BY <1>2
  <2>2. e.events[s][n + (i - n)] = [key |-> k, body |-> drafts[i - n], basis |-> n]
    BY <1>a, <2>1
  <2> QED
    BY <2>1, <2>2
<1>4. ASSUME NEW t \in Stream PROVE StreamExact(e, t)
  <2>1. CASE t = s
    <3>1. ASSUME NEW i \in 1 .. (n + m)
          PROVE  LET r == e.record[<<s[2], e.events[s][i].key>>]
                 IN r # None /\ r.type = s[1] /\ r.first <= i /\ i <= r.last
      <4>1. CASE i \in 1 .. n
        <5>1. e.events[s][i] = d.events[s][i] /\ d.events[s][i].key \in Key
          BY <1>a, <1>2, <4>1, DatabaseType DEF n
        <5>2. /\ d.record[<<s[2], d.events[s][i].key>>] # None
              /\ d.record[<<s[2], d.events[s][i].key>>].type = s[1]
              /\ d.record[<<s[2], d.events[s][i].key>>].first <= i
              /\ i <= d.record[<<s[2], d.events[s][i].key>>].last
          BY <1>1, <4>1 DEF StreamExact, n
        <5>3. e.record[<<s[2], d.events[s][i].key>>] = d.record[<<s[2], d.events[s][i].key>>]
          <6>1. s[2] \in Id /\ (s[2] # s[2] \/ d.events[s][i].key # k)
            BY <1>a, <5>2, DatabaseType
          <6> QED
            BY <1>b, <5>1, <6>1
        <5> QED
          BY <5>1, <5>2, <5>3
      <4>2. CASE i \in (n + 1) .. (n + m)
        <5>1. e.events[s][i] = [key |-> k, body |-> drafts[i - n], basis |-> n]
          BY <1>3, <4>2
        <5>2. e.events[s][i].key = k
          BY <5>1
        <5>3. n + 1 <= i /\ i <= n + m
          BY <1>2, <4>2
        <5>4. /\ e.record[<<s[2], k>>].type = s[1]
              /\ e.record[<<s[2], k>>].first = n + 1 /\ e.record[<<s[2], k>>].last = n + m
          BY <1>a
        <5> QED
          BY <1>a, <5>2, <5>3, <5>4
      <4> QED
        BY <1>2, <4>1, <4>2
    <3> QED
      BY <1>a, <2>1, <3>1 DEF StreamExact
  <2>2. CASE t # s
    <3>1. e.events[t] = d.events[t] /\ e.version[t] = d.version[t] /\ StreamExact(d, t)
      BY <1>1, <1>a, <2>2
    <3>2. ASSUME NEW i \in 1 .. Len(d.events[t])
          PROVE  e.record[<<t[2], d.events[t][i].key>>] = d.record[<<t[2], d.events[t][i].key>>]
      <4>1. d.events[t][i].key \in Key /\ d.record[<<t[2], d.events[t][i].key>>] # None
        BY <3>1, DatabaseType DEF StreamExact
      <4>2. t[2] \in Id /\ (t[2] # s[2] \/ d.events[t][i].key # k)
        BY <1>a, <4>1, DatabaseType
      <4> QED
        BY <1>b, <4>1, <4>2
    <3> QED
      BY <3>1, <3>2 DEF StreamExact
  <2> QED
    BY <2>1, <2>2
<1>5. ASSUME NEW id \in Id, NEW l \in Key PROVE RecordExact(e, id, l)
  <2>1. CASE id = s[2] /\ l = k
    <3>1. <<s[1], s[2]>> = s
      BY DatabaseType
    <3>2. m = (n + m) - (n + 1) + 1 /\ (n + 1) - 1 = n
      BY <1>2
    <3>3. \A i \in (n + 1) .. (n + m) : i - (n + 1) + 1 = i - n
      BY <1>2
    <3> DEFINE r == e.record[<<id, l>>]
    <3>4. /\ r.type = s[1] /\ r.request = drafts /\ r.first = n + 1 /\ r.last = n + m
          /\ Len(drafts) = m
      BY <1>a, <2>1 DEF m
    <3> HIDE DEF r
    <3>5. /\ <<r.type, id>> = s /\ r.last <= e.version[s]
          /\ Len(r.request) = r.last - r.first + 1
      BY <1>2, <1>a, <2>1, <3>1, <3>2, <3>4
    <3>6. ASSUME NEW i \in r.first .. r.last
          PROVE  e.events[s][i] =
                   [key |-> l, body |-> r.request[i - r.first + 1], basis |-> r.first - 1]
      <4>1. i \in (n + 1) .. (n + m)
        BY <3>4
      <4>2. i - r.first + 1 = i - n /\ r.first - 1 = n
        BY <3>2, <3>3, <3>4, <4>1
      <4> QED
        BY <1>3, <2>1, <3>4, <4>1, <4>2
    <3> QED
      BY <3>5, <3>6 DEF RecordExact, r
  <2>2. CASE ~(id = s[2] /\ l = k)
    <3> DEFINE r == d.record[<<id, l>>]
               t == <<r.type, id>>
    <3>1. e.record[<<id, l>>] = r
      BY <1>b, <2>2
    <3>2. ASSUME r # None
          PROVE  /\ r.last <= e.version[t]
                 /\ \A i \in r.first .. r.last : e.events[t][i] = d.events[t][i]
      <4>1. t \in Stream /\ r \in Records
        BY <3>2, DatabaseType
      <4>5. r.first \in Nat \ {0} /\ r.last \in Nat
        BY <4>1 DEF Records
      <4>2. r.last <= d.version[t]
        BY <1>1, <3>2 DEF RecordExact
      <4>3. CASE t # s
        BY <1>a, <4>1, <4>2, <4>3
      <4>4. CASE t = s
        <5>1. r.last <= n
          BY <1>2, <4>2, <4>4
        <5>2. r.last <= n + m /\ r.first .. r.last \subseteq 1 .. n
          BY <1>2, <4>5, <5>1
        <5> HIDE DEF r, t
        <5> QED
          BY <1>a, <4>4, <5>2
      <4> QED
        BY <4>3, <4>4
    <3>3. CASE r = None
      BY <3>1, <3>3 DEF RecordExact
    <3>4. CASE r # None
      <4>1. /\ Len(r.request) = r.last - r.first + 1
            /\ \A i \in r.first .. r.last :
                 d.events[t][i] =
                   [key |-> l, body |-> r.request[i - r.first + 1], basis |-> r.first - 1]
        BY <1>1, <3>4 DEF RecordExact
      <4>2. /\ r.last <= e.version[t]
            /\ \A i \in r.first .. r.last : e.events[t][i] = d.events[t][i]
        BY <3>2, <3>4
      <4>3. \A i \in r.first .. r.last :
              e.events[t][i] =
                [key |-> l, body |-> r.request[i - r.first + 1], basis |-> r.first - 1]
        BY <4>1, <4>2
      <4> HIDE DEF r
      <4> QED
        BY <3>1, <4>1, <4>2, <4>3 DEF RecordExact
    <3> QED
      BY <3>3, <3>4
  <2> QED
    BY <2>1, <2>2
<1> QED
  BY <1>4, <1>5, ExactParts

\* ... and continues what was there.
LEMMA AddedSound ==
  ASSUME NEW d, Sound(d), NEW e, NEW s \in Stream, NEW k \in Key, NEW drafts \in Drafts,
         Added(d, e, s, k, drafts)
  PROVE  Sound(e) /\ Grew(d, e)
<1> DEFINE n == Len(d.events[s])
           m == Len(drafts)
<1>1. d \in Databases /\ e \in Databases /\ Exact(e) /\ Anchored(d)
  <2>1. d \in Databases /\ Exact(d) /\ Anchored(d)
    BY DEF Sound
  <2>2. e \in Databases
    BY DEF Added
  <2> QED
    BY <2>1, <2>2, AddedExact
<1>2. n \in Nat /\ m \in Nat
  BY <1>1, DatabaseType, DraftedFacts
<1>3. /\ \A t \in Stream \ {s} : e.events[t] = d.events[t]
      /\ Len(e.events[s]) = n + m
      /\ \A i \in 1 .. n : e.events[s][i] = d.events[s][i]
      /\ \A i \in 1 .. m :
           e.events[s][n + i] = [key |-> k, body |-> drafts[i], basis |-> d.version[s]]
      /\ d.record[<<s[2], k>>] = None /\ e.record[<<s[2], k>>] # None
      /\ \A r \in (Id \X Key) \ {<<s[2], k>>} : e.record[r] = d.record[r]
      /\ e.checkpoint = d.checkpoint
  BY DEF Added
<1>4. ASSUME NEW t \in Stream
      PROVE  /\ Len(d.events[t]) \in Nat /\ Len(d.events[t]) <= Len(e.events[t])
             /\ \A i \in 1 .. Len(d.events[t]) : e.events[t][i] = d.events[t][i]
  <2>1. CASE t = s
    BY <1>2, <1>3, <2>1
  <2>2. CASE t # s
    BY <1>1, <1>3, <2>2, DatabaseType
  <2> QED
    BY <2>1, <2>2
<1>5. ASSUME NEW t \in Stream, NEW i \in (Len(d.events[t]) + 1) .. Len(e.events[t])
      PROVE  d.record[<<t[2], e.events[t][i].key>>] = None
  <2>1. CASE t = s
    <3>1. i - n \in 1 .. m /\ n + (i - n) = i
      BY <1>2, <1>3, <1>5, <2>1
    <3>2. e.events[s][n + (i - n)] =
            [key |-> k, body |-> drafts[i - n], basis |-> d.version[s]]
      BY <1>3, <3>1
    <3>3. e.events[t][i].key = k
      BY <2>1, <3>1, <3>2
    <3> QED
      BY <1>3, <2>1, <3>3
  <2>2. CASE t # s
    BY <1>1, <1>3, <1>5, <2>2, DatabaseType
  <2> QED
    BY <2>1, <2>2
<1>6. \A r \in Id \X Key : d.record[r] # None => e.record[r] # None
  BY <1>3
<1>7. Grew(d, e)
  BY <1>4, <1>5, <1>6 DEF Grew
<1>8. ASSUME NEW t \in Stream, e.checkpoint[t] # None
      PROVE  LET c == e.checkpoint[t] IN
             /\ c.version \in 1 .. Len(e.events[t])
             /\ Len(c.state) = c.version
             /\ \A i \in 1 .. c.version : c.state[i] = e.events[t][i].body
  <2> DEFINE c == d.checkpoint[t]
  <2>1. e.checkpoint[t] = c /\ c # None
    BY <1>3, <1>8
  <2>2. /\ c.version \in 1 .. Len(d.events[t])
        /\ Len(c.state) = c.version
        /\ \A i \in 1 .. c.version : c.state[i] = d.events[t][i].body
    BY <1>1, <2>1 DEF Anchored
  <2>3. Len(e.events[t]) \in Nat
    BY <1>1, DatabaseType
  <2> HIDE DEF c
  <2>4. /\ c.version \in 1 .. Len(e.events[t])
        /\ \A i \in 1 .. c.version : i \in 1 .. Len(d.events[t])
    BY <1>4, <2>2, <2>3
  <2>5. \A i \in 1 .. c.version : c.state[i] = e.events[t][i].body
    BY <1>4, <2>2, <2>4
  <2> QED
    BY <2>1, <2>2, <2>4, <2>5
<1>9. Anchored(e)
  BY <1>8 DEF Anchored
<1> QED
  BY <1>1, <1>7, <1>9 DEF Sound

\* Continuation is a preorder.
LEMMA GrewSelf ==
  ASSUME NEW d \in Databases
  PROVE  Grew(d, d)
BY DatabaseType DEF Grew

\* A database that grew twice grew.
LEMMA GrewOn ==
  ASSUME NEW c \in Databases, NEW d \in Databases, NEW e \in Databases, Grew(c, d), Grew(d, e)
  PROVE  Grew(c, e)
<1>1. ASSUME NEW s \in Stream
      PROVE  /\ Len(c.events[s]) \in Nat /\ Len(d.events[s]) \in Nat /\ Len(e.events[s]) \in Nat
             /\ Len(c.events[s]) <= Len(d.events[s]) /\ Len(d.events[s]) <= Len(e.events[s])
             /\ \A i \in 1 .. Len(c.events[s]) : d.events[s][i] = c.events[s][i]
             /\ \A i \in 1 .. Len(d.events[s]) : e.events[s][i] = d.events[s][i]
  BY DatabaseType DEF Grew
<1>2. ASSUME NEW s \in Stream, NEW i \in 1 .. Len(c.events[s])
      PROVE  e.events[s][i] = c.events[s][i]
  <2>1. i \in 1 .. Len(d.events[s])
    BY <1>1
  <2> QED
    BY <1>1, <2>1
<1>3. ASSUME NEW s \in Stream, NEW i \in (Len(c.events[s]) + 1) .. Len(e.events[s])
      PROVE  c.record[<<s[2], e.events[s][i].key>>] = None
  <2>1. CASE i \in 1 .. Len(d.events[s])
    <3>1. i \in (Len(c.events[s]) + 1) .. Len(d.events[s])
      BY <1>1, <2>1
    <3> QED
      BY <1>1, <2>1, <3>1 DEF Grew
  <2>2. CASE i \in (Len(d.events[s]) + 1) .. Len(e.events[s])
    <3>1. i \in 1 .. Len(e.events[s])
      BY <1>1, <2>2
    <3>2. <<s[2], e.events[s][i].key>> \in Id \X Key
      BY <3>1, DatabaseType
    <3>3. d.record[<<s[2], e.events[s][i].key>>] = None
      BY <2>2 DEF Grew
    <3> QED
      BY <3>2, <3>3 DEF Grew
  <2> QED
    BY <1>1, <2>1, <2>2
<1>4. \A s \in Stream : Len(c.events[s]) <= Len(e.events[s])
  BY <1>1, SMTT(20)
<1> QED
  BY <1>2, <1>3, <1>4 DEF Grew

\* A call of append leaves a database that continues the one it found.
LEMMA AppendedSound ==
  ASSUME NEW d, Sound(d), NEW s \in Stream, NEW k \in Key, NEW drafts \in Drafts, NEW v \in Nat
  PROVE  Sound(AppendedTo(d, s, v, k, drafts, v)) /\ Grew(d, AppendedTo(d, s, v, k, drafts, v))
<1>1. d \in Databases
  BY DEF Sound
<1> QED
  BY <1>1, AppendedFacts, AddedSound, GrewSelf

-----------------------------------------------------------------------------
\* What a checkpoint changes.

\* The bodies of a stream.
LEMMA BodiesFacts ==
  ASSUME NEW events \in Seq(Events)
  PROVE  /\ Bodies(events) \in Seq(Body) /\ Len(Bodies(events)) = Len(events)
         /\ \A i \in 1 .. Len(events) : Bodies(events)[i] = events[i].body
<1>1. ASSUME NEW i \in 1 .. Len(events) PROVE events[i].body \in Body
  <2>1. events[i] \in Events
    OBVIOUS
  <2> QED
    BY <2>1 DEF Events
<1>2. Len(events) \in Nat
  OBVIOUS
<1> DEFINE n == Len(events)
<1>3. Bodies(events) = [i \in 1 .. n |-> events[i].body]
  BY DEF Bodies
<1> HIDE DEF n
<1>4. Bodies(events) \in [1 .. n -> Body]
  BY <1>1, <1>3 DEF n
<1>5. Bodies(events) \in Seq(Body) /\ Len(Bodies(events)) = n
  BY <1>2, <1>3, <1>4 DEF n
<1> QED
  BY <1>3, <1>5 DEF n

\* Database d with a checkpoint of the first v events of stream s.
Checkpointed(d, s, v) ==
  [d EXCEPT !.checkpoint[s] = [version |-> v, state |-> Bodies(SubSeq(d.events[s], 1, v))]]

\* A checkpoint keeps the database sound.
LEMMA CheckpointSound ==
  ASSUME NEW d, Sound(d), NEW s \in Stream, NEW v \in 1 .. Len(d.events[s])
  PROVE  Sound(Checkpointed(d, s, v)) /\ Grew(d, Checkpointed(d, s, v))
<1> DEFINE events == SubSeq(d.events[s], 1, v)
           c == [version |-> v, state |-> Bodies(events)]
           e == Checkpointed(d, s, v)
<1>1. d \in Databases /\ Exact(d) /\ Anchored(d)
  BY DEF Sound
<1>2. /\ d.events \in [Stream -> Seq(Events)] /\ d.checkpoint \in [Stream -> Checkpoints \cup {None}]
      /\ d.events[s] \in Seq(Events) /\ Len(d.events[s]) \in Nat /\ v \in Nat
      /\ d = [events |-> d.events, version |-> d.version, record |-> d.record,
              checkpoint |-> d.checkpoint]
  BY <1>1 DEF Databases
<1>3. /\ events \in Seq(Events) /\ Len(events) = v
      /\ \A i \in 1 .. v : events[i] = d.events[s][i]
  BY <1>2
<1> HIDE DEF events
<1>4. /\ Bodies(events) \in Seq(Body) /\ Len(Bodies(events)) = v
      /\ \A i \in 1 .. v : Bodies(events)[i] = d.events[s][i].body
  BY <1>3, BodiesFacts
<1>5. c \in Checkpoints /\ c.version = v /\ c.state = Bodies(events)
  BY <1>2, <1>4 DEF Checkpoints
<1>6. c # None
  BY <1>5, StoreAssumption
<1>7. e = [d EXCEPT !.checkpoint = [d.checkpoint EXCEPT ![s] = c]]
  BY DEF Checkpointed, events
<1> HIDE DEF c
<1>8. /\ e.events = d.events /\ e.version = d.version /\ e.record = d.record
      /\ e.checkpoint = [d.checkpoint EXCEPT ![s] = c]
      /\ e = [events |-> e.events, version |-> e.version, record |-> e.record,
              checkpoint |-> e.checkpoint]
  BY <1>2, <1>7
<1> HIDE DEF e
<1>9. e.checkpoint \in [Stream -> Checkpoints \cup {None}]
  BY <1>2, <1>5, <1>8
<1>10. e \in Databases
  BY <1>1, <1>8, <1>9 DEF Databases
<1>11. Exact(e)
  <2>1. \A t \in Stream : StreamExact(d, t) => StreamExact(e, t)
    BY <1>8 DEF StreamExact
  <2>2. \A id \in Id, k \in Key : RecordExact(d, id, k) => RecordExact(e, id, k)
    BY <1>8 DEF RecordExact
  <2> QED
    BY <1>1, <2>1, <2>2, ExactParts
<1>12. ASSUME NEW t \in Stream, e.checkpoint[t] # None
       PROVE  LET x == e.checkpoint[t] IN
              /\ x.version \in 1 .. Len(e.events[t])
              /\ Len(x.state) = x.version
              /\ \A i \in 1 .. x.version : x.state[i] = e.events[t][i].body
  <2>1. CASE t = s
    <3>1. e.checkpoint[t] = c
      BY <1>2, <1>8, <2>1
    <3> QED
      BY <1>4, <1>5, <1>8, <2>1, <3>1
  <2>2. CASE t # s
    <3>1. e.checkpoint[t] = d.checkpoint[t]
      BY <1>2, <1>8, <2>2
    <3> QED
      BY <1>1, <1>8, <1>12, <3>1 DEF Anchored
  <2> QED
    BY <2>1, <2>2
<1>13. Anchored(e)
  BY <1>12 DEF Anchored
<1>14. Grew(d, e)
  BY <1>1, <1>8, GrewSelf DEF Grew
<1> QED
  BY <1>10, <1>11, <1>13, <1>14 DEF Sound, e

-----------------------------------------------------------------------------
\* The steps keep the invariant, and what is committed is continued.

Kept == IInv' /\ Grew(db, db')

\* The invariant holds at first.
LEMMA InitInv == Init => IInv
<1> SUFFICES ASSUME Init PROVE IInv
  OBVIOUS
<1>1. db = Empty /\ work = Empty /\ writer = None /\ stack = << >>
  BY DEF Init
<1>2. Empty \in Databases
  BY DEF Empty, Databases
<1>3. /\ \A s \in Stream : /\ Empty.events[s] = << >> /\ Empty.version[s] = 0
                           /\ Empty.checkpoint[s] = None
      /\ \A r \in Id \X Key : Empty.record[r] = None
  BY DEF Empty
<1>4. \A s \in Stream : StreamExact(Empty, s)
  BY <1>3 DEF StreamExact, Contract
<1>5. \A id \in Id, k \in Key : RecordExact(Empty, id, k)
  BY <1>3 DEF RecordExact
<1>6. Exact(Empty)
  BY <1>4, <1>5, ExactParts
<1>7. Anchored(Empty)
  BY <1>3 DEF Anchored
<1>8. Sound(Empty) /\ Grew(Empty, Empty)
  BY <1>2, <1>6, <1>7, GrewSelf DEF Sound
<1>9. stack \in Seq(Frames) /\ Len(stack) = 0
  BY <1>1
<1> QED
  BY <1>1, <1>8, <1>9 DEF IInv, Reached

\* A process in a transaction has a call open, and its frame is one of IInv's.
LEMMA OpenFrame ==
  ASSUME IInv, writer \in Process
  PROVE  /\ Len(stack) \in Nat /\ Len(stack) > 0
         /\ Top \in Frames /\ Reached(Top.saved)
<1>1. stack \in Seq(Frames) /\ stack # << >>
  BY StoreAssumption DEF IInv
<1>2. Len(stack) \in Nat /\ Len(stack) > 0 /\ Len(stack) \in 1 .. Len(stack)
  BY <1>1
<1> QED
  BY <1>1, <1>2 DEF IInv, Top

\* The end of a call.
LEMMA ReturnKeeps ==
  ASSUME IInv, writer \in Process, Sound(work'), Grew(db, work'), Return(work')
  PROVE  Kept
<1> DEFINE n == Len(stack)
<1>1. /\ stack \in Seq(Frames) /\ n \in Nat /\ n > 0 /\ db \in Databases /\ Sound(db)
      /\ \A i \in 1 .. n : Reached(stack[i].saved)
      /\ work' \in Databases
  BY OpenFrame DEF IInv, Sound, Reached
<1>2. stack' = SubSeq(stack, 1, n - 1)
  BY DEF Return
<1>4. CASE n = 1
  <2>1. db' = work' /\ writer' = None
    BY <1>4 DEF Return
  <2>2. stack' = << >>
    BY <1>2, <1>4, SubSeqEmpty
  <2>3. stack' \in Seq(Frames) /\ Len(stack') = 0
    BY <2>2
  <2>4. Grew(db', work') /\ Sound(db') /\ Sound(work')
    BY <1>1, <2>1, GrewSelf
  <2>5. \A i \in 1 .. Len(stack') : Reached(stack[i].saved)'
    BY <2>3
  <2>6. writer' \in Process \cup {None} /\ writer' = None
    BY <2>1
  <2>7. Reached(work)'
    BY <2>4 DEF Reached
  <2>8. /\ writer' = None <=> stack' = << >>
        /\ writer' = None => work' = db'
    BY <2>1, <2>2
  <2>9. stack' \in Seq(Frames)
    BY <2>3
  <2>10. IInv'
    BY <2>4, <2>5, <2>6, <2>7, <2>8, <2>9 DEF IInv
  <2> QED
    BY <1>1, <2>1, <2>10 DEF Kept
<1>5. CASE n # 1
  <2>1. db' = db /\ writer' = writer
    BY <1>5 DEF Return
  <2>2. n - 1 \in 1 .. n
    <3>1. n \in Nat /\ n > 0 /\ n # 1
      BY <1>1, <1>5
    <3> HIDE DEF n
    <3> QED
      BY <3>1
  <2>3. /\ stack' \in Seq(Frames) /\ Len(stack') = n - 1
        /\ \A i \in 1 .. (n - 1) : stack'[i] = stack[i]
    BY <1>1, <1>2, <2>2
  <2>4. stack' # << >> /\ \A i \in 1 .. Len(stack') : i \in 1 .. n /\ stack'[i] = stack[i]
    BY <1>1, <2>3, <1>5
  <2>5. \A i \in 1 .. Len(stack') : Sound(stack'[i].saved) /\ Grew(db', stack'[i].saved)
    BY <1>1, <2>1, <2>4 DEF Reached
  <2>6. writer' \in Process /\ writer' # None
    BY <2>1, StoreAssumption
  <2>7. IInv'
    BY <1>1, <2>3, <2>1, <2>4, <2>5, <2>6 DEF IInv, Reached
  <2> QED
    BY <1>1, <2>1, <2>7, GrewSelf DEF Kept
<1> QED
  BY <1>4, <1>5

\* append as a transaction of its own.
LEMMA AppendAloneKeeps ==
  ASSUME IInv, NEW p \in Process, NEW s \in Stream, NEW v \in 0 .. MaxLen, NEW k \in Key,
         NEW drafts \in Drafts, AppendAlone(p, s, v, k, drafts)
  PROVE  Kept
<1> DEFINE e == AppendedTo(db, s, v, k, drafts, v)
<1>1. v \in Nat /\ Sound(db) /\ stack = << >> /\ writer = None
  BY StoreAssumption DEF IInv, AppendAlone
<1>2. db' = e /\ work' = e /\ stack' = stack /\ writer' = writer
  BY DEF AppendAlone
<1>3. Sound(e) /\ Grew(db, e) /\ Grew(e, e)
  BY <1>1, AppendedSound, GrewSelf DEF Sound
<1> HIDE DEF e
<1>4. Len(stack') = 0 /\ stack' \in Seq(Frames)
  BY <1>1, <1>2
<1>5. IInv'
  BY <1>1, <1>2, <1>3, <1>4 DEF IInv, Reached
<1> QED
  BY <1>2, <1>3, <1>5 DEF Kept

\* A step of the open transaction that only its own view shows.
LEMMA InsideKeeps ==
  ASSUME IInv, writer \in Process, Sound(work'), Grew(work, work'),
         UNCHANGED <<db, writer, stack>>
  PROVE  Kept
<1>1. db \in Databases /\ work \in Databases /\ work' \in Databases /\ Grew(db, work)
  BY DEF IInv, Reached, Sound
<1>2. Grew(db, work') /\ Grew(db, db)
  BY <1>1, GrewOn, GrewSelf
<1>3. writer # None
  BY StoreAssumption
<1>4. IInv'
  BY <1>2, <1>3 DEF IInv, Reached
<1> QED
  BY <1>2, <1>4 DEF Kept

\* append in a callback.
LEMMA AppendInsideKeeps ==
  ASSUME IInv, NEW p \in Process, NEW s \in Stream, NEW v \in 0 .. MaxLen, NEW k \in Key,
         NEW drafts \in Drafts, AppendInside(p, s, v, k, drafts)
  PROVE  Kept
<1> DEFINE e == AppendedTo(work, s, v, k, drafts, v)
<1>1. v \in Nat /\ Sound(work)
  BY StoreAssumption DEF IInv, Reached
<1>2. Sound(e) /\ Grew(work, e)
  BY <1>1, AppendedSound
<1>3. work' = e /\ UNCHANGED <<db, writer, stack>> /\ writer \in Process
  BY DEF AppendInside
<1> HIDE DEF e
<1> QED
  BY <1>2, <1>3, InsideKeeps

\* append_checked opens a transaction or a savepoint.
LEMMA EnterCheckedKeeps ==
  ASSUME IInv, NEW p \in Process, NEW s \in Stream, NEW k \in Key, EnterChecked(p, s, k)
  PROVE  Kept
<1> DEFINE f == [stream |-> s, key |-> k, version |-> work.version[s], saved |-> work]
           n == Len(stack)
<1>1. /\ db \in Databases /\ work \in Databases /\ stack \in Seq(Frames) /\ n \in Nat
      /\ Reached(work) /\ Sound(db) /\ \A i \in 1 .. n : Reached(stack[i].saved)
  BY DEF IInv, Reached, Sound
<1>2. f \in Frames /\ f.saved = work
  BY <1>1, DatabaseType DEF Frames
<1>3. /\ writer' = p /\ stack' = Append(stack, f) /\ db' = db /\ work' = work
      /\ p # None
  BY StoreAssumption DEF EnterChecked
<1> HIDE DEF f
<1>4. /\ stack' \in Seq(Frames) /\ Len(stack') = n + 1 /\ stack'[n + 1] = f
      /\ \A i \in 1 .. n : stack'[i] = stack[i]
  BY <1>1, <1>2, <1>3
<1>5. ASSUME NEW i \in 1 .. Len(stack')
      PROVE  Sound(stack'[i].saved) /\ Grew(db', stack'[i].saved)
  <2>1. CASE i \in 1 .. n
    BY <1>1, <1>3, <1>4, <2>1 DEF Reached
  <2>2. CASE i = n + 1
    BY <1>1, <1>2, <1>3, <1>4, <2>2 DEF Reached
  <2> QED
    BY <1>1, <1>4, <2>1, <2>2
<1>6. stack' # << >>
  BY <1>1, <1>4
<1>7. IInv'
  BY <1>1, <1>3, <1>4, <1>5, <1>6 DEF IInv, Reached
<1> QED
  BY <1>1, <1>3, <1>7, GrewSelf DEF Kept

\* The ways a call ends.
LEMMA DecideNothingKeeps ==
  ASSUME IInv, NEW p \in Process, DecideNothing(p)
  PROVE  Kept
<1>1. writer \in Process /\ Return(work) /\ Reached(work) /\ work' = work
  BY DEF DecideNothing, IInv, Return
<1>2. Return(work') /\ Sound(work') /\ Grew(db, work')
  BY <1>1 DEF Reached
<1> QED
  BY <1>1, <1>2, ReturnKeeps

\* A decision that raises returns to the saved database.
LEMMA DecideRaisesKeeps ==
  ASSUME IInv, NEW p \in Process, DecideRaises(p)
  PROVE  Kept
<1>1. writer \in Process /\ Return(Top.saved) /\ work' = Top.saved
  BY DEF DecideRaises, RolledBack, Return
<1>2. Return(work') /\ Sound(work') /\ Grew(db, work')
  BY <1>1, OpenFrame DEF Reached
<1> QED
  BY <1>1, <1>2, ReturnKeeps

\* The events of a decision are appended to what its frame found, or the frame is undone.
LEMMA DecideDraftsKeeps ==
  ASSUME IInv, NEW p \in Process, NEW drafts \in Drafts, DecideDrafts(p, drafts)
  PROVE  Kept
<1> DEFINE f == Top
           e == AppendedTo(work, f.stream, f.version, f.key, drafts, f.version)
<1>1. writer \in Process /\ (Return(e) \/ Return(f.saved))
  BY DEF DecideDrafts, RolledBack, FrameVersion
<1>2. f \in Frames /\ Reached(f.saved)
  BY <1>1, OpenFrame
<1>3. f.stream \in Stream /\ f.version \in Nat /\ f.key \in Key
  BY <1>2 DEF Frames
<1>4. Sound(work) /\ Grew(db, work) /\ db \in Databases /\ work \in Databases
  BY DEF IInv, Reached, Sound
<1> HIDE DEF f
<1>5. Sound(e) /\ Grew(work, e)
  BY <1>3, <1>4, AppendedSound
<1>6. e \in Databases
  BY <1>5 DEF Sound
<1> HIDE DEF e
<1>7. Reached(e)
  BY <1>4, <1>5, <1>6, GrewOn DEF Reached
<1>8. (Return(e) /\ work' = e) \/ (Return(f.saved) /\ work' = f.saved)
  BY <1>1 DEF Return
<1>9. Return(work') /\ Sound(work') /\ Grew(db, work')
  BY <1>2, <1>7, <1>8 DEF Reached
<1> QED
  BY <1>1, <1>9, ReturnKeeps

\* The death of the process that is in a transaction.
LEMMA CrashKeeps ==
  ASSUME IInv, NEW p \in Process, Crash(p)
  PROVE  Kept
<1>1. writer' = None /\ stack' = << >> /\ work' = db /\ db' = db
  BY DEF Crash
<1>2. Sound(db) /\ Grew(db, db)
  BY GrewSelf DEF IInv, Sound
<1>3. stack' \in Seq(Frames) /\ Len(stack') = 0
  BY <1>1
<1>4. IInv'
  BY <1>1, <1>2, <1>3 DEF IInv, Reached
<1> QED
  BY <1>1, <1>2, <1>4 DEF Kept

\* A checkpoint is saved.
LEMMA SaveSnapshotKeeps ==
  ASSUME IInv, NEW p \in Process, NEW s \in Stream, NEW v \in 1 .. MaxLen, SaveSnapshot(p, s, v)
  PROVE  Kept
<1> DEFINE e == Checkpointed(work, s, v)
<1>1. /\ v \in 1 .. Len(work.events[s]) /\ work' = e /\ writer \in {None, p}
      /\ db' = IF writer = None THEN work' ELSE db
      /\ UNCHANGED <<writer, stack>>
  BY DEF SaveSnapshot, Checkpointed
<1>2. Sound(work) /\ Sound(e) /\ Grew(work, e)
  BY <1>1, CheckpointSound DEF IInv, Reached
<1> HIDE DEF e
<1>3. CASE writer = None
  <2>1. work = db /\ db' = e /\ stack = << >>
    BY <1>1, <1>3 DEF IInv
  <2>2. Grew(e, e)
    BY <1>2, GrewSelf DEF Sound
  <2>3. stack' \in Seq(Frames) /\ Len(stack') = 0
    BY <1>1, <2>1
  <2>4. IInv'
    BY <1>1, <1>2, <1>3, <2>1, <2>2, <2>3 DEF IInv, Reached
  <2> QED
    BY <1>2, <2>1, <2>4 DEF Kept
<1>4. CASE writer # None
  <2>1. writer \in Process /\ db' = db
    BY <1>1, <1>4
  <2> QED
    BY <1>1, <1>2, <2>1, InsideKeeps
<1> QED
  BY <1>3, <1>4

\* Every step keeps the invariant.
LEMMA StepKeeps == IInv /\ [Next]_vars => Kept
<1> SUFFICES ASSUME IInv, [Next]_vars PROVE Kept
  OBVIOUS
<1>1. ASSUME NEW p \in Process, NEW s \in Stream, NEW k \in Key, EnterChecked(p, s, k)
      PROVE  Kept
  BY <1>1, EnterCheckedKeeps
<1>2. ASSUME NEW p \in Process, NEW s \in Stream, NEW k \in Key, NEW drafts \in Drafts,
             NEW v \in 0 .. MaxLen,
             AppendAlone(p, s, v, k, drafts) \/ AppendInside(p, s, v, k, drafts)
      PROVE  Kept
  BY <1>2, AppendAloneKeeps, AppendInsideKeeps
<1>3. ASSUME NEW p \in Process, NEW drafts \in Drafts, DecideDrafts(p, drafts)
      PROVE  Kept
  BY <1>3, DecideDraftsKeeps
<1>4. ASSUME NEW p \in Process, DecideNothing(p) \/ DecideRaises(p) \/ Crash(p)
      PROVE  Kept
  BY <1>4, DecideNothingKeeps, DecideRaisesKeeps, CrashKeeps
<1>5. ASSUME NEW p \in Process, NEW s \in Stream, NEW v \in 1 .. MaxLen, SaveSnapshot(p, s, v)
      PROVE  Kept
  BY <1>5, SaveSnapshotKeeps
<1>6. CASE UNCHANGED vars
  <2>1. db' = db /\ work' = work /\ writer' = writer /\ stack' = stack
    BY <1>6 DEF vars
  <2>2. IInv'
    BY <2>1 DEF IInv, Reached
  <2>3. Grew(db, db')
    BY <2>1, GrewSelf DEF IInv, Sound
  <2> QED
    BY <2>2, <2>3 DEF Kept
<1> QED
  BY <1>1, <1>2, <1>3, <1>4, <1>5, <1>6 DEF Next

\* The invariant.
LEMMA Invariance == Spec => []IInv
<1>1. IInv /\ [Next]_vars => IInv'
  BY StepKeeps DEF Kept
<1> QED
  BY <1>1, InitInv, PTL DEF Spec

-----------------------------------------------------------------------------
\* The records name exactly the events that were appended under their keys, in
\* the committed database and in what a transaction sees (append,
\* append_checked).
THEOREM RecordsExact == Spec => []RecordsAreExact
<1>1. IInv => RecordsAreExact
  BY DEF IInv, Reached, Sound, RecordsAreExact
<1> QED
  BY <1>1, Invariance, PTL

\* Recovery from a checkpoint and the events after it rebuilds what a replay
\* of all events does (RecoveryBootstrap.recover).
LEMMA SoundRecovery ==
  ASSUME NEW d, Sound(d), NEW s \in Stream
  PROVE  Recovered(d, s) = Bodies(d.events[s])
<1> DEFINE n == Len(d.events[s])
           all == Bodies(d.events[s])
<1>1. d \in Databases /\ Anchored(d) /\ d.checkpoint[s] \in Checkpoints \cup {None}
  BY DEF Sound, Databases
<1>2. d.events[s] \in Seq(Events) /\ n \in Nat
  BY <1>1, DatabaseType
<1>3. /\ all \in Seq(Body) /\ Len(all) = n
      /\ \A i \in 1 .. n : all[i] = d.events[s][i].body
  BY <1>2, BodiesFacts
<1> HIDE DEF all
<1>4. ASSUME NEW v \in 0 .. n
      PROVE  /\ After(d, s, v) \in Seq(Body) /\ Len(After(d, s, v)) = n - v
             /\ \A i \in 1 .. (n - v) : After(d, s, v)[i] = all[v + i]
  <2> DEFINE rest == SubSeq(d.events[s], v + 1, n)
  <2>1. /\ v + 1 \in Int /\ n \in Int
        /\ \A i \in (v + 1) .. n : d.events[s][i] \in Events
    BY <1>2
  <2>2. /\ rest \in Seq(Events)
        /\ Len(rest) = IF v + 1 <= n THEN n - (v + 1) + 1 ELSE 0
        /\ \A i \in 1 .. (n - (v + 1) + 1) : rest[i] = d.events[s][v + 1 + i - 1]
    BY <2>1, SubSeqProperties
  <2> HIDE DEF rest
  <2>3. n - (v + 1) + 1 = n - v /\ Len(rest) = n - v
    BY <1>2, <2>2
  <2>4. ASSUME NEW i \in 1 .. (n - v)
        PROVE  rest[i] = d.events[s][v + i] /\ v + i \in 1 .. n
    <3>1. n \in Nat /\ v \in 0 .. n
      BY <1>2
    <3>2. rest[i] = d.events[s][v + 1 + i - 1]
      BY <2>2, <2>3
    <3> HIDE DEF n
    <3>3. v + 1 + i - 1 = v + i /\ v + i \in 1 .. n
      BY <3>1
    <3> QED
      BY <3>2, <3>3
  <2>5. /\ Bodies(rest) \in Seq(Body) /\ Len(Bodies(rest)) = n - v
        /\ \A i \in 1 .. (n - v) : Bodies(rest)[i] = rest[i].body
    BY <2>2, <2>3, BodiesFacts
  <2>6. \A i \in 1 .. (n - v) : Bodies(rest)[i] = all[v + i]
    BY <1>3, <2>4, <2>5
  <2> QED
    BY <2>5, <2>6 DEF After, rest
<1>5. CASE Usable(d, s)
  <2> DEFINE c == d.checkpoint[s]
             tail == After(d, s, c.version)
  <2>1. /\ c \in Checkpoints /\ c.version \in 1 .. n /\ Len(c.state) = c.version
        /\ \A i \in 1 .. c.version : c.state[i] = d.events[s][i].body
    BY <1>1, <1>5 DEF Usable, Anchored
  <2>2. c.state \in Seq(Body) /\ c.version \in 0 .. n
    BY <1>2, <2>1 DEF Checkpoints
  <2>3. Recovered(d, s) = c.state \o tail
    BY <1>5 DEF Recovered
  <2> HIDE DEF c
  <2>4. /\ tail \in Seq(Body) /\ Len(tail) = n - c.version
        /\ \A i \in 1 .. (n - c.version) : tail[i] = all[c.version + i]
    BY <1>4, <2>2
  <2> HIDE DEF tail, n
  <2>5. c.state \o tail \in Seq(Body) /\ Len(c.state \o tail) = n
    <3>1. c.state \o tail \in Seq(Body) /\ Len(c.state \o tail) = Len(c.state) + Len(tail)
      BY <2>2, <2>4, ConcatProperties
    <3>2. c.version + (n - c.version) = n
      BY <1>2, <2>1
    <3> QED
      BY <2>1, <2>4, <3>1, <3>2
  <2>6. ASSUME NEW i \in 1 .. n
        PROVE  (c.state \o tail)[i] = all[i]
    <3>1. i \in 1 .. (Len(c.state) + Len(tail)) /\ i \in Nat /\ c.version \in Nat
      BY <1>2, <2>1, <2>4
    <3>2. (c.state \o tail)[i] = IF i <= c.version THEN c.state[i] ELSE tail[i - c.version]
      BY <2>1, <2>2, <2>4, <3>1, ConcatProperties
    <3>3. CASE i <= c.version
      <4>1. (c.state \o tail)[i] = c.state[i] /\ i \in 1 .. c.version
        BY <3>3, <3>1, <3>2
      <4> QED
        BY <1>3, <2>1, <4>1
    <3>4. CASE ~(i <= c.version)
      <4>1. i - c.version \in 1 .. (n - c.version) /\ c.version + (i - c.version) = i
        BY <1>2, <2>1, <3>4
      <4>2. (c.state \o tail)[i] = tail[i - c.version]
        BY <3>4, <3>2
      <4>3. tail[i - c.version] = all[c.version + (i - c.version)]
        BY <2>4, <4>1
      <4> QED
        BY <4>1, <4>2, <4>3
    <3> QED
      BY <3>3, <3>4
  <2>7. c.state \o tail = all
    BY <1>3, <2>5, <2>6, SeqEqual
  <2> QED
    BY <2>3, <2>7 DEF all
<1>6. CASE ~Usable(d, s)
  <2>1. Recovered(d, s) = After(d, s, 0)
    BY <1>6 DEF Recovered
  <2>2. 0 \in 0 .. n /\ n - 0 = n
    BY <1>2
  <2>3. /\ After(d, s, 0) \in Seq(Body) /\ Len(After(d, s, 0)) = n
        /\ \A i \in 1 .. n : After(d, s, 0)[i] = all[0 + i]
    BY <1>4, <2>2
  <2>4. \A i \in 1 .. n : 0 + i = i
    BY <1>2
  <2>5. After(d, s, 0) = all
    BY <1>3, <2>3, <2>4, SeqEqual
  <2> QED
    BY <2>1, <2>5 DEF all
<1> QED
  BY <1>5, <1>6

\* Recovery from a checkpoint and the events after it gives the state that a
\* replay of the whole stream gives, whatever was rolled back and whoever died
\* in between (recover).
THEOREM RecoveryReplays == Spec => []RecoveryIsReplay
<1>1. IInv => RecoveryIsReplay
  BY SoundRecovery DEF IInv, RecoveryIsReplay
<1> QED
  BY <1>1, Invariance, PTL

-----------------------------------------------------------------------------
\* Refinement of EventLog.

\* What the log shows of database d: its streams, each event with its key.
Shown(d) ==
  [s \in Stream |-> [i \in 1 .. Len(d.events[s]) |->
     [key |-> d.events[s][i].key, body |-> d.events[s][i].body]]]

\* The events the log shows are those of the stream.
LEMMA ShownFacts ==
  ASSUME NEW d \in Databases, NEW s \in Stream
  PROVE  /\ Len(Shown(d)[s]) = Len(d.events[s])
         /\ \A i \in 1 .. Len(d.events[s]) :
              /\ Shown(d)[s][i] = [key |-> d.events[s][i].key, body |-> d.events[s][i].body]
              /\ Shown(d)[s][i].key = d.events[s][i].key
<1> DEFINE n == Len(d.events[s])
<1>1. n \in Nat
  BY DatabaseType
<1>2. Shown(d)[s] = [i \in 1 .. n |-> [key |-> d.events[s][i].key, body |-> d.events[s][i].body]]
  BY DEF Shown
<1> HIDE DEF n
<1>3. Len(Shown(d)[s]) = n
  BY <1>1, <1>2
<1> QED
  BY <1>2, <1>3 DEF n

\* A sound database has a record of every key its streams show.
LEMMA UsedHaveRecords ==
  ASSUME NEW d, Sound(d), NEW s \in Stream, NEW t \in Stream, t[2] = s[2],
         NEW i \in 1 .. Len(Shown(d)[t])
  PROVE  d.record[<<s[2], Shown(d)[t][i].key>>] # None
<1>1. d \in Databases /\ StreamExact(d, t)
  BY ExactParts DEF Sound
<1>2. i \in 1 .. Len(d.events[t]) /\ Shown(d)[t][i].key = d.events[t][i].key
  BY <1>1, ShownFacts
<1>3. d.record[<<t[2], d.events[t][i].key>>] # None
  BY <1>1, <1>2 DEF StreamExact
<1> QED
  BY <1>2, <1>3

\* A continuation of a sound database is a step of the log.
LEMMA GrowthShown ==
  ASSUME Sound(db), db' \in Databases, Grew(db, db')
  PROVE  Log!Grow
<1>1. db \in Databases
  BY DEF Sound
<1>2. ASSUME NEW s \in Stream
      PROVE  Log!Extends(Shown(db')[s], Shown(db)[s])
  <2> DEFINE n == Len(db.events[s])
  <2>1. /\ Len(Shown(db)[s]) = n /\ n \in Nat /\ Len(Shown(db')[s]) = Len(db'.events[s])
        /\ Len(db'.events[s]) \in Nat /\ n <= Len(db'.events[s])
    BY <1>1, ShownFacts, DatabaseType DEF Grew
  <2>2. ASSUME NEW i \in 1 .. n
        PROVE  Shown(db')[s][i] = Shown(db)[s][i]
    <3>1. i \in 1 .. Len(db'.events[s]) /\ db'.events[s][i] = db.events[s][i]
      BY <2>1 DEF Grew
    <3>2. Shown(db)[s][i] = [key |-> db.events[s][i].key, body |-> db.events[s][i].body]
      BY <1>1, ShownFacts
    <3>3. Shown(db')[s][i] = [key |-> db'.events[s][i].key, body |-> db'.events[s][i].body]
      BY <3>1, ShownFacts
    <3> QED
      BY <3>1, <3>2, <3>3
  <2> HIDE DEF n
  <2> QED
    BY <2>1, <2>2 DEF Log!Extends
<1>3. ASSUME NEW s \in Stream,
             NEW i \in (Len(Shown(db)[s]) + 1) .. Len(Shown(db')[s])
      PROVE  db.record[<<s[2], Shown(db')[s][i].key>>] = None
  <2>1. /\ i \in (Len(db.events[s]) + 1) .. Len(db'.events[s])
        /\ i \in 1 .. Len(db'.events[s])
    BY <1>1, ShownFacts, DatabaseType
  <2>2. Shown(db')[s][i].key = db'.events[s][i].key
    BY <2>1, ShownFacts
  <2> QED
    BY <2>1, <2>2 DEF Grew
<1>4. ASSUME NEW s \in Stream,
             NEW i \in (Len(Shown(db)[s]) + 1) .. Len(Shown(db')[s])
      PROVE  Shown(db')[s][i].key \notin Log!Used(s)
  <2> SUFFICES ASSUME Shown(db')[s][i].key \in Log!Used(s) PROVE FALSE
    OBVIOUS
  <2>1. PICK t \in {u \in Stream : u[2] = s[2]} :
          Shown(db')[s][i].key \in {Shown(db)[t][j].key : j \in 1 .. Len(Shown(db)[t])}
    BY DEF Log!Used, Shown
  <2>2. PICK j \in 1 .. Len(Shown(db)[t]) : Shown(db')[s][i].key = Shown(db)[t][j].key
    BY <2>1
  <2>3. db.record[<<s[2], Shown(db)[t][j].key>>] # None
    BY <2>1, UsedHaveRecords
  <2> QED
    BY <1>3, <2>2, <2>3
<1>5. \A s \in Stream :
        /\ Log!Extends(Shown(db')[s], Shown(db)[s])
        /\ \A i \in (Len(Shown(db)[s]) + 1) .. Len(Shown(db')[s]) :
             Shown(db')[s][i].key \notin Log!Used(s)
  BY <1>2, <1>4
<1> QED
  BY <1>5 DEF Log!Grow, Shown

\* The committed streams are an append-only log in which a key appends once,
\* whatever crashes, rollbacks, nested calls and retries the store goes through:
\* the store implements EventLog.
THEOREM StoreImplementsLog == Spec => ImplementsLog
<1>1. Init => Log!Init
  <2> SUFFICES ASSUME Init PROVE Log!Init
    OBVIOUS
  <2>1. \A s \in Stream : db.events[s] = << >>
    BY DEF Init, Empty
  <2>2. \A s \in Stream :
          [i \in 1 .. Len(db.events[s]) |->
             [key |-> db.events[s][i].key, body |-> db.events[s][i].body]] = << >>
    BY <2>1
  <2> QED
    BY <2>2 DEF Log!Init
<1>2. IInv /\ IInv' /\ [Next]_vars => Log!Grow
  BY StepKeeps, GrowthShown DEF Kept, IInv, Sound
<1> QED
  BY <1>1, <1>2, Invariance, PTL DEF Spec, ImplementsLog, Log!Spec

-----------------------------------------------------------------------------
(* The health circuits, whose aggregates are streams of the store.         *)

Circuits == [state : CircuitStates, last : 0 .. MaxTime, failures : Seq(0 .. MaxTime),
             successes : 0 .. RecoverySuccesses - 1, cooldown : Nat,
             lease : Lease \cup {Nil}, atGrant : BOOLEAN, replays : BOOLEAN]

\* The times of failures, in their order and none after t.
InTime(times, t) ==
  /\ times \in Seq(0 .. MaxTime)
  /\ \A i, j \in 1 .. Len(times) : i <= j => times[i] <= times[j] /\ times[j] <= t

InOrder(c) == InTime(c.failures, c.last)

\* A circuit fits its window, as StateFitsWindow says of all.
FitsWindow(c) ==
  /\ c.state = "healthy" => Len(c.failures) < DegradeAfter
  /\ c.state = "degraded" => Len(c.failures) < OpenAfter
  /\ c.state \in {"healthy", "degraded"} => c.cooldown = 0

\* What an event at time t leaves is sound.
SoundAt(c, t) == c \in Circuits /\ InTime(c.failures, t) /\ FitsWindow(c)

HealthInv ==
  /\ HealthTypeOK /\ LeasesCoverHalfOpen
  /\ \A a \in Aggregate : InOrder(circuit[a]) /\ FitsWindow(circuit[a])

\* What an event at time t may make of a circuit that is not granted or
\* probed by it: it keeps its lease, stays half-open if it was, and an open
\* one opens again at most.
Outcome(c, d) ==
  /\ d.lease = c.lease
  /\ d.state = "half_open" <=> c.state = "half_open"
  /\ c.state = "open" => d.state = "open"

-----------------------------------------------------------------------------
\* The positions of a sequence of length k are k.
LEMMA IntervalCardinality ==
  ASSUME NEW k \in Nat
  PROVE  IsFiniteSet(1 .. k) /\ Cardinality(1 .. k) = k
<1>1. Cardinality(1 .. k) = IF 1 > k THEN 0 ELSE k - 1 + 1
  BY FS_Interval
<1> QED
  BY <1>1, FS_Interval

\* The times that no longer count are the first ones.
LEMMA StaleFirst ==
  ASSUME NEW s \in Seq(0 .. MaxTime), NEW t \in 0 .. MaxTime,
         \A i, j \in 1 .. Len(s) : i <= j => s[i] <= s[j]
  PROVE  LET stale == {i \in 1 .. Len(s) : s[i] + FailureWindow < t}
         IN /\ Cardinality(stale) \in 0 .. Len(s)
            /\ stale = 1 .. Cardinality(stale)
<1> DEFINE stale == {i \in 1 .. Len(s) : s[i] + FailureWindow < t}
           n == Cardinality(stale)
<1>0. FailureWindow \in Nat /\ MaxTime \in Nat /\ Len(s) \in Nat
  BY PolicyAssumption
<1>1. \A k \in Nat : IsFiniteSet(1 .. k) /\ Cardinality(1 .. k) = k
  BY IntervalCardinality
<1>2. IsFiniteSet(stale) /\ n \in Nat /\ n <= Len(s)
  <2>1. IsFiniteSet(1 .. Len(s)) /\ Cardinality(1 .. Len(s)) = Len(s)
    BY <1>0, <1>1
  <2>2. stale \subseteq 1 .. Len(s)
    OBVIOUS
  <2> QED
    BY <2>1, <2>2, FS_Subset, FS_CardinalityType
<1>3. \A i, j \in 1 .. Len(s) : i <= j /\ j \in stale => i \in stale
  <2> SUFFICES ASSUME NEW i \in 1 .. Len(s), NEW j \in 1 .. Len(s), i <= j, j \in stale
               PROVE  i \in stale
    OBVIOUS
  <2>1. s[i] \in Nat /\ s[j] \in Nat /\ s[i] <= s[j]
    BY <1>0
  <2> QED
    BY <1>0, <2>1
<1> HIDE DEF stale
<1>4. stale \subseteq 1 .. Len(s)
  BY DEF stale
<1>5. \A i \in stale : i <= n
  <2> SUFFICES ASSUME NEW i \in stale, i > n PROVE FALSE
    BY <1>0, <1>2, <1>4
  <2>1. i \in Nat /\ 1 .. i \subseteq stale
    BY <1>0, <1>3, <1>4
  <2>2. Cardinality(1 .. i) = i
    BY <1>1, <2>1
  <2>3. i <= n
    BY <1>2, <2>1, <2>2, FS_Subset
  <2> QED
    BY <1>2, <2>1, <2>3
<1>6. \A i \in 1 .. n : i \in stale
  <2> SUFFICES ASSUME NEW i \in 1 .. n, i \notin stale PROVE FALSE
    OBVIOUS
  <2>0. i \in Nat /\ i - 1 \in Nat /\ i \in 1 .. Len(s)
    BY <1>0, <1>2
  <2>1. \A j \in stale : j \in 1 .. (i - 1)
    <3> SUFFICES ASSUME NEW j \in stale, j > i - 1 PROVE FALSE
      BY <1>0, <1>4, <2>0
    <3> QED
      BY <1>0, <1>3, <1>4, <2>0
  <2>2. IsFiniteSet(1 .. (i - 1)) /\ Cardinality(1 .. (i - 1)) = i - 1
    BY <1>1, <2>0
  <2>3. n <= i - 1
    BY <2>1, <2>2, FS_Subset
  <2> QED
    BY <1>2, <2>3
<1>7. stale = 1 .. n
  <2>1. \A i \in stale : i \in 1 .. n
    BY <1>0, <1>2, <1>4, <1>5
  <2> QED
    BY <1>6, <2>1
<1> QED
  BY <1>2, <1>7 DEF stale

\* Recent keeps, in order, exactly the failures within the window.
LEMMA RecentCounts ==
  ASSUME NEW c \in Circuits, NEW t \in 0 .. MaxTime, InOrder(c)
  PROVE  \E n \in 0 .. Len(c.failures) :
           /\ Recent(c, t) \in Seq(0 .. MaxTime)
           /\ Len(Recent(c, t)) = Len(c.failures) - n
           /\ \A i \in 1 .. Len(Recent(c, t)) : Recent(c, t)[i] = c.failures[n + i]
           /\ \A i \in 1 .. Len(c.failures) : t <= c.failures[i] + FailureWindow <=> i > n
<1> DEFINE s == c.failures
           stale == {i \in 1 .. Len(s) : s[i] + FailureWindow < t}
           n == Cardinality(stale)
<1>0. s \in Seq(0 .. MaxTime) /\ Len(s) \in Nat /\ FailureWindow \in Nat /\ MaxTime \in Nat
  BY PolicyAssumption DEF Circuits
<1>1. \A i, j \in 1 .. Len(s) : i <= j => s[i] <= s[j]
  BY DEF InOrder, InTime
<1>2. n \in 0 .. Len(s) /\ stale = 1 .. n
  BY <1>0, <1>1, StaleFirst
<1>3. \A i \in 1 .. Len(s) : s[i] \in 0 .. MaxTime
  BY <1>0
<1>4. \A i \in 1 .. Len(s) : t <= s[i] + FailureWindow <=> i > n
  <2> SUFFICES ASSUME NEW i \in 1 .. Len(s)
               PROVE  t <= s[i] + FailureWindow <=> i > n
    OBVIOUS
  <2>1. i \in stale <=> s[i] + FailureWindow < t
    OBVIOUS
  <2>2. i \in stale <=> i <= n
    BY <1>0, <1>2
  <2>3. s[i] \in Nat /\ t \in Nat /\ n \in Nat /\ i \in Nat
    BY <1>0, <1>2, <1>3
  <2> HIDE DEF stale
  <2> QED
    BY <1>0, <2>1, <2>2, <2>3
<1>5. Recent(c, t) = SubSeq(s, n + 1, Len(s))
  BY DEF Recent
<1> HIDE DEF stale, s
<1>6. \A i \in (n + 1) .. Len(s) : s[i] \in 0 .. MaxTime
  BY <1>2, <1>3
<1>7. /\ SubSeq(s, n + 1, Len(s)) \in Seq(0 .. MaxTime)
      /\ Len(SubSeq(s, n + 1, Len(s))) = Len(s) - n
      /\ \A i \in 1 .. Len(s) - n : SubSeq(s, n + 1, Len(s))[i] = s[n + i]
  <2>1. n + 1 \in Int /\ Len(s) \in Int /\ Len(s) - (n + 1) + 1 = Len(s) - n
    BY <1>0, <1>2
  <2>2. /\ SubSeq(s, n + 1, Len(s)) \in Seq(0 .. MaxTime)
        /\ Len(SubSeq(s, n + 1, Len(s))) =
             IF n + 1 <= Len(s) THEN Len(s) - (n + 1) + 1 ELSE 0
        /\ \A i \in 1 .. Len(s) - (n + 1) + 1 :
             SubSeq(s, n + 1, Len(s))[i] = s[n + 1 + i - 1]
    BY <1>6, <2>1, SubSeqProperties
  <2>3. Len(SubSeq(s, n + 1, Len(s))) = Len(s) - n
    BY <1>0, <1>2, <2>2
  <2>4. \A i \in 1 .. Len(s) - n : n + 1 + i - 1 = n + i
    BY <1>0, <1>2
  <2> QED
    BY <2>1, <2>2, <2>3, <2>4
<1> QED
  BY <1>2, <1>4, <1>5, <1>7 DEF s

LEMMA RecentInTime ==
  ASSUME NEW c \in Circuits, NEW t \in 0 .. MaxTime, InOrder(c), t >= c.last
  PROVE  /\ InTime(Recent(c, t), t)
         /\ Len(Recent(c, t)) \in Nat /\ Len(Recent(c, t)) <= Len(c.failures)
<1>1. PICK n \in 0 .. Len(c.failures) :
        /\ Recent(c, t) \in Seq(0 .. MaxTime)
        /\ Len(Recent(c, t)) = Len(c.failures) - n
        /\ \A i \in 1 .. Len(Recent(c, t)) : Recent(c, t)[i] = c.failures[n + i]
  BY RecentCounts
<1>2. /\ c.failures \in Seq(0 .. MaxTime) /\ Len(c.failures) \in Nat
      /\ c.last \in Nat /\ t \in Nat /\ MaxTime \in Nat
  BY PolicyAssumption DEF Circuits
<1>3. \A i \in 1 .. Len(c.failures) : c.failures[i] \in Nat
  BY <1>2
<1> DEFINE r == Recent(c, t)
<1> HIDE DEF r
<1>4. ASSUME NEW i \in 1 .. Len(r), NEW j \in 1 .. Len(r), i <= j
      PROVE  r[i] <= r[j] /\ r[j] <= t
  <2>0. /\ n \in Nat /\ n <= Len(c.failures) /\ Len(r) = Len(c.failures) - n
        /\ i \in Nat /\ j \in Nat /\ 1 <= i /\ 1 <= j
        /\ i <= Len(c.failures) - n /\ j <= Len(c.failures) - n
    BY <1>1, <1>2 DEF r
  <2>1. n + i \in 1 .. Len(c.failures) /\ n + j \in 1 .. Len(c.failures) /\ n + i <= n + j
    BY <1>2, <1>4, <2>0
  <2>2. r[i] = c.failures[n + i] /\ r[j] = c.failures[n + j]
    BY <1>1, <1>4 DEF r
  <2>3. c.failures[n + i] <= c.failures[n + j] /\ c.failures[n + j] <= c.last
    BY <2>1 DEF InOrder, InTime
  <2>4. c.failures[n + i] \in Nat /\ c.failures[n + j] \in Nat
    BY <1>3, <2>1
  <2>5. c.failures[n + j] <= t
    BY <1>2, <2>3, <2>4, SMTT(20)
  <2> QED
    BY <2>2, <2>3, <2>5
<1>5. InTime(r, t)
  BY <1>1, <1>4 DEF InTime, r
<1> QED
  BY <1>1, <1>2, <1>5 DEF r

\* The newest of times in order are in order.
LEMMA NewestInTime ==
  ASSUME NEW s, NEW t \in 0 .. MaxTime, InTime(s, t)
  PROVE  InTime(Newest(s), t) /\ Len(Newest(s)) \in Nat
<1>0. s \in Seq(0 .. MaxTime) /\ Len(s) \in Nat /\ OpenAfter \in Nat \ {0} /\ MaxTime \in Nat
  BY PolicyAssumption DEF InTime
<1>1. CASE Len(s) <= OpenAfter
  BY <1>0, <1>1 DEF Newest
<1>2. CASE Len(s) > OpenAfter
  <2> DEFINE n == Len(s) - OpenAfter
             r == SubSeq(s, n + 1, Len(s))
  <2>0. n \in Nat /\ Newest(s) = r /\ n <= Len(s)
    BY <1>0, <1>2 DEF Newest
  <2>1. \A i \in 1 .. Len(s) : s[i] \in 0 .. MaxTime
    BY <1>0
  <2>2. \A i \in (n + 1) .. Len(s) : s[i] \in 0 .. MaxTime
    BY <1>0, <2>0, <2>1
  <2> HIDE DEF n
  <2>3. /\ r \in Seq(0 .. MaxTime) /\ Len(r) = Len(s) - n
        /\ \A i \in 1 .. Len(s) - n : r[i] = s[n + i]
    BY <1>0, <2>0, <2>2, SubSeqProperties
  <2> HIDE DEF r
  <2>4. ASSUME NEW i \in 1 .. Len(r), NEW j \in 1 .. Len(r), i <= j
        PROVE  r[i] <= r[j] /\ r[j] <= t
    <3>1. n + i \in 1 .. Len(s) /\ n + j \in 1 .. Len(s) /\ n + i <= n + j
      BY <1>0, <2>0, <2>3, <2>4
    <3>2. r[i] = s[n + i] /\ r[j] = s[n + j]
      BY <2>3, <2>4
    <3> QED
      BY <3>1, <3>2 DEF InTime
  <2> QED
    BY <1>0, <2>0, <2>3, <2>4 DEF InTime
<1> QED
  BY <1>0, <1>1, <1>2

\* A failure at time t is the last of those that count.
LEMMA FailedInTime ==
  ASSUME NEW c \in Circuits, NEW t \in 0 .. MaxTime, InOrder(c), t >= c.last
  PROVE  LET times == Newest(Append(Recent(c, t), t))
         IN InTime(times, t) /\ Len(times) \in Nat
<1> DEFINE r == Recent(c, t)
           s == Append(r, t)
<1>1. InTime(r, t)
  BY RecentInTime
<1> HIDE DEF r
<1>2. r \in Seq(0 .. MaxTime) /\ Len(r) \in Nat /\ MaxTime \in Nat /\ t \in Nat
  BY <1>1, PolicyAssumption DEF InTime
<1>3. /\ s \in Seq(0 .. MaxTime) /\ Len(s) = Len(r) + 1
      /\ \A i \in 1 .. Len(r) : s[i] = r[i]
      /\ s[Len(r) + 1] = t
  BY <1>2, AppendProperties
<1> HIDE DEF s
<1>4. ASSUME NEW i \in 1 .. Len(s), NEW j \in 1 .. Len(s), i <= j
      PROVE  s[i] <= s[j] /\ s[j] <= t
  <2>1. CASE j <= Len(r)
    <3>1. i \in 1 .. Len(r) /\ j \in 1 .. Len(r)
      BY <1>2, <1>3, <1>4, <2>1
    <3>2. s[i] = r[i] /\ s[j] = r[j]
      BY <1>3, <3>1
    <3> QED
      BY <1>1, <1>4, <3>1, <3>2 DEF InTime
  <2>2. CASE j = Len(r) + 1
    <3>1. CASE i <= Len(r)
      <4>1. i \in 1 .. Len(r) /\ s[i] = r[i] /\ s[j] = t
        BY <1>2, <1>3, <2>2, <3>1
      <4>2. r[i] <= t
        BY <1>1, <1>2, <4>1 DEF InTime
      <4> QED
        BY <1>2, <4>1, <4>2
    <3>2. CASE i = Len(r) + 1
      BY <1>2, <1>3, <2>2, <3>2
    <3> QED
      BY <1>2, <1>3, <3>1, <3>2
  <2> QED
    BY <1>2, <1>3, <2>1, <2>2
<1>5. InTime(s, t)
  BY <1>3, <1>4 DEF InTime
<1> QED
  BY <1>5, NewestInTime DEF s, r

-----------------------------------------------------------------------------
\* What each event makes of a circuit.
LEMMA AfterTransientSound ==
  ASSUME NEW c \in Circuits, NEW t \in 0 .. MaxTime, InOrder(c), FitsWindow(c), t >= c.last,
         NEW retry \in RetryAfter \cup {Nil}
  PROVE  SoundAt(AfterTransient(c, t, retry), t) /\ Outcome(c, AfterTransient(c, t, retry))
<1> DEFINE times == Newest(Append(Recent(c, t), t))
           failed == [c EXCEPT !.failures = times, !.successes = 0]
           delay == IF retry # Nil /\ retry > Cooldown THEN retry ELSE Cooldown
           d == AfterTransient(c, t, retry)
<1>1. InTime(times, t) /\ Len(times) \in Nat
  BY FailedInTime
<1> HIDE DEF times
<1>2. /\ t + delay \in Nat /\ RecoverySuccesses \in Nat \ {0}
      /\ DegradeAfter \in Nat /\ OpenAfter \in Nat /\ OpenAfter > DegradeAfter
  BY PolicyAssumption
<1> HIDE DEF delay
<1>3. times \in Seq(0 .. MaxTime) /\ 0 \in 0 .. RecoverySuccesses - 1
  BY <1>1, <1>2 DEF InTime
<1>4. failed \in Circuits
  BY <1>3 DEF Circuits
<1>5. /\ failed.failures = times /\ failed.lease = c.lease /\ failed.state = c.state
      /\ failed.cooldown = c.cooldown
  BY DEF Circuits
<1>6. d = CASE c.state # "half_open" /\ (retry # Nil \/ Len(times) >= OpenAfter) ->
                 [failed EXCEPT !.state = "open", !.cooldown = t + delay]
            [] c.state = "healthy" /\ Len(times) >= DegradeAfter /\ Len(times) < OpenAfter
                 /\ retry = Nil -> [failed EXCEPT !.state = "degraded"]
            [] OTHER -> failed
  BY DEF AfterTransient, times, delay
<1> HIDE DEF failed, d
<1>7. CASE c.state # "half_open" /\ (retry # Nil \/ Len(times) >= OpenAfter)
  <2>1. d = [failed EXCEPT !.state = "open", !.cooldown = t + delay]
    BY <1>2, <1>1, <1>6, <1>7
  <2>2. /\ d \in Circuits /\ d.failures = times /\ d.lease = c.lease /\ d.state = "open"
    BY <1>2, <1>4, <1>5, <2>1 DEF Circuits, CircuitStates
  <2> QED
    BY <1>1, <1>7, <2>2 DEF SoundAt, FitsWindow, Outcome, d
<1>8. CASE c.state = "healthy" /\ Len(times) >= DegradeAfter /\ Len(times) < OpenAfter
           /\ retry = Nil
  <2>1. d = [failed EXCEPT !.state = "degraded"]
    BY <1>2, <1>1, <1>6, <1>8
  <2>2. /\ d \in Circuits /\ d.failures = times /\ d.lease = c.lease /\ d.state = "degraded"
        /\ d.cooldown = c.cooldown
    BY <1>4, <1>5, <2>1 DEF Circuits, CircuitStates
  <2> QED
    BY <1>1, <1>8, <2>2 DEF SoundAt, FitsWindow, Outcome, d
<1>9. CASE /\ ~(c.state # "half_open" /\ (retry # Nil \/ Len(times) >= OpenAfter))
           /\ ~(c.state = "healthy" /\ Len(times) >= DegradeAfter /\ Len(times) < OpenAfter
                /\ retry = Nil)
  <2>1. d = failed
    BY <1>6, <1>9
  <2>2. c.state = "half_open" \/ Len(times) < OpenAfter
    BY <1>1, <1>2, <1>9
  <2>3. c.state = "healthy" => Len(times) < DegradeAfter
    BY <1>1, <1>2, <1>9
  <2> QED
    BY <1>1, <1>4, <1>5, <2>1, <2>2, <2>3 DEF SoundAt, FitsWindow, Outcome, d
<1> QED
  BY <1>7, <1>8, <1>9 DEF d

LEMMA AfterPermanentSound ==
  ASSUME NEW c \in Circuits, NEW t \in 0 .. MaxTime, InOrder(c), FitsWindow(c), t >= c.last
  PROVE  SoundAt(AfterPermanent(c, t), t) /\ Outcome(c, AfterPermanent(c, t))
<1> DEFINE d == AfterPermanent(c, t)
           r == Recent(c, t)
           k == IF c.state = "degraded" THEN 0 ELSE c.successes
<1>1. InTime(r, t) /\ Len(r) \in Nat /\ Len(r) <= Len(c.failures)
  BY RecentInTime
<1>2. k \in 0 .. RecoverySuccesses - 1
  BY PolicyAssumption DEF Circuits
<1>3. d = [c EXCEPT !.failures = r, !.successes = k]
  BY DEF AfterPermanent, Circuits
<1> HIDE DEF r, d, k
<1>4. d \in Circuits /\ d.failures = r /\ d.state = c.state /\ d.lease = c.lease
      /\ d.cooldown = c.cooldown
  BY <1>1, <1>2, <1>3 DEF Circuits, InTime
<1>5. FitsWindow(d)
  <2>1. Len(c.failures) \in Nat /\ DegradeAfter \in Nat /\ OpenAfter \in Nat
    BY PolicyAssumption DEF Circuits
  <2> QED
    BY <1>1, <1>4, <2>1 DEF FitsWindow
<1> QED
  BY <1>1, <1>4, <1>5 DEF SoundAt, Outcome, d

LEMMA ClosedSound ==
  ASSUME NEW c \in Circuits, NEW t \in 0 .. MaxTime
  PROVE  /\ SoundAt(Closed(c), t) /\ Closed(c).state = "healthy"
         /\ Closed(c).lease = c.lease /\ Closed(c).replays = c.replays
<1>1. /\ << >> \in Seq(0 .. MaxTime) /\ Len(<< >>) = 0
      /\ 0 \in 0 .. RecoverySuccesses - 1 /\ DegradeAfter \in Nat \ {0}
  BY PolicyAssumption
<1>2. /\ Closed(c) \in Circuits /\ Closed(c).failures = << >> /\ Closed(c).state = "healthy"
      /\ Closed(c).lease = c.lease /\ Closed(c).cooldown = 0 /\ Closed(c).replays = c.replays
  BY <1>1 DEF Closed, Circuits, CircuitStates
<1>3. InTime(<< >>, t)
  BY <1>1 DEF InTime
<1>4. FitsWindow(Closed(c))
  BY <1>1, <1>2 DEF FitsWindow
<1> QED
  BY <1>2, <1>3, <1>4 DEF SoundAt

LEMMA AfterSuccessSound ==
  ASSUME NEW c \in Circuits, NEW t \in 0 .. MaxTime, InOrder(c), FitsWindow(c), t >= c.last
  PROVE  SoundAt(AfterSuccess(c, t), t) /\ Outcome(c, AfterSuccess(c, t))
<1> DEFINE d == AfterSuccess(c, t)
           r == Recent(c, t)
<1>1. InTime(r, t) /\ Len(r) \in Nat /\ Len(r) <= Len(c.failures) /\ r \in Seq(0 .. MaxTime)
  BY RecentInTime DEF InTime
<1>2. /\ c.successes \in Nat /\ RecoverySuccesses \in Nat \ {0} /\ Len(c.failures) \in Nat
      /\ DegradeAfter \in Nat \ {0} /\ OpenAfter \in Nat \ {0}
  BY PolicyAssumption DEF Circuits
<1>3. d = CASE c.state = "degraded" /\ c.successes + 1 >= RecoverySuccesses -> Closed(c)
            [] c.state = "degraded" /\ c.successes + 1 < RecoverySuccesses ->
                 [c EXCEPT !.failures = r, !.successes = c.successes + 1]
            [] c.state = "healthy" -> [c EXCEPT !.failures = << >>, !.successes = 0]
            [] OTHER -> [c EXCEPT !.failures = r]
  BY DEF AfterSuccess, Circuits
<1> HIDE DEF r, d
<1>4. CASE c.state = "degraded" /\ c.successes + 1 >= RecoverySuccesses
  <2>1. d = Closed(c)
    BY <1>2, <1>3, <1>4
  <2> QED
    BY <1>4, <2>1, ClosedSound DEF Outcome, d
<1>5. CASE c.state = "degraded" /\ c.successes + 1 < RecoverySuccesses
  <2>1. d = [c EXCEPT !.failures = r, !.successes = c.successes + 1]
    BY <1>2, <1>3, <1>5
  <2>2. c.successes + 1 \in 0 .. RecoverySuccesses - 1
    BY <1>2, <1>5
  <2>3. d \in Circuits /\ d.failures = r /\ d.state = c.state /\ d.lease = c.lease
        /\ d.cooldown = c.cooldown
    BY <1>1, <2>1, <2>2 DEF Circuits
  <2>4. FitsWindow(d)
    BY <1>1, <1>2, <2>3 DEF FitsWindow
  <2> QED
    BY <1>1, <2>3, <2>4 DEF SoundAt, Outcome, d
<1>6. CASE c.state = "healthy"
  <2>1. d = [c EXCEPT !.failures = << >>, !.successes = 0]
    BY <1>3, <1>6
  <2>2. /\ << >> \in Seq(0 .. MaxTime) /\ Len(<< >>) = 0
        /\ 0 \in 0 .. RecoverySuccesses - 1
    BY <1>2
  <2>3. d \in Circuits /\ d.failures = << >> /\ d.state = c.state /\ d.lease = c.lease
        /\ d.cooldown = c.cooldown
    BY <2>1, <2>2 DEF Circuits
  <2>4. InTime(<< >>, t)
    BY <2>2 DEF InTime
  <2>5. FitsWindow(d)
    BY <1>2, <2>2, <2>3 DEF FitsWindow
  <2> QED
    BY <2>3, <2>4, <2>5 DEF SoundAt, Outcome, d
<1>7. CASE c.state \notin {"degraded", "healthy"}
  <2>1. d = [c EXCEPT !.failures = r]
    BY <1>3, <1>7
  <2>2. d \in Circuits /\ d.failures = r /\ d.state = c.state /\ d.lease = c.lease
    BY <1>1, <2>1 DEF Circuits
  <2>3. FitsWindow(d)
    BY <1>7, <2>2 DEF FitsWindow
  <2> QED
    BY <1>1, <2>2, <2>3 DEF SoundAt, Outcome, d
<1> QED
  <2>1. (c.successes + 1 >= RecoverySuccesses) \/ (c.successes + 1 < RecoverySuccesses)
    BY <1>2
  <2> QED
    BY <1>4, <1>5, <1>6, <1>7, <2>1 DEF d

\* A grant makes a circuit half-open under the lease.
LEMMA AfterGrantSound ==
  ASSUME NEW c \in Circuits, NEW t \in 0 .. MaxTime, InOrder(c), t >= c.last, NEW l \in Lease
  PROVE  /\ SoundAt(AfterGrant(c, t, l), t)
         /\ AfterGrant(c, t, l).state = "half_open" /\ AfterGrant(c, t, l).lease = l
<1>1. InTime(Recent(c, t), t) /\ Recent(c, t) \in Seq(0 .. MaxTime)
  BY RecentInTime DEF InTime
<1>2. /\ AfterGrant(c, t, l) \in Circuits /\ AfterGrant(c, t, l).failures = Recent(c, t)
      /\ AfterGrant(c, t, l).state = "half_open" /\ AfterGrant(c, t, l).lease = l
  BY <1>1 DEF AfterGrant, Circuits, CircuitStates
<1>3. FitsWindow(AfterGrant(c, t, l))
  BY <1>2 DEF FitsWindow
<1> QED
  BY <1>1, <1>2, <1>3 DEF SoundAt

\* A probe that ends, however it ends, leaves the circuit to no lease.
LEMMA AfterProbeSound ==
  ASSUME NEW c \in Circuits, NEW t \in 0 .. MaxTime, InOrder(c), t >= c.last,
         NEW success \in BOOLEAN
  PROVE  /\ SoundAt(AfterProbe(c, t, success), t)
         /\ AfterProbe(c, t, success).lease = Nil
         /\ AfterProbe(c, t, success).state = IF success THEN "healthy" ELSE "open"
<1> DEFINE d == AfterProbe(c, t, success)
<1>1. CASE success
  <2>1. d = [Closed(c) EXCEPT !.lease = Nil]
    BY <1>1 DEF AfterProbe
  <2>2. Closed(c) \in Circuits /\ SoundAt(Closed(c), t) /\ Closed(c).state = "healthy"
    BY ClosedSound DEF SoundAt
  <2> HIDE DEF d
  <2>3. /\ d \in Circuits /\ d.lease = Nil /\ d.state = "healthy"
        /\ d.failures = Closed(c).failures /\ d.cooldown = Closed(c).cooldown
    BY <2>1, <2>2 DEF Circuits
  <2> QED
    BY <1>1, <2>2, <2>3 DEF SoundAt, FitsWindow, d
<1>2. CASE ~success
  <2>1. InTime(Recent(c, t), t) /\ Recent(c, t) \in Seq(0 .. MaxTime)
    BY RecentInTime DEF InTime
  <2>2. t + Cooldown \in Nat /\ 0 \in 0 .. RecoverySuccesses - 1
    BY PolicyAssumption
  <2>3. d = [c EXCEPT !.state = "open", !.lease = Nil, !.failures = Recent(c, t),
                      !.successes = 0, !.cooldown = t + Cooldown]
    BY <1>2 DEF AfterProbe
  <2> HIDE DEF d
  <2>4. /\ d \in Circuits /\ d.lease = Nil /\ d.state = "open"
        /\ d.failures = Recent(c, t)
    BY <2>1, <2>2, <2>3 DEF Circuits, CircuitStates
  <2>5. FitsWindow(d)
    BY <2>4 DEF FitsWindow
  <2> QED
    BY <1>2, <2>1, <2>4, <2>5 DEF SoundAt, d
<1> QED
  BY <1>1, <1>2 DEF d

-----------------------------------------------------------------------------
\* Circuit e is what Recorded leaves of aggregate a, whether or not a lease
\* refers to the new version.
Written(a, t, d, e) ==
  IF t < circuit[a].last THEN e = [circuit[a] EXCEPT !.replays = FALSE, !.atGrant = FALSE]
  ELSE \E granted \in BOOLEAN : e = [d EXCEPT !.last = t, !.atGrant = granted]

\* What is made of a circuit by an event that arrived in order, or too late.
Landed(a, t, d, e) ==
  /\ e \in Circuits /\ InOrder(e) /\ FitsWindow(e)
  /\ IF t < circuit[a].last
     THEN ~e.replays /\ e.state = circuit[a].state /\ e.lease = circuit[a].lease
     ELSE e.state = d.state /\ e.lease = d.lease /\ e.last = t

\* What replays of an aggregate find once the event is in its stream.
LEMMA RecordedSound ==
  ASSUME NEW a \in Aggregate, HealthInv, NEW t \in 0 .. MaxTime, NEW d,
         t >= circuit[a].last => SoundAt(d, t),
         NEW e, Written(a, t, d, e)
  PROVE  Landed(a, t, d, e)
<1> DEFINE c == circuit[a]
<1>0. c \in Circuits /\ InOrder(c) /\ FitsWindow(c) /\ c.last \in Nat /\ t \in Nat
  BY PolicyAssumption DEF HealthInv, HealthTypeOK, Circuits
<1>1. CASE t < c.last
  <2>1. e = [c EXCEPT !.replays = FALSE, !.atGrant = FALSE]
    BY <1>1 DEF Written
  <2> HIDE DEF c
  <2>2. /\ e \in Circuits /\ e.failures = c.failures /\ e.last = c.last /\ e.state = c.state
        /\ e.lease = c.lease /\ e.cooldown = c.cooldown /\ e.replays = FALSE
    BY <1>0, <2>1 DEF Circuits
  <2>3. InOrder(e)
    BY <1>0, <2>2 DEF InOrder
  <2>4. FitsWindow(e)
    BY <1>0, <2>2 DEF FitsWindow
  <2> QED
    BY <1>1, <2>2, <2>3, <2>4 DEF c, Landed
<1>2. CASE ~(t < c.last)
  <2>1. PICK granted \in BOOLEAN : e = [d EXCEPT !.last = t, !.atGrant = granted]
    BY <1>2 DEF Written
  <2>2. SoundAt(d, t)
    BY <1>0, <1>2
  <2> HIDE DEF c
  <2>3. /\ e \in Circuits /\ e.failures = d.failures /\ e.last = t /\ e.state = d.state
        /\ e.lease = d.lease /\ e.cooldown = d.cooldown
    BY <2>1, <2>2 DEF Circuits, SoundAt
  <2>4. InOrder(e)
    BY <2>2, <2>3 DEF InOrder, SoundAt
  <2>5. FitsWindow(e)
    BY <2>2, <2>3 DEF FitsWindow, SoundAt
  <2> QED
    BY <1>2, <2>3, <2>4, <2>5 DEF c, Landed
<1> QED
  BY <1>1, <1>2

\* The circuits of a state that satisfies the invariant.
LEMMA CircuitFacts ==
  ASSUME HealthInv, NEW a \in Aggregate
  PROVE  /\ circuit[a] \in Circuits /\ InOrder(circuit[a]) /\ FitsWindow(circuit[a])
         /\ circuit[a].last \in Nat
         /\ circuit[a].replays =>
              /\ \A l \in Lease : Active(l) /\ a \in lease[l].members <=> circuit[a].lease = l
              /\ circuit[a].lease # Nil <=> circuit[a].state = "half_open"
<1>1. circuit[a] \in Circuits /\ circuit[a].last \in Nat
  BY DEF HealthInv, HealthTypeOK, Circuits
<1> QED
  BY <1>1 DEF HealthInv, LeasesCoverHalfOpen

\* The event times a call may carry.
LEMMA EventTimes ==
  ASSUME HealthInv, NEW t \in EventTime
  PROVE  t \in 0 .. MaxTime /\ t \in Nat
BY PolicyAssumption DEF EventTime, HealthInv, HealthTypeOK

\* An ordinary outcome moves the circuits of its target and leaves the leases.
LEMMA RecordKeeps ==
  ASSUME HealthInv, NEW m \in Model, NEW t \in EventTime, NEW after,
         Record(m, t, after),
         \A a \in {Provider, m} :
            t >= circuit[a].last => SoundAt(after[a], t) /\ Outcome(circuit[a], after[a])
  PROVE  /\ HealthInv'
         /\ \A a \in Aggregate :
              circuit[a].state \in {"open", "half_open"} =>
                circuit'[a].state \in {"open", "half_open"}
<1>0. t \in 0 .. MaxTime /\ t \in Nat
  BY EventTimes
<1>1. circuit' = [a \in Aggregate |->
                    IF a \in {Provider, m}
                    THEN Recorded(a, t, after[a], FALSE) ELSE circuit[a]]
  BY DEF Record
<1>2. ASSUME NEW a \in Aggregate
      PROVE  /\ circuit'[a] \in Circuits /\ InOrder(circuit'[a]) /\ FitsWindow(circuit'[a])
             /\ circuit[a].state \in {"open", "half_open"} =>
                  circuit'[a].state \in {"open", "half_open"}
             /\ circuit'[a].replays =>
                  /\ circuit[a].replays /\ circuit'[a].lease = circuit[a].lease
                  /\ circuit'[a].state = "half_open" <=> circuit[a].state = "half_open"
  <2>1. CASE a \in {Provider, m}
    <3>1. Written(a, t, after[a], circuit'[a])
      BY <1>1, <2>1 DEF Recorded, Written
    <3>2. circuit[a].replays
      BY <2>1 DEF Record, Replays
    <3>3. /\ circuit'[a] \in Circuits /\ InOrder(circuit'[a]) /\ FitsWindow(circuit'[a])
          /\ IF t < circuit[a].last
             THEN ~circuit'[a].replays /\ circuit'[a].state = circuit[a].state
             ELSE circuit'[a].state = after[a].state /\ circuit'[a].lease = after[a].lease
      <4> DEFINE d == after[a]
                 e == circuit'[a]
      <4>1. t >= circuit[a].last => SoundAt(d, t)
        BY <2>1
      <4>2. Written(a, t, d, e)
        BY <3>1
      <4> HIDE DEF d, e
      <4>3. Landed(a, t, d, e)
        BY <1>0, <4>1, <4>2, RecordedSound
      <4> QED
        BY <4>3 DEF Landed, d, e
    <3>4. CASE t < circuit[a].last
      BY <3>3, <3>4
    <3>5. CASE ~(t < circuit[a].last)
      <4>1. Outcome(circuit[a], after[a])
        BY <1>0, <2>1, <3>5, CircuitFacts
      <4> QED
        BY <3>2, <3>3, <3>5, <4>1 DEF Outcome
    <3> QED
      BY <3>4, <3>5
  <2>2. CASE a \notin {Provider, m}
    <3>1. circuit'[a] = circuit[a]
      BY <1>1, <2>2
    <3> QED
      BY <3>1, CircuitFacts
  <2> QED
    BY <2>1, <2>2
<1>3. HealthTypeOK'
  <2>1. UNCHANGED <<now, lease, swept>>
    BY DEF Record
  <2>2. circuit' \in [Aggregate -> Circuits]
    BY <1>1, <1>2
  <2> QED
    BY <2>1, <2>2 DEF HealthInv, HealthTypeOK, Circuits
<1>4. LeasesCoverHalfOpen'
  <2> SUFFICES ASSUME NEW a \in Aggregate, circuit'[a].replays
               PROVE  /\ \A l \in Lease : Active(l)' /\ a \in lease'[l].members
                           <=> circuit'[a].lease = l
                      /\ circuit'[a].lease # Nil <=> circuit'[a].state = "half_open"
    BY DEF LeasesCoverHalfOpen
  <2>1. lease' = lease
    BY DEF Record
  <2> QED
    BY <1>2, <2>1, CircuitFacts DEF Active
<1>5. HealthInv'
  BY <1>2, <1>3, <1>4 DEF HealthInv
<1> QED
  BY <1>2, <1>5

LEMMA OutcomeKeeps ==
  ASSUME HealthInv, NEW m \in Model, NEW t \in EventTime, NEW retry \in RetryAfter \cup {Nil},
         RecordSuccess(m, t) \/ RecordPermanent(m, t) \/ RecordTransient(m, t, retry)
  PROVE  /\ HealthInv'
         /\ \A a \in Aggregate :
              circuit[a].state \in {"open", "half_open"} =>
                circuit'[a].state \in {"open", "half_open"}
<1>0. t \in 0 .. MaxTime /\ {Provider, m} \subseteq Aggregate
  BY EventTimes DEF Aggregate
<1>1. \A a \in {Provider, m} :
        circuit[a] \in Circuits /\ InOrder(circuit[a]) /\ FitsWindow(circuit[a])
  BY <1>0, CircuitFacts
<1>2. CASE RecordSuccess(m, t)
  <2> DEFINE after == [a \in {Provider, m} |-> AfterSuccess(circuit[a], t)]
  <2>1. \A a \in {Provider, m} :
          t >= circuit[a].last => SoundAt(after[a], t) /\ Outcome(circuit[a], after[a])
    BY <1>0, <1>1, AfterSuccessSound
  <2>2. Record(m, t, after)
    BY <1>2 DEF RecordSuccess
  <2> HIDE DEF after
  <2> QED
    BY <2>1, <2>2, RecordKeeps
<1>3. CASE RecordPermanent(m, t)
  <2> DEFINE after == [a \in {Provider, m} |-> AfterPermanent(circuit[a], t)]
  <2>1. \A a \in {Provider, m} :
          t >= circuit[a].last => SoundAt(after[a], t) /\ Outcome(circuit[a], after[a])
    BY <1>0, <1>1, AfterPermanentSound
  <2>2. Record(m, t, after)
    BY <1>3 DEF RecordPermanent
  <2> HIDE DEF after
  <2> QED
    BY <2>1, <2>2, RecordKeeps
<1>4. CASE RecordTransient(m, t, retry)
  <2> DEFINE after == [a \in {Provider, m} |-> AfterTransient(circuit[a], t, retry)]
  <2>1. \A a \in {Provider, m} :
          t >= circuit[a].last => SoundAt(after[a], t) /\ Outcome(circuit[a], after[a])
    BY <1>0, <1>1, AfterTransientSound
  <2>2. Record(m, t, after)
    BY <1>4 DEF RecordTransient
  <2> HIDE DEF after
  <2> QED
    BY <2>1, <2>2, RecordKeeps
<1> QED
  BY <1>2, <1>3, <1>4

\* A lease is granted to open circuits of its target, which no other has.
LEMMA AcquireKeeps ==
  ASSUME HealthInv, NEW m \in Model, NEW t \in EventTime, NEW l \in Lease, NEW term \in Term,
         AcquireLease(m, t, l, term)
  PROVE  /\ HealthInv'
         /\ \A a \in Aggregate :
              circuit[a].state \in {"open", "half_open"} =>
                circuit'[a].state \in {"open", "half_open"}
<1> DEFINE openOnes == {a \in {Provider, m} : circuit[a].state = "open"}
           d == [a \in openOnes |-> AfterGrant(circuit[a], t, l)]
<1>0. t \in 0 .. MaxTime /\ t \in Nat /\ openOnes \subseteq Aggregate
  BY EventTimes DEF Aggregate
<1>1. /\ circuit' = [a \in Aggregate |->
                       IF a \in openOnes
                       THEN Recorded(a, t, AfterGrant(circuit[a], t, l), TRUE) ELSE circuit[a]]
      /\ lease' = [lease EXCEPT ![l] = [status |-> "active", members |-> openOnes,
                                        expires |-> t + term]]
      /\ lease[l].status = "free" /\ UNCHANGED <<now, swept>>
      /\ \A a \in openOnes : circuit[a].replays /\ circuit[a].state = "open"
  BY DEF AcquireLease, Replays
<1> HIDE DEF openOnes
<1>2. ASSUME NEW a \in Aggregate
      PROVE  /\ circuit'[a] \in Circuits /\ InOrder(circuit'[a]) /\ FitsWindow(circuit'[a])
             /\ circuit[a].state \in {"open", "half_open"} =>
                  circuit'[a].state \in {"open", "half_open"}
             /\ a \in openOnes /\ circuit'[a].replays =>
                  circuit'[a].lease = l /\ circuit'[a].state = "half_open"
             /\ a \notin openOnes => circuit'[a] = circuit[a]
  <2>1. CASE a \in openOnes
    <3>1. Written(a, t, AfterGrant(circuit[a], t, l), circuit'[a])
      BY <1>1, <2>1 DEF Recorded, Written
    <3>2. t >= circuit[a].last =>
            /\ SoundAt(AfterGrant(circuit[a], t, l), t)
            /\ AfterGrant(circuit[a], t, l).state = "half_open"
            /\ AfterGrant(circuit[a], t, l).lease = l
      BY <1>0, CircuitFacts, AfterGrantSound
    <3>3. /\ circuit'[a] \in Circuits /\ InOrder(circuit'[a]) /\ FitsWindow(circuit'[a])
          /\ IF t < circuit[a].last
             THEN ~circuit'[a].replays /\ circuit'[a].state = circuit[a].state
             ELSE /\ circuit'[a].state = AfterGrant(circuit[a], t, l).state
                  /\ circuit'[a].lease = AfterGrant(circuit[a], t, l).lease
      <4>1. Landed(a, t, AfterGrant(circuit[a], t, l), circuit'[a])
        BY <1>0, <3>1, <3>2, RecordedSound
      <4> QED
        BY <4>1 DEF Landed
    <3>4. t < circuit[a].last \/ t >= circuit[a].last
      BY <1>0, CircuitFacts
    <3> QED
      BY <1>0, <1>1, <2>1, <3>2, <3>3, <3>4, CircuitFacts
  <2>2. CASE a \notin openOnes
    <3>1. circuit'[a] = circuit[a]
      BY <1>1, <2>2
    <3> QED
      BY <2>2, <3>1, CircuitFacts
  <2> QED
    BY <2>1, <2>2
<1>3. lease \in [Lease -> [status : {"free", "active", "done"},
                           members : SUBSET Aggregate, expires : Nat]]
  BY DEF HealthInv, HealthTypeOK
<1>4. HealthTypeOK'
  <2>1. circuit' \in [Aggregate -> Circuits]
    BY <1>1, <1>2
  <2>2. t + term \in Nat
    BY <1>0, PolicyAssumption
  <2>3. lease' \in [Lease -> [status : {"free", "active", "done"},
                              members : SUBSET Aggregate, expires : Nat]]
    BY <1>0, <1>1, <1>3, <2>2
  <2> QED
    BY <1>1, <2>1, <2>3 DEF HealthInv, HealthTypeOK, Circuits
<1>5. /\ \A k \in Lease \ {l} : lease'[k] = lease[k]
      /\ lease'[l].status = "active" /\ lease'[l].members = openOnes
  BY <1>1, <1>3
<1>6. LeasesCoverHalfOpen'
  <2> SUFFICES ASSUME NEW a \in Aggregate, circuit'[a].replays
               PROVE  /\ \A k \in Lease : lease'[k].status = "active" /\ a \in lease'[k].members
                           <=> circuit'[a].lease = k
                      /\ circuit'[a].lease # Nil <=> circuit'[a].state = "half_open"
    BY DEF LeasesCoverHalfOpen, Active
  <2>1. Nil \notin Lease
    BY PolicyAssumption
  <2>2. CASE a \in openOnes
    <3>1. circuit[a].lease = Nil /\ \A k \in Lease : ~(Active(k) /\ a \in lease[k].members)
      BY <1>1, <2>1, <2>2, CircuitFacts
    <3> QED
      BY <1>2, <1>5, <2>1, <2>2, <3>1 DEF Active
  <2>3. CASE a \notin openOnes
    <3>1. circuit'[a] = circuit[a] /\ circuit[a].replays
      BY <1>2, <2>3
    <3>2. ~Active(l)
      BY <1>1 DEF Active
    <3> QED
      BY <1>5, <2>3, <3>1, <3>2, CircuitFacts DEF Active
  <2> QED
    BY <2>2, <2>3
<1>7. HealthInv'
  BY <1>2, <1>4, <1>6 DEF HealthInv
<1> QED
  BY <1>2, <1>7

\* What OnlyProbesClose asks of a step that takes circuit a back to traffic.
ClosedByProbe(a) ==
  \E l \in Lease :
    /\ a \in lease[l].members /\ Active(l) /\ lease'[l].status = "done"
    /\ circuit'[a].last < lease[l].expires
    /\ \A b \in lease[l].members : circuit'[b].replays => circuit'[b].state = "healthy"

\* What replays find of a circuit whose probe has ended.
LEMMA ProbeRecorded ==
  ASSUME HealthInv, NEW a \in Aggregate, NEW t \in 0 .. MaxTime, NEW success \in BOOLEAN,
         NEW e, Written(a, t, AfterProbe(circuit[a], t, success), e)
  PROVE  /\ e \in Circuits /\ InOrder(e) /\ FitsWindow(e)
         /\ IF t < circuit[a].last THEN ~e.replays /\ e.state = circuit[a].state
            ELSE /\ e.state = IF success THEN "healthy" ELSE "open"
                 /\ e.lease = Nil /\ e.last = t
<1> DEFINE d == AfterProbe(circuit[a], t, success)
<1>1. t >= circuit[a].last =>
        SoundAt(d, t) /\ d.lease = Nil /\ d.state = IF success THEN "healthy" ELSE "open"
  BY CircuitFacts, AfterProbeSound
<1>2. t < circuit[a].last \/ t >= circuit[a].last
  BY CircuitFacts
<1>3. Written(a, t, d, e)
  OBVIOUS
<1> HIDE DEF d
<1>4. Landed(a, t, d, e)
  BY <1>1, <1>3, RecordedSound
<1> QED
  BY <1>1, <1>2, <1>4 DEF Landed

\* A probe ends: its lease covers exactly the circuits that are half-open
\* under it, and with success all of them close before it expires.
LEMMA FinishKeeps ==
  ASSUME HealthInv, NEW l \in Lease, NEW t \in EventTime, NEW success \in BOOLEAN,
         FinishLease(l, t, success)
  PROVE  /\ HealthInv'
         /\ \A a \in Aggregate :
              /\ circuit[a].state \in {"open", "half_open"}
              /\ circuit'[a].state \in {"healthy", "degraded"}
              => ClosedByProbe(a)
<1> DEFINE M == lease[l].members
<1>0. /\ t \in 0 .. MaxTime /\ t \in Nat
      /\ lease \in [Lease -> [status : {"free", "active", "done"},
                              members : SUBSET Aggregate, expires : Nat]]
      /\ M \subseteq Aggregate
  BY EventTimes DEF HealthInv, HealthTypeOK
<1>1. /\ circuit' = [a \in Aggregate |->
                       IF a \in M
                       THEN Recorded(a, t, AfterProbe(circuit[a], t, success), FALSE)
                       ELSE circuit[a]]
      /\ lease' = [lease EXCEPT ![l].status = "done"]
      /\ UNCHANGED <<now, swept>> /\ Active(l)
      /\ success => t < lease[l].expires
      /\ \A a \in M : circuit[a].replays /\ circuit[a].lease = l /\ circuit[a].state = "half_open"
  BY DEF FinishLease, Unmoved
<1>2. /\ lease'[l].status = "done"
      /\ \A k \in Lease : lease'[k].members = lease[k].members
      /\ \A k \in Lease \ {l} : lease'[k].status = lease[k].status
  BY <1>0, <1>1
<1> HIDE DEF M
<1>3. ASSUME NEW a \in Aggregate
      PROVE  /\ circuit'[a] \in Circuits /\ InOrder(circuit'[a]) /\ FitsWindow(circuit'[a])
             /\ a \in M =>
                  IF t < circuit[a].last
                  THEN ~circuit'[a].replays /\ circuit'[a].state = "half_open"
                  ELSE /\ circuit'[a].state = IF success THEN "healthy" ELSE "open"
                       /\ circuit'[a].lease = Nil /\ circuit'[a].last = t
             /\ a \notin M => circuit'[a] = circuit[a]
  <2>1. CASE a \in M
    <3>1. Written(a, t, AfterProbe(circuit[a], t, success), circuit'[a])
      BY <1>1, <2>1 DEF Recorded, Written
    <3>2. /\ circuit'[a] \in Circuits /\ InOrder(circuit'[a]) /\ FitsWindow(circuit'[a])
          /\ IF t < circuit[a].last
             THEN ~circuit'[a].replays /\ circuit'[a].state = circuit[a].state
             ELSE /\ circuit'[a].state = IF success THEN "healthy" ELSE "open"
                  /\ circuit'[a].lease = Nil /\ circuit'[a].last = t
      BY <1>0, <3>1, ProbeRecorded
    <3> QED
      BY <1>1, <2>1, <3>2
  <2>2. CASE a \notin M
    <3>1. circuit'[a] = circuit[a]
      BY <1>1, <2>2
    <3> QED
      BY <2>2, <3>1, CircuitFacts
  <2> QED
    BY <2>1, <2>2
<1>4. HealthTypeOK'
  <2>1. circuit' \in [Aggregate -> Circuits]
    BY <1>1, <1>3
  <2>2. lease' \in [Lease -> [status : {"free", "active", "done"},
                              members : SUBSET Aggregate, expires : Nat]]
    BY <1>0, <1>1
  <2> QED
    BY <1>1, <2>1, <2>2 DEF HealthInv, HealthTypeOK, Circuits
<1>5. LeasesCoverHalfOpen'
  <2> SUFFICES ASSUME NEW a \in Aggregate, circuit'[a].replays
               PROVE  /\ \A k \in Lease : lease'[k].status = "active" /\ a \in lease'[k].members
                           <=> circuit'[a].lease = k
                      /\ circuit'[a].lease # Nil <=> circuit'[a].state = "half_open"
    BY DEF LeasesCoverHalfOpen, Active
  <2>1. Nil \notin Lease
    BY PolicyAssumption
  <2>2. CASE a \in M
    <3>1. \A k \in Lease \ {l} : ~(Active(k) /\ a \in lease[k].members)
      BY <1>1, <2>2, CircuitFacts
    <3>2. circuit'[a].lease = Nil /\ circuit'[a].state # "half_open"
      BY <1>3, <2>2
    <3> QED
      BY <1>2, <2>1, <3>1, <3>2 DEF Active
  <2>3. CASE a \notin M
    <3>1. circuit'[a] = circuit[a] /\ circuit[a].replays
      BY <1>3, <2>3
    <3>2. circuit[a].lease # l
      BY <2>3, <3>1, CircuitFacts DEF M
    <3> QED
      BY <1>2, <3>1, <3>2, CircuitFacts DEF Active
  <2> QED
    BY <2>2, <2>3
<1>6. HealthInv'
  BY <1>3, <1>4, <1>5 DEF HealthInv
<1>7. ASSUME NEW a \in Aggregate, circuit[a].state \in {"open", "half_open"},
             circuit'[a].state \in {"healthy", "degraded"}
      PROVE  ClosedByProbe(a)
  <2>1. a \in M
    BY <1>3, <1>7
  <2>2. success /\ circuit'[a].last = t
    BY <1>3, <1>7, <2>1
  <2>3. \A b \in M : circuit'[b].replays => circuit'[b].state = "healthy"
    BY <1>0, <1>3, <2>2
  <2> QED
    BY <1>1, <1>2, <2>1, <2>2, <2>3 DEF ClosedByProbe, M
<1> QED
  BY <1>6, <1>7

-----------------------------------------------------------------------------
\* Time passes, and a sweep returns: no circuit and no lease moves.
LEMMA QuietKeeps ==
  ASSUME HealthInv, UNCHANGED <<circuit, lease>>,
         now' \in 0 .. MaxTime, swept' \subseteq 0 .. MaxTime
  PROVE  HealthInv'
BY DEF HealthInv, HealthTypeOK, LeasesCoverHalfOpen, Active, InOrder, InTime, FitsWindow

\* What every step keeps, and what it asks of a circuit that carries traffic
\* again.
HealthKept ==
  /\ HealthInv'
  /\ \A a \in Aggregate :
       /\ circuit[a].state \in {"open", "half_open"}
       /\ circuit'[a].state \in {"healthy", "degraded"}
       => ClosedByProbe(a)

LEMMA HealthInitInv == HealthInit => HealthInv
<1> SUFFICES ASSUME HealthInit PROVE HealthInv
  OBVIOUS
<1> DEFINE c == [state |-> "healthy", last |-> 0, failures |-> << >>, successes |-> 0,
                 cooldown |-> 0, lease |-> Nil, atGrant |-> FALSE, replays |-> TRUE]
<1>1. /\ 0 \in 0 .. MaxTime /\ 0 \in 0 .. RecoverySuccesses - 1 /\ Nil \notin Lease
      /\ << >> \in Seq(0 .. MaxTime) /\ Len(<< >>) = 0 /\ DegradeAfter \in Nat \ {0}
  BY PolicyAssumption
<1>2. c \in Circuits
  BY <1>1 DEF Circuits, CircuitStates
<1>3. InTime(<< >>, 0)
  BY <1>1 DEF InTime
<1>4. InOrder(c) /\ FitsWindow(c)
  BY <1>1, <1>3 DEF InOrder, FitsWindow
<1>5. circuit = [a \in Aggregate |-> c]
  BY DEF HealthInit
<1>6. lease = [l \in Lease |-> [status |-> "free", members |-> {}, expires |-> 0]]
  BY DEF HealthInit
<1>7. HealthTypeOK
  <2>1. circuit \in [Aggregate -> Circuits]
    BY <1>2, <1>5
  <2>2. lease \in [Lease -> [status : {"free", "active", "done"},
                             members : SUBSET Aggregate, expires : Nat]]
    BY <1>6
  <2> QED
    BY <1>1, <2>1, <2>2 DEF HealthInit, HealthTypeOK, Circuits
<1>8. LeasesCoverHalfOpen
  BY <1>1, <1>5, <1>6 DEF LeasesCoverHalfOpen, Active
<1> QED
  BY <1>4, <1>5, <1>7, <1>8 DEF HealthInv

LEMMA HealthStepKeeps ==
  ASSUME HealthInv, [HealthNext]_healthVars
  PROVE  HealthKept
<1>0. /\ now \in 0 .. MaxTime /\ swept \subseteq 0 .. MaxTime
      /\ MaxTime \in Nat
      /\ \A a \in Aggregate : circuit[a].state \in CircuitStates
  BY PolicyAssumption DEF HealthInv, HealthTypeOK
<1>1. CASE Tick
  <2>1. now' \in 0 .. MaxTime
    BY <1>0, <1>1 DEF Tick
  <2>2. swept' \subseteq 0 .. MaxTime /\ UNCHANGED <<circuit, lease>>
    BY <1>0, <1>1 DEF Tick
  <2> QED
    BY <2>1, <2>2, QuietKeeps DEF HealthKept
<1>2. ASSUME NEW t \in EventTime, SweepReturns(t)
      PROVE  HealthKept
  <2>1. t \in 0 .. MaxTime
    BY EventTimes
  <2>2. swept' \subseteq 0 .. MaxTime /\ UNCHANGED <<now, circuit, lease>>
    BY <1>0, <1>2, <2>1 DEF SweepReturns
  <2> QED
    BY <1>0, <2>2, QuietKeeps DEF HealthKept
<1>3. ASSUME NEW t \in EventTime, NEW m \in Model, NEW retry \in RetryAfter \cup {Nil},
             RecordSuccess(m, t) \/ RecordPermanent(m, t) \/ RecordTransient(m, t, retry)
      PROVE  HealthKept
  BY <1>3, OutcomeKeeps DEF HealthKept
<1>4. ASSUME NEW t \in EventTime, NEW m \in Model, NEW l \in Lease, NEW term \in Term,
             AcquireLease(m, t, l, term)
      PROVE  HealthKept
  BY <1>4, AcquireKeeps DEF HealthKept
<1>5. ASSUME NEW t \in EventTime, NEW l \in Lease, NEW success \in BOOLEAN,
             FinishLease(l, t, success)
      PROVE  HealthKept
  BY <1>5, FinishKeeps DEF HealthKept
<1>6. ASSUME NEW t \in EventTime, NEW l \in Lease, ExpireLease(l, t)
      PROVE  HealthKept
  BY <1>5, <1>6 DEF ExpireLease
<1>7. CASE UNCHANGED healthVars
  BY <1>0, <1>7, QuietKeeps DEF healthVars, HealthKept
<1>8. ASSUME NEW t \in EventTime, NEW m \in Model, RecordSuccess(m, t) \/ RecordPermanent(m, t)
      PROVE  HealthKept
  BY <1>3, <1>8
<1> QED
  BY <1>1, <1>2, <1>3, <1>4, <1>5, <1>6, <1>7, <1>8 DEF HealthNext

LEMMA HealthInvariance == HealthSpec => []HealthInv
<1>1. HealthInv /\ [HealthNext]_healthVars => HealthInv'
  BY HealthStepKeeps DEF HealthKept
<1> QED
  BY <1>1, HealthInitInv, PTL DEF HealthSpec

\* Circuits and leases have the shape the events can give them; the recovery
\* counter stays below the threshold that resets it (reduce_health_events).
THEOREM HealthTypeCorrect == HealthSpec => []HealthTypeOK
<1>1. HealthInv => HealthTypeOK
  BY DEF HealthInv
<1> QED
  BY <1>1, HealthInvariance, PTL

\* The coordinator stream and the aggregate streams agree at every commit, for
\* any number of models, leases and callers with clocks that lag: an active
\* lease names exactly the circuits that are half-open under it
\* (acquire_probe_lease, finish_probe_lease, expire_probe_leases).
THEOREM LeasesCover == HealthSpec => []LeasesCoverHalfOpen
<1>1. HealthInv => LeasesCoverHalfOpen
  BY DEF HealthInv
<1> QED
  BY <1>1, HealthInvariance, PTL

\* A circuit's state is what its remembered failures call for, under every
\* policy (reduce_health_events).
THEOREM StateFits == HealthSpec => []StateFitsWindow
<1>1. HealthInv => StateFitsWindow
  BY DEF HealthInv, FitsWindow, StateFitsWindow
<1> QED
  BY <1>1, HealthInvariance, PTL

\* The failures a circuit remembers are in the order of their times, so that
\* those beyond the window are the first ones (transient_failure_times).
THEOREM FailuresInOrder == HealthSpec => [](\A a \in Aggregate : InOrder(circuit[a]))
<1>1. HealthInv => \A a \in Aggregate : InOrder(circuit[a])
  BY DEF HealthInv
<1> QED
  BY <1>1, HealthInvariance, PTL

\* A circuit that opened carries traffic again only through a successful
\* probe, before its lease expired and together with every circuit of the
\* lease; no late success of an ordinary call closes it.
THEOREM ProbesAlone == HealthSpec => OnlyProbesClose
<1> DEFINE Closes ==
      \A a \in Aggregate :
        /\ circuit[a].state \in {"open", "half_open"}
        /\ circuit'[a].state \in {"healthy", "degraded"}
        => \E l \in Lease :
             /\ a \in lease[l].members /\ Active(l) /\ lease'[l].status = "done"
             /\ circuit'[a].last < lease[l].expires
             /\ \A b \in lease[l].members :
                  circuit'[b].replays => circuit'[b].state = "healthy"
<1>1. HealthInv /\ [HealthNext]_healthVars => Closes
  BY HealthStepKeeps DEF HealthKept, ClosedByProbe
<1>2. HealthInv /\ [HealthNext]_healthVars => [Closes]_healthVars
  BY <1>1
<1> QED
  BY <1>2, HealthInvariance, PTL DEF HealthSpec, OnlyProbesClose

-----------------------------------------------------------------------------
\* The artifact store.

\* A publisher that holds the lock of its digest, and one that is over.
Busy == {"locked", "intended", "linked", "present"}
Past == {"done", "failed", "dead"}
Looking == {"seen", "loaded", "authorized"}

\* The lock of a digest is held by its one busy publisher, or by an inspection.
DigestsLocked ==
  /\ \A p \in Publication : at[p] \in Busy => flock[Of[p]] = p
  /\ \A i \in Inspector : walk[i].at = "locked" =>
       walk[i].digest \in Digest /\ flock[walk[i].digest] = i

\* What a publisher has left on disk and in its stream at each place.  A file
\* is only removed by a publisher that has no intent, and that one has none.
PublishersLeave ==
  \A p \in Publication :
    /\ at[p] = "new" => p \notin intents
    /\ at[p] \in {"new", "locked", "intended"} => installer[Of[p]] # p
    /\ at[p] \in {"intended", "linked", "present"} => p \in intents
    /\ at[p] \in {"linked", "present"} => blob[Of[p]] # "none"
    /\ at[p] = "linked" => installer[Of[p]] = p
    /\ at[p] = "present" /\ installer[Of[p]] = p => blob[Of[p]] = "synced"
    /\ p \in published => at[p] \in {"done", "failed"}

\* The file of a digest has its installer; until power is lost, published
\* bytes are in the directory.
FilesAreOwned ==
  /\ \A d \in Digest : installer[d] # Nobody => Of[installer[d]] = d
  /\ \A d \in Digest : blob[d] # "none" => installer[d] # Nobody
  /\ cuts = 0 => RecordsHaveBlobs

\* A publication that was reported is over, and was never published.
ReportedAreGone == \A p \in abandoned : at[p] \in Past /\ p \notin published

\* A read goes on with a grant of its own, for a digest that is published.
ReadsAreGranted ==
  \A r \in Reader :
    /\ read[r].at \in Looking => read[r].grant \in Grant
    /\ read[r].at \in {"loaded", "authorized"} =>
         \E p \in published : Of[p] = For[read[r].grant]
    /\ read[r].at \in {"authorized", "content", "lost"} => read[r].grant \notin grants

ArtifactInv ==
  /\ ArtifactTypeOK /\ DigestsLocked /\ PublishersLeave /\ FilesAreOwned
  /\ PublishedSurvive /\ ReportedAreGone /\ ReadsAreGranted /\ ReadsAreServedOnce

\* The lock of a digest keeps its publishers and the inspections apart.
LEMMA DigestsExclude ==
  ASSUME ArtifactInv
  PROVE  /\ \A p, q \in Publication :
              at[p] \in Busy /\ at[q] \in Busy /\ Of[p] = Of[q] => p = q
         /\ \A p \in Publication, i \in Inspector :
              at[p] \in Busy /\ walk[i].at = "locked" => Of[p] # walk[i].digest
         /\ \A p \in Publication : Of[p] \in Digest /\ p # Nobody /\ p \notin Inspector
         /\ \A i \in Inspector : i # Nobody
  BY ArtifactAssumption DEF ArtifactInv, DigestsLocked, Inspector

\* The initial states.
LEMMA ArtifactInitInv == ArtifactInit => ArtifactInv
<1> SUFFICES ASSUME ArtifactInit PROVE ArtifactInv
  OBVIOUS
<1>1. ArtifactTypeOK
  BY ArtifactAssumption DEF ArtifactInit, ArtifactTypeOK, Inspector, Stage, Idle, Unread
<1>2. DigestsLocked
  BY ArtifactAssumption DEF ArtifactInit, DigestsLocked, Busy, Idle
<1>3. PublishersLeave
  BY ArtifactAssumption DEF ArtifactInit, PublishersLeave
<1>4. FilesAreOwned /\ PublishedSurvive /\ ReportedAreGone
  BY ArtifactAssumption DEF ArtifactInit, FilesAreOwned, RecordsHaveBlobs, PublishedSurvive,
     ReportedAreGone
<1>5. ReadsAreGranted /\ ReadsAreServedOnce
  BY DEF ArtifactInit, ReadsAreGranted, ReadsAreServedOnce, Authorized, Unread, Looking
<1> QED
  BY <1>1, <1>2, <1>3, <1>4, <1>5 DEF ArtifactInv

\* Readers are not disturbed by a publisher: what is published stays so, and
\* no file is removed.
LEMMA ReadersUndisturbed ==
  ASSUME ArtifactInv, UNCHANGED <<grants, read, cuts>>, published \subseteq published'
  PROVE  ReadsAreGranted' /\ ReadsAreServedOnce'
  BY DEF ArtifactInv, ReadsAreGranted, ReadsAreServedOnce, Authorized

\* A publisher takes a lock that is free.
LEMMA LockIsTaken ==
  ASSUME ArtifactInv, NEW p \in Publication, Lock(p)
  PROVE  ArtifactInv'
<1> USE DigestsExclude
<1>1. ArtifactTypeOK'
  BY ArtifactAssumption DEF ArtifactInv, ArtifactTypeOK, Stage, Lock, Goes, Locks, store, reads
<1>2. DigestsLocked'
  BY DEF ArtifactInv, ArtifactTypeOK, DigestsLocked, Busy, Lock, Goes, Locks, store, reads
<1>3. PublishersLeave'
  BY DEF ArtifactInv, ArtifactTypeOK, PublishersLeave, DigestsLocked, Busy, Lock, Goes,
         Locks, store, reads
<1>4. FilesAreOwned' /\ PublishedSurvive'
  BY DEF ArtifactInv, ArtifactTypeOK, FilesAreOwned, RecordsHaveBlobs, PublishedSurvive,
     PublishersLeave, Lock, Goes, Locks, store, reads
<1>5. ReportedAreGone'
  BY DEF ArtifactInv, ArtifactTypeOK, ReportedAreGone, Past, Lock, Goes, Locks, store, reads
<1>6. ReadsAreGranted' /\ ReadsAreServedOnce'
  BY ReadersUndisturbed DEF Lock, Goes, Locks, store, reads
<1> QED
  BY <1>1, <1>2, <1>3, <1>4, <1>5, <1>6 DEF ArtifactInv

\* The intent of a publication is appended.
LEMMA IntentIsRecorded ==
  ASSUME ArtifactInv, NEW p \in Publication, RecordIntent(p)
  PROVE  ArtifactInv'
<1> USE DigestsExclude
<1>1. ArtifactTypeOK'
  BY ArtifactAssumption DEF ArtifactInv, ArtifactTypeOK, Stage, RecordIntent, Goes, reads
<1>2. DigestsLocked'
  BY DEF ArtifactInv, ArtifactTypeOK, DigestsLocked, Busy, RecordIntent, Goes, reads
<1>3. PublishersLeave'
  BY DEF ArtifactInv, ArtifactTypeOK, PublishersLeave, DigestsLocked, Busy, RecordIntent,
         Goes, reads
<1>4. FilesAreOwned' /\ PublishedSurvive'
  BY DEF ArtifactInv, ArtifactTypeOK, FilesAreOwned, RecordsHaveBlobs, PublishedSurvive,
     PublishersLeave, RecordIntent, Goes, reads
<1>5. ReportedAreGone'
  BY DEF ArtifactInv, ArtifactTypeOK, ReportedAreGone, Past, RecordIntent, Goes, reads
<1>6. ReadsAreGranted' /\ ReadsAreServedOnce'
  BY ReadersUndisturbed DEF RecordIntent, Goes, reads
<1> QED
  BY <1>1, <1>2, <1>3, <1>4, <1>5, <1>6 DEF ArtifactInv

\* A file is adopted or linked.
LEMMA FileIsInstalled ==
  ASSUME ArtifactInv, NEW p \in Publication, Install(p)
  PROVE  ArtifactInv'
<1> USE DigestsExclude
<1>1. ArtifactTypeOK'
  <2>1. CASE blob[Of[p]] # "none"
    BY <2>1 DEF ArtifactInv, ArtifactTypeOK, Stage, Install, Goes, reads
  <2>2. CASE blob[Of[p]] = "none"
    <3>1. blob' = [blob EXCEPT ![Of[p]] = "linked"]
          /\ installer' = [installer EXCEPT ![Of[p]] = p] /\ Goes(p, "linked")
      BY <2>2 DEF Install
    <3> QED
      BY <3>1 DEF ArtifactInv, ArtifactTypeOK, Stage, Install, Goes, reads
  <2> QED
    BY <2>1, <2>2
<1>2. DigestsLocked'
  BY DEF ArtifactInv, ArtifactTypeOK, DigestsLocked, Busy, Install, Goes, reads
<1>3. PublishersLeave'
  BY DEF ArtifactInv, ArtifactTypeOK, PublishersLeave, DigestsLocked, Busy, Install, Goes, reads
<1>4. FilesAreOwned' /\ PublishedSurvive'
  BY DEF ArtifactInv, ArtifactTypeOK, FilesAreOwned, RecordsHaveBlobs, PublishedSurvive,
     PublishersLeave, Install, Goes, reads
<1>5. ReportedAreGone'
  BY DEF ArtifactInv, ArtifactTypeOK, ReportedAreGone, Past, Install, Goes, reads
<1>6. ReadsAreGranted' /\ ReadsAreServedOnce'
  BY ReadersUndisturbed DEF Install, Goes, reads
<1> QED
  BY <1>1, <1>2, <1>3, <1>4, <1>5, <1>6 DEF ArtifactInv

\* The directory is synced.
LEMMA FileIsSynced ==
  ASSUME ArtifactInv, NEW p \in Publication, Sync(p)
  PROVE  ArtifactInv'
<1> USE DigestsExclude
<1>1. ArtifactTypeOK'
  BY ArtifactAssumption DEF ArtifactInv, ArtifactTypeOK, Stage, Sync, Goes, reads
<1>2. DigestsLocked'
  BY DEF ArtifactInv, ArtifactTypeOK, DigestsLocked, Busy, Sync, Goes, reads
<1>3. PublishersLeave'
  BY DEF ArtifactInv, ArtifactTypeOK, PublishersLeave, DigestsLocked, Busy, Sync, Goes, reads
<1>4. FilesAreOwned' /\ PublishedSurvive'
  BY DEF ArtifactInv, ArtifactTypeOK, FilesAreOwned, RecordsHaveBlobs, PublishedSurvive,
     PublishersLeave, Sync, Goes, reads
<1>5. ReportedAreGone'
  BY DEF ArtifactInv, ArtifactTypeOK, ReportedAreGone, Past, Sync, Goes, reads
<1>6. ReadsAreGranted' /\ ReadsAreServedOnce'
  BY ReadersUndisturbed DEF Sync, Goes, reads
<1> QED
  BY <1>1, <1>2, <1>3, <1>4, <1>5, <1>6 DEF ArtifactInv

\* ArtifactPublished is appended.
LEMMA MetadataIsRecorded ==
  ASSUME ArtifactInv, NEW p \in Publication, RecordMetadata(p)
  PROVE  ArtifactInv'
<1> USE DigestsExclude
<1>1. ArtifactTypeOK'
  BY ArtifactAssumption
     DEF ArtifactInv, ArtifactTypeOK, Stage, RecordMetadata, Goes, Unlocks, reads
<1>2. DigestsLocked'
  BY DEF ArtifactInv, ArtifactTypeOK, DigestsLocked, Busy, RecordMetadata, Goes, Unlocks, reads
<1>3. PublishersLeave'
  BY DEF ArtifactInv, ArtifactTypeOK, PublishersLeave, DigestsLocked, Busy, RecordMetadata,
         Goes, Unlocks, reads
<1>4. FilesAreOwned' /\ PublishedSurvive'
  BY DEF ArtifactInv, ArtifactTypeOK, FilesAreOwned, RecordsHaveBlobs, PublishedSurvive,
     PublishersLeave, RecordMetadata, Goes, Unlocks, reads
<1>5. ReportedAreGone'
  BY DEF ArtifactInv, ArtifactTypeOK, ReportedAreGone, Past, RecordMetadata, Goes, Unlocks,
         reads
<1>6. ReadsAreGranted' /\ ReadsAreServedOnce'
  BY ReadersUndisturbed DEF RecordMetadata, Goes, Unlocks, reads
<1> QED
  BY <1>1, <1>2, <1>3, <1>4, <1>5, <1>6 DEF ArtifactInv

\* An append that waited too long ends the publication.
LEMMA AppendGivesUp ==
  ASSUME ArtifactInv, NEW p \in Publication, AppendTimesOut(p)
  PROVE  ArtifactInv'
<1> USE DigestsExclude
<1>1. ArtifactTypeOK'
  BY ArtifactAssumption
     DEF ArtifactInv, ArtifactTypeOK, Stage, AppendTimesOut, Abandons, Committed, Goes,
         Unlocks, reads
<1>2. DigestsLocked'
  BY DEF ArtifactInv, ArtifactTypeOK, DigestsLocked, Busy, AppendTimesOut, Abandons,
         Committed, Goes, Unlocks, reads
<1>3. PublishersLeave'
  BY DEF ArtifactInv, ArtifactTypeOK, PublishersLeave, DigestsLocked, Busy, AppendTimesOut,
         Abandons, Committed, Goes, Unlocks, reads
<1>4. FilesAreOwned' /\ PublishedSurvive'
  BY DEF ArtifactInv, ArtifactTypeOK, FilesAreOwned, RecordsHaveBlobs, PublishedSurvive,
     PublishersLeave, AppendTimesOut, Abandons, Committed, Goes, Unlocks, reads
<1>5. ReportedAreGone'
  BY DEF ArtifactInv, ArtifactTypeOK, ReportedAreGone, Past, AppendTimesOut, Abandons,
         Committed, Goes, Unlocks, reads
<1>6. ReadsAreGranted' /\ ReadsAreServedOnce'
  BY ReadersUndisturbed DEF AppendTimesOut, Abandons, Committed, Goes, Unlocks, reads
<1> QED
  BY <1>1, <1>2, <1>3, <1>4, <1>5, <1>6 DEF ArtifactInv

\* An append that fails ends the publication, and may have committed.
LEMMA AppendIsLost ==
  ASSUME ArtifactInv, NEW p \in Publication, AppendFails(p)
  PROVE  ArtifactInv'
<1> USE DigestsExclude
<1>1. ArtifactTypeOK'
  BY ArtifactAssumption
     DEF ArtifactInv, ArtifactTypeOK, Stage, AppendFails, Abandons, Committed, Faulty, Goes,
         Unlocks, reads
<1>2. DigestsLocked'
  BY DEF ArtifactInv, ArtifactTypeOK, DigestsLocked, Busy, AppendFails, Abandons, Committed,
         Faulty, Goes, Unlocks, reads
<1>3. PublishersLeave'
  BY DEF ArtifactInv, ArtifactTypeOK, PublishersLeave, DigestsLocked, Busy, AppendFails,
         Abandons, Committed, Faulty, Goes, Unlocks, reads
<1>4. FilesAreOwned' /\ PublishedSurvive'
  BY DEF ArtifactInv, ArtifactTypeOK, FilesAreOwned, RecordsHaveBlobs, PublishedSurvive,
     PublishersLeave, AppendFails, Abandons, Committed, Faulty, Goes, Unlocks, reads
<1>5. ReportedAreGone'
  BY DEF ArtifactInv, ArtifactTypeOK, ReportedAreGone, Past, AppendFails, Abandons,
         Committed, Faulty, Goes, Unlocks, reads
<1>6. ReadsAreGranted' /\ ReadsAreServedOnce'
  BY ReadersUndisturbed DEF AppendFails, Abandons, Committed, Faulty, Goes, Unlocks, reads
<1> QED
  BY <1>1, <1>2, <1>3, <1>4, <1>5, <1>6 DEF ArtifactInv

\* A call on the directory that fails ends the publication.
LEMMA InstallIsLost ==
  ASSUME ArtifactInv, NEW p \in Publication, InstallFails(p)
  PROVE  ArtifactInv'
<1> USE DigestsExclude
<1>1. ArtifactTypeOK'
  BY ArtifactAssumption
     DEF ArtifactInv, ArtifactTypeOK, Stage, InstallFails, Abandons, Committed, Faulty, Goes,
         Unlocks, reads
<1>2. DigestsLocked'
  BY DEF ArtifactInv, ArtifactTypeOK, DigestsLocked, Busy, InstallFails, Abandons, Committed,
         Faulty, Goes, Unlocks, reads
<1>3. PublishersLeave'
  BY DEF ArtifactInv, ArtifactTypeOK, PublishersLeave, DigestsLocked, Busy, InstallFails,
         Abandons, Committed, Faulty, Goes, Unlocks, reads
<1>4. FilesAreOwned' /\ PublishedSurvive'
  BY DEF ArtifactInv, ArtifactTypeOK, FilesAreOwned, RecordsHaveBlobs, PublishedSurvive,
     PublishersLeave, InstallFails, Abandons, Committed, Faulty, Goes, Unlocks, reads
<1>5. ReportedAreGone'
  BY DEF ArtifactInv, ArtifactTypeOK, ReportedAreGone, Past, InstallFails, Abandons,
         Committed, Faulty, Goes, Unlocks, reads
<1>6. ReadsAreGranted' /\ ReadsAreServedOnce'
  BY ReadersUndisturbed DEF InstallFails, Abandons, Committed, Faulty, Goes, Unlocks, reads
<1> QED
  BY <1>1, <1>2, <1>3, <1>4, <1>5, <1>6 DEF ArtifactInv

\* A publisher dies.
LEMMA PublisherIsGone ==
  ASSUME ArtifactInv, NEW p \in Publication, Dies(p)
  PROVE  ArtifactInv'
<1> USE DigestsExclude
<1>1. ArtifactTypeOK'
  BY ArtifactAssumption
     DEF ArtifactInv, ArtifactTypeOK, Stage, Dies, Faulty, Goes, Unlocks, store, reads
<1>2. DigestsLocked'
  BY DEF ArtifactInv, ArtifactTypeOK, DigestsLocked, Busy, Dies, Faulty, Goes, Unlocks,
         store, reads
<1>3. PublishersLeave'
  BY DEF ArtifactInv, ArtifactTypeOK, PublishersLeave, DigestsLocked, Busy, Dies, Faulty,
         Goes, Unlocks, store, reads
<1>4. FilesAreOwned' /\ PublishedSurvive'
  BY DEF ArtifactInv, ArtifactTypeOK, FilesAreOwned, RecordsHaveBlobs, PublishedSurvive,
     PublishersLeave, Dies, Faulty, Goes, Unlocks, store, reads
<1>5. ReportedAreGone'
  BY DEF ArtifactInv, ArtifactTypeOK, ReportedAreGone, Past, Dies, Faulty, Goes, Unlocks,
         store, reads
<1>6. ReadsAreGranted' /\ ReadsAreServedOnce'
  BY ReadersUndisturbed DEF Dies, Faulty, Goes, Unlocks, store, reads
<1> QED
  BY <1>1, <1>2, <1>3, <1>4, <1>5, <1>6 DEF ArtifactInv

\* An inspection opens: a recovery waits for the write lock of the event store.
LEMMA InspectionOpens ==
  ASSUME ArtifactInv, NEW i \in Inspector, Open(i)
  PROVE  ArtifactInv'
<1> DEFINE todos == IF i = "recovery" THEN {Of[p] : p \in intents \cup published}
                    ELSE {d \in Digest : blob[d] # "none"}
<1>1. /\ walk[i].at = "idle"
      /\ walk' = [walk EXCEPT ![i] = [at |-> "next", digest |-> Nobody, todo |-> todos]]
      /\ storeLock' \in {storeLock, "recovery"}
      /\ UNCHANGED <<blob, installer, intents, published, flock, at, abandoned, grants, read,
                     faults, cuts>>
  BY DEF Open, store, reads
<1>2. todos \subseteq Digest
  BY ArtifactAssumption DEF ArtifactInv, ArtifactTypeOK
<1> HIDE DEF todos
<1>3. ArtifactTypeOK'
  BY <1>1, <1>2 DEF ArtifactInv, ArtifactTypeOK
<1>4. DigestsLocked'
  BY <1>1 DEF ArtifactInv, ArtifactTypeOK, DigestsLocked
<1>5. PublishersLeave' /\ FilesAreOwned' /\ PublishedSurvive' /\ ReportedAreGone'
  BY <1>1 DEF ArtifactInv, PublishersLeave, FilesAreOwned, RecordsHaveBlobs,
     PublishedSurvive, ReportedAreGone
<1>6. ReadsAreGranted' /\ ReadsAreServedOnce'
  BY <1>1, ReadersUndisturbed
<1> QED
  BY <1>3, <1>4, <1>5, <1>6 DEF ArtifactInv

\* An inspection takes the lock of a digest.
LEMMA DigestIsTaken ==
  ASSUME ArtifactInv, NEW i \in Inspector, TakeDigest(i)
  PROVE  ArtifactInv'
<1> USE DigestsExclude
<1>1. PICK d \in walk[i].todo : Locks(d, i) /\ Takes(i, d)
  BY DEF TakeDigest
<1>2. d \in Digest
  BY DEF ArtifactInv, ArtifactTypeOK
<1>3. ArtifactTypeOK'
  BY <1>1, <1>2 DEF ArtifactInv, ArtifactTypeOK, Locks, Takes, store, reads
<1>4. DigestsLocked'
  BY <1>1, <1>2 DEF ArtifactInv, ArtifactTypeOK, DigestsLocked, Busy, Locks, Takes
<1>5. PublishersLeave' /\ FilesAreOwned' /\ PublishedSurvive' /\ ReportedAreGone'
  BY <1>1 DEF ArtifactInv, PublishersLeave, FilesAreOwned, RecordsHaveBlobs,
     PublishedSurvive, ReportedAreGone, Takes, store
<1>6. ReadsAreGranted' /\ ReadsAreServedOnce'
  BY <1>1, ReadersUndisturbed DEF Takes, store, reads
<1> QED
  BY <1>3, <1>4, <1>5, <1>6 DEF ArtifactInv

\* What an inspection finds under the lock of the digest is over: a publication
\* with an intent and no metadata whose publisher does not hold that lock.
LEMMA FoundAreGone ==
  ASSUME ArtifactInv, NEW i \in Inspector, walk[i].at = "locked",
         NEW p \in Pending(walk[i].digest) \cup Orphaned(walk[i].digest)
  PROVE  p \in Publication /\ at[p] \in Past /\ p \notin published
<1> DEFINE d == walk[i].digest
<1>1. d \in Digest
  BY DEF ArtifactInv, DigestsLocked
<1>2. p \in Publication /\ Of[p] = d /\ p \notin published /\ at[p] # "new"
  <2>1. CASE p \in Pending(d)
    BY <2>1 DEF Pending, ArtifactInv, ArtifactTypeOK, PublishersLeave
  <2>2. CASE p \in Orphaned(d)
    <3>1. blob[d] # "none" /\ (\A q \in published : Of[q] # d) /\ p = installer[d]
      BY <2>2 DEF Orphaned
    <3> QED
      BY <1>1, <3>1 DEF ArtifactInv, ArtifactTypeOK, FilesAreOwned, PublishersLeave
  <2> QED
    BY <2>1, <2>2
<1>3. at[p] \notin Busy
  BY <1>2, DigestsExclude
<1> QED
  BY <1>2, <1>3 DEF ArtifactInv, ArtifactTypeOK, Stage, Busy, Past

\* An inspection reports what it finds and gives the lock of the digest up.
LEMMA DigestIsInspected ==
  ASSUME ArtifactInv, NEW i \in Inspector, Inspect(i)
  PROVE  ArtifactInv'
<1> DEFINE found == IF i = "recovery" THEN Pending(walk[i].digest) ELSE Orphaned(walk[i].digest)
<1>1. /\ walk[i].at = "locked" /\ flock' = [flock EXCEPT ![walk[i].digest] = Nobody]
      /\ abandoned' = abandoned \cup found
      /\ walk' = [walk EXCEPT ![i].at = "next", ![i].digest = Nobody]
      /\ UNCHANGED <<blob, installer, intents, published, storeLock, at, grants, read,
                     faults, cuts>>
  BY DEF Inspect, Unlocks, store, reads
<1>2. \A p \in found : p \in Publication /\ at[p] \in Past /\ p \notin published
  BY <1>1, FoundAreGone
<1> HIDE DEF found
<1>3. ArtifactTypeOK'
  <2>1. flock' \in [Digest -> Publication \cup Inspector \cup {Nobody}]
    BY <1>1 DEF ArtifactInv, ArtifactTypeOK, DigestsLocked
  <2> DEFINE Walks == [at : {"idle", "next", "locked", "done"}, todo : SUBSET Digest,
                      digest : Digest \cup {Nobody}]
  <2>2. walk' \in [Inspector -> Walks]
    <3>1. walk \in [Inspector -> Walks]
      BY DEF ArtifactInv, ArtifactTypeOK
    <3>2. [walk[i] EXCEPT !.at = "next", !.digest = Nobody] \in Walks
      BY <3>1
    <3>3. walk' = [walk EXCEPT ![i] = [walk[i] EXCEPT !.at = "next", !.digest = Nobody]]
      BY <1>1, <3>1
    <3> HIDE DEF Walks
    <3> QED
      BY <3>1, <3>2, <3>3
  <2>3. abandoned' \subseteq Publication
    BY <1>1, <1>2 DEF ArtifactInv, ArtifactTypeOK
  <2> QED
    BY <1>1, <2>1, <2>2, <2>3 DEF ArtifactInv, ArtifactTypeOK
<1>4. DigestsLocked'
  BY <1>1, DigestsExclude DEF ArtifactInv, ArtifactTypeOK, DigestsLocked, Busy
<1>5. PublishersLeave' /\ FilesAreOwned' /\ PublishedSurvive'
  BY <1>1 DEF ArtifactInv, PublishersLeave, FilesAreOwned, RecordsHaveBlobs, PublishedSurvive
<1>6. ReportedAreGone'
  BY <1>1, <1>2 DEF ArtifactInv, ReportedAreGone
<1>7. ReadsAreGranted' /\ ReadsAreServedOnce'
  BY <1>1, ReadersUndisturbed
<1> QED
  BY <1>3, <1>4, <1>5, <1>6, <1>7 DEF ArtifactInv

\* An inspection ends, or its process dies.
LEMMA InspectionEnds ==
  ASSUME ArtifactInv, NEW i \in Inspector, Close(i) \/ InspectorDies(i)
  PROVE  ArtifactInv'
<1> USE DigestsExclude
<1>1. CASE Close(i)
  <2>1. ArtifactTypeOK' /\ DigestsLocked'
    BY <1>1 DEF ArtifactInv, ArtifactTypeOK, DigestsLocked, Close, store, reads
  <2>2. PublishersLeave' /\ FilesAreOwned' /\ PublishedSurvive' /\ ReportedAreGone'
    BY <1>1 DEF ArtifactInv, PublishersLeave, FilesAreOwned, RecordsHaveBlobs,
       PublishedSurvive, ReportedAreGone, Close, store
  <2>3. ReadsAreGranted' /\ ReadsAreServedOnce'
    BY <1>1, ReadersUndisturbed DEF Close, store, reads
  <2> QED
    BY <2>1, <2>2, <2>3 DEF ArtifactInv
<1>2. CASE InspectorDies(i)
  <2>1. ArtifactTypeOK'
    BY <1>2, ArtifactAssumption
       DEF ArtifactInv, ArtifactTypeOK, InspectorDies, Idle, Faulty, store, reads
  <2>2. DigestsLocked'
    BY <1>2 DEF ArtifactInv, ArtifactTypeOK, DigestsLocked, InspectorDies, Idle
  <2>3. PublishersLeave' /\ FilesAreOwned' /\ PublishedSurvive' /\ ReportedAreGone'
    BY <1>2 DEF ArtifactInv, PublishersLeave, FilesAreOwned, RecordsHaveBlobs,
       PublishedSurvive, ReportedAreGone, InspectorDies, store
  <2>4. ReadsAreGranted' /\ ReadsAreServedOnce'
    BY <1>2, ReadersUndisturbed DEF InspectorDies, store, reads
  <2> QED
    BY <2>1, <2>2, <2>3, <2>4 DEF ArtifactInv
<1> QED
  BY <1>1, <1>2

\* A step of a reader or of the authority changes nothing a publisher knows.
LEMMA PublishersUndisturbed ==
  ASSUME ArtifactInv, Unwritten
  PROVE  /\ DigestsLocked' /\ PublishersLeave' /\ FilesAreOwned' /\ PublishedSurvive'
         /\ ReportedAreGone'
  BY DEF Unwritten, store, ArtifactInv, DigestsLocked, PublishersLeave, FilesAreOwned,
     RecordsHaveBlobs, PublishedSurvive, ReportedAreGone

\* A reader looks the grant up and finds the file or not.
LEMMA ReaderLooks ==
  ASSUME ArtifactInv, NEW r \in Reader, NEW g \in Grant, Look(r, g)
  PROVE  ArtifactInv'
<1> DEFINE s == IF blob[For[g]] = "none" THEN "missing" ELSE "seen"
<1>1. /\ read[r].at = "new" /\ read' = [read EXCEPT ![r] = [grant |-> g, at |-> s]]
      /\ s \in {"missing", "seen"} /\ UNCHANGED grants
  BY DEF Look
<1> HIDE DEF s
<1>2. ArtifactTypeOK'
  BY <1>1 DEF ArtifactInv, ArtifactTypeOK, Look, Unwritten, store
<1>3. ReadsAreGranted' /\ ReadsAreServedOnce'
  BY <1>1 DEF ArtifactInv, ArtifactTypeOK, ReadsAreGranted, ReadsAreServedOnce, Authorized,
     Looking, Look, Unwritten, store
<1> QED
  BY <1>2, <1>3, PublishersUndisturbed DEF ArtifactInv, Look

\* A reader finds the metadata of its digest.
LEMMA ReaderLoads ==
  ASSUME ArtifactInv, NEW r \in Reader, Load(r)
  PROVE  ArtifactInv'
<1>1. ArtifactTypeOK'
  BY DEF ArtifactInv, ArtifactTypeOK, Load, Reads, Unwritten, store
<1>2. ReadsAreGranted' /\ ReadsAreServedOnce'
  BY DEF ArtifactInv, ArtifactTypeOK, ReadsAreGranted, ReadsAreServedOnce, Authorized,
     Looking, Load, Reads, Unwritten, store
<1> QED
  BY <1>1, <1>2, PublishersUndisturbed DEF ArtifactInv, Load

\* The authority serves a grant once.
LEMMA ReaderIsAuthorized ==
  ASSUME ArtifactInv, NEW r \in Reader, Authorize(r)
  PROVE  ArtifactInv'
<1>1. ArtifactTypeOK'
  BY DEF ArtifactInv, ArtifactTypeOK, Authorize, Reads, Unwritten, store
<1>2. ReadsAreGranted' /\ ReadsAreServedOnce'
  BY DEF ArtifactInv, ArtifactTypeOK, ReadsAreGranted, ReadsAreServedOnce, Authorized,
     Looking, Authorize, Reads, Unwritten, store
<1> QED
  BY <1>1, <1>2, PublishersUndisturbed DEF ArtifactInv, Authorize

\* A reader that was authorized finds the bytes unless power was lost.
LEMMA ReaderReads ==
  ASSUME ArtifactInv, NEW r \in Reader, ReadAndVerify(r)
  PROVE  ArtifactInv'
<1>1. ArtifactTypeOK'
  BY DEF ArtifactInv, ArtifactTypeOK, ReadAndVerify, Reads, Unwritten, store
<1>2. cuts = 0 => blob[For[read[r].grant]] # "none"
  BY DEF ArtifactInv, ReadsAreGranted, FilesAreOwned, RecordsHaveBlobs, ReadAndVerify
<1>3. ReadsAreGranted' /\ ReadsAreServedOnce'
  BY <1>2 DEF ArtifactInv, ArtifactTypeOK, ReadsAreGranted, ReadsAreServedOnce, Authorized,
     Looking, ReadAndVerify, Reads, Unwritten, store
<1> QED
  BY <1>1, <1>3, PublishersUndisturbed DEF ArtifactInv, ReadAndVerify

\* A grant expires.
LEMMA GrantExpires ==
  ASSUME ArtifactInv, NEW g \in Grant, Expire(g)
  PROVE  ArtifactInv'
<1>1. ArtifactTypeOK' /\ ReadsAreGranted' /\ ReadsAreServedOnce'
  BY DEF ArtifactInv, ArtifactTypeOK, ReadsAreGranted, ReadsAreServedOnce, Authorized,
     Expire, Unwritten, store
<1> QED
  BY <1>1, PublishersUndisturbed DEF ArtifactInv, Expire

\* A power cut ends everybody and may lose the files that were not synced.
LEMMA PowerIsCut ==
  ASSUME ArtifactInv, PowerCut
  PROVE  ArtifactInv'
<1>1. PICK gone \in SUBSET {d \in Digest : blob[d] = "linked"} :
        blob' = [d \in Digest |-> IF d \in gone THEN "none"
                                  ELSE IF blob[d] = "linked" THEN "synced" ELSE blob[d]]
  BY DEF PowerCut
<1>2. /\ \A d \in Digest : blob[d] = "synced" => blob'[d] = "synced"
      /\ \A d \in Digest : blob'[d] # "none" => blob[d] # "none"
      /\ blob' \in [Digest -> {"none", "linked", "synced"}]
  BY <1>1 DEF ArtifactInv, ArtifactTypeOK
<1>3. /\ at' \in [Publication -> Stage]
      /\ \A p \in Publication :
           at'[p] = IF at[p] \in {"new", "done", "failed"} THEN at[p] ELSE "dead"
  BY DEF ArtifactInv, ArtifactTypeOK, PowerCut, Stage
<1>4. /\ read' \in [Reader -> [at : {"new", "seen", "loaded", "authorized", "content",
                                     "lost", "missing", "denied"},
                               grant : Grant \cup {Nobody}]]
      /\ \A r \in Reader : \/ read'[r].at \in {"new", "denied"}
                           \/ read'[r] = read[r] /\ read[r].at \notin Looking
  <2> SUFFICES ASSUME NEW r \in Reader
               PROVE  /\ read'[r] \in [at : {"new", "seen", "loaded", "authorized", "content",
                                             "lost", "missing", "denied"},
                                       grant : Grant \cup {Nobody}]
                      /\ \/ read'[r].at \in {"new", "denied"}
                         \/ read'[r] = read[r] /\ read[r].at \notin Looking
    BY DEF PowerCut
  <2>1. CASE read[r].at = "new"
    BY <2>1 DEF PowerCut, Unread
  <2>2. CASE read[r].at \in {"content", "lost", "missing", "denied"}
    <3>1. read'[r] = [read[r] EXCEPT !.at = read[r].at]
      BY <2>2 DEF PowerCut
    <3> QED
      BY <2>2, <3>1 DEF ArtifactInv, ArtifactTypeOK, Looking
  <2>3. CASE read[r].at \in Looking
    <3>1. read'[r] = [read[r] EXCEPT !.at = "denied"]
      BY <2>3 DEF PowerCut, Looking
    <3> QED
      BY <3>1 DEF ArtifactInv, ArtifactTypeOK
  <2> QED
    BY <2>1, <2>2, <2>3 DEF ArtifactInv, ArtifactTypeOK, Looking
<1>5. cuts \in Nat /\ cuts' = cuts + 1 /\ cuts' \in 0 .. MaxCuts
  BY ArtifactAssumption DEF ArtifactInv, ArtifactTypeOK, PowerCut
<1>6. /\ walk' \in [Inspector -> [at : {"idle", "next", "locked", "done"},
                                  todo : SUBSET Digest, digest : Digest \cup {Nobody}]]
      /\ \A i \in Inspector : walk'[i].at # "locked"
  BY DEF ArtifactInv, ArtifactTypeOK, PowerCut, Idle
<1>7. ArtifactTypeOK'
  BY <1>2, <1>3, <1>4, <1>5, <1>6 DEF ArtifactInv, ArtifactTypeOK, PowerCut
<1>8. DigestsLocked'
  BY <1>3, <1>6 DEF DigestsLocked, Busy
<1>9. PublishersLeave'
  BY <1>3 DEF ArtifactInv, PublishersLeave, PowerCut
<1>10. FilesAreOwned' /\ PublishedSurvive'
  BY <1>2, <1>5 DEF ArtifactInv, FilesAreOwned, PublishedSurvive, PowerCut
<1>11. ReportedAreGone'
  BY <1>3 DEF ArtifactInv, ArtifactTypeOK, ReportedAreGone, Past, PowerCut
<1>12. ReadsAreGranted' /\ ReadsAreServedOnce'
  <2>1. ReadsAreGranted'
    <3>1. grants' = {} /\ \A r \in Reader : read'[r].at \notin Looking
      BY <1>4 DEF Looking, PowerCut
    <3> QED
      BY <3>1 DEF ReadsAreGranted, Looking
  <2>2. ReadsAreServedOnce'
    BY <1>4, <1>5 DEF ArtifactInv, ReadsAreServedOnce, Authorized
  <2> QED
    BY <2>1, <2>2
<1> QED
  BY <1>7, <1>8, <1>9, <1>10, <1>11, <1>12 DEF ArtifactInv

\* Every step keeps the invariant.
LEMMA ArtifactInvStep ==
  ASSUME ArtifactInv, [ArtifactNext]_artifactVars
  PROVE  ArtifactInv'
<1>1. ASSUME NEW p \in Publication, Step(p) \/ Trouble(p) PROVE ArtifactInv'
  BY <1>1, LockIsTaken, IntentIsRecorded, FileIsInstalled, FileIsSynced, MetadataIsRecorded,
     AppendGivesUp, AppendIsLost, InstallIsLost, PublisherIsGone DEF Step, Trouble
<1>2. ASSUME NEW i \in Inspector, Open(i) \/ Inspects(i) \/ InspectorDies(i) PROVE ArtifactInv'
  BY <1>2, InspectionOpens, DigestIsTaken, DigestIsInspected, InspectionEnds DEF Inspects
<1>3. ASSUME NEW r \in Reader, Load(r) \/ Authorize(r) \/ ReadAndVerify(r) PROVE ArtifactInv'
  BY <1>3, ReaderLoads, ReaderIsAuthorized, ReaderReads
<1>4. CASE UNCHANGED artifactVars
  BY <1>4 DEF artifactVars, store, reads, ArtifactInv, ArtifactTypeOK, DigestsLocked,
     PublishersLeave, FilesAreOwned, RecordsHaveBlobs, PublishedSurvive, ReportedAreGone,
     ReadsAreGranted, ReadsAreServedOnce, Authorized
<1> QED
  BY <1>1, <1>2, <1>3, <1>4, ReaderLooks, GrantExpires, PowerIsCut DEF ArtifactNext

\* The invariant holds.
LEMMA ArtifactInvariant == ArtifactSpec => []ArtifactInv
  BY ArtifactInitInv, ArtifactInvStep, PTL DEF ArtifactSpec

\* No publisher, inspection, reader, grant or file is ever anything else than
\* what the module says (artifacts/store.py, artifacts/grants.py).
THEOREM ArtifactsTyped == ArtifactSpec => []ArtifactTypeOK
<1>1. ArtifactInv => ArtifactTypeOK
  BY DEF ArtifactInv
<1> QED
  BY <1>1, ArtifactInvariant, PTL

\* The bytes a publication linked itself are on disk, and not only in the
\* directory, once its ArtifactPublished is durable, through any failures,
\* deaths and power cuts (publish_bytes: the sync is before the metadata).
THEOREM PublishedBytesSurvive == ArtifactSpec => []PublishedSurvive
<1>1. ArtifactInv => PublishedSurvive
  BY DEF ArtifactInv
<1> QED
  BY <1>1, ArtifactInvariant, PTL

\* A publication that pending_publications_for_run reports as incomplete, or
\* whose file find_orphan_blobs reports as an orphan, never appends its
\* ArtifactPublished: both look under the lock the publisher holds.
THEOREM ReportedPublicationsAreOver == ArtifactSpec => []ReportedAreOver
<1>1. ArtifactInv => ReportedAreOver
  BY DEF ArtifactInv, ReportedAreGone, ReportedAreOver
<1> QED
  BY <1>1, ArtifactInvariant, PTL

\* A reader the authority let in finds the bytes unless power was lost, and no
\* grant lets two readers in, though read_bytes takes no lock.
THEOREM GrantsServeOneRead == ArtifactSpec => []ReadsAreServedOnce
<1>1. ArtifactInv => ReadsAreServedOnce
  BY DEF ArtifactInv
<1> QED
  BY <1>1, ArtifactInvariant, PTL
=============================================================================
