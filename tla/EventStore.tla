----------------------------- MODULE EventStore -----------------------------
(***************************************************************************)
(* The append-only store on SQLite (persistence/sqlite_event_store.py),    *)
(* the checkpoints beside it (persistence/snapshots.py) and recovery from  *)
(* both (recovery/bootstrap.py).  Any number of processes have a           *)
(* connection each; one of them may hold the write lock.  append is one    *)
(* transaction; append_checked holds the lock while a callback decides,    *)
(* and the callback may append, checkpoint and nest further calls in       *)
(* savepoints of the same transaction, catch their errors, or raise.       *)
(***************************************************************************)
EXTENDS Naturals, Sequences, FiniteSets

CONSTANTS
  Type, Id,      \* stream types and stream ids
  Key,           \* idempotency keys
  Body,          \* event bodies
  OneShot,       \* bodies the event contract admits once in a stream
  Drafts,        \* sequences of bodies that callers append
  Process,
  None,
  MaxLen,        \* bound on the length of a stream
  MaxDepth       \* bound on nested append_checked calls

\* What the store keeps of a key, and of a checkpoint.
Records == [type : Type, request : Drafts, first : Nat \ {0}, last : Nat]
Checkpoints == [version : Nat, state : Seq(Body)]

ASSUME StoreAssumption ==
  /\ OneShot \subseteq Body
  /\ Drafts \subseteq Seq(Body) \ {<< >>}
  /\ None \notin Process \cup Records \cup Checkpoints
  /\ MaxLen \in Nat /\ MaxDepth \in Nat

VARIABLES
  db,       \* the committed database
  work,     \* what the open write transaction sees; db when there is none
  writer,   \* the process that holds the write lock, or None
  stack     \* the append_checked calls it is in, innermost last

vars == <<db, work, writer, stack>>

Stream == Type \X Id

\* basis is the version its author decided on.
Events == [key : Key, body : Body, basis : Nat]

Databases ==
  [events : [Stream -> Seq(Events)],
   version : [Stream -> Nat],
   record : [Id \X Key -> Records \cup {None}],
   checkpoint : [Stream -> Checkpoints \cup {None}]]

Empty ==
  [events |-> [s \in Stream |-> << >>],
   version |-> [s \in Stream |-> 0],
   record |-> [k \in Id \X Key |-> None],
   checkpoint |-> [s \in Stream |-> None]]

Init == db = Empty /\ work = Empty /\ writer = None /\ stack = << >>

Bodies(events) == [i \in 1 .. Len(events) |-> events[i].body]

-----------------------------------------------------------------------------
\* validate_event_contract, of which only the repetition of a one-time event
\* matters here.
Contract(events) ==
  \A i, j \in 1 .. Len(events) :
    events[i].body = events[j].body /\ events[i].body \in OneShot => i = j

\* The key is known with this very request: its events are returned again.
Repeats(d, s, k, drafts) ==
  LET r == d.record[<<s[2], k>>] IN r # None /\ r.type = s[1] /\ r.request = drafts

Drafted(k, drafts, basis) == [i \in 1 .. Len(drafts) |-> [key |-> k, body |-> drafts[i], basis |-> basis]]

\* Variant: the expected version is not compared.
AppendsAnywhere(d, s, v, k, drafts) ==
  /\ d.record[<<s[2], k>>] = None
  /\ Contract(d.events[s] \o Drafted(k, drafts, v))

\* The key is new, the expected version is current, the contract holds.
Appends(d, s, v, k, drafts) ==
  /\ d.record[<<s[2], k>>] = None
  /\ d.version[s] = v
  /\ Contract(d.events[s] \o Drafted(k, drafts, v))

\* The stream's version row is written first, ...
Versioned(d, s, drafts) == [d EXCEPT !.version[s] = @ + Len(drafts)]

\* Variant: the stored range forgets that versions start at one.
InsertedFromBase(d, s, v, k, drafts, basis) ==
  [d EXCEPT !.events[s] = @ \o Drafted(k, drafts, basis),
            !.record[<<s[2], k>>] =
              [type |-> s[1], request |-> drafts, first |-> v, last |-> v + Len(drafts)]]

\* ... then, when the contract holds, the events and the key's record.
Inserted(d, s, v, k, drafts, basis) ==
  [d EXCEPT !.events[s] = @ \o Drafted(k, drafts, basis),
            !.record[<<s[2], k>>] =
              [type |-> s[1], request |-> drafts, first |-> v + 1, last |-> v + Len(drafts)]]

\* Variant: an error releases the savepoint without rolling back to it.
ReleasedOnly(saved, dirty) == dirty

\* ROLLBACK, or ROLLBACK TO the savepoint.
RolledBack(saved, dirty) == saved

\* What a call of append leaves of database d, its author having decided on
\* version basis.
AppendedTo(d, s, v, k, drafts, basis) ==
  IF Repeats(d, s, k, drafts) THEN d
  ELSE IF Appends(d, s, v, k, drafts)
  THEN Inserted(Versioned(d, s, drafts), s, v, k, drafts, basis)
  ELSE RolledBack(d, IF d.version[s] = v /\ d.record[<<s[2], k>>] = None
                     THEN Versioned(d, s, drafts) ELSE d)

\* Within the bound on stream lengths.
Fits(d, s, drafts) == Len(d.events[s]) + Len(drafts) <= MaxLen

-----------------------------------------------------------------------------
\* append on its own: one transaction from lock to commit or rollback.
AppendAlone(p, s, v, k, drafts) ==
  /\ writer = None
  /\ Fits(db, s, drafts)
  /\ db' = AppendedTo(db, s, v, k, drafts, v)
  /\ work' = db'
  /\ UNCHANGED <<writer, stack>>

\* append inside a callback; the callback goes on, its error caught.
AppendInside(p, s, v, k, drafts) ==
  /\ writer = p
  /\ Fits(work, s, drafts)
  /\ work' = AppendedTo(work, s, v, k, drafts, v)
  /\ UNCHANGED <<db, writer, stack>>

\* Variant: the version is read again after the callback.
FrameVersionAtReturn(f, d) == d.version[f.stream]

\* The version append_checked read before it called decide.
FrameVersion(f, d) == f.version

Top == stack[Len(stack)]

\* Variant: a nested call commits the transaction it is part of.
ReturnCommitting(d) ==
  /\ stack' = SubSeq(stack, 1, Len(stack) - 1)
  /\ work' = d /\ db' = d
  /\ writer' = IF Len(stack) = 1 THEN None ELSE writer

\* The innermost call ends and leaves d; the outermost commits it.
Return(d) ==
  /\ stack' = SubSeq(stack, 1, Len(stack) - 1)
  /\ work' = d
  /\ IF Len(stack) = 1 THEN db' = d /\ writer' = None ELSE UNCHANGED <<db, writer>>

\* append_checked: take the lock, or a savepoint of the transaction this
\* process is in, and read the stream.
EnterChecked(p, s, k) ==
  /\ writer \in {None, p}
  /\ Len(stack) < MaxDepth
  /\ writer' = p
  /\ stack' = Append(stack, [stream |-> s, key |-> k, version |-> work.version[s], saved |-> work])
  /\ UNCHANGED <<db, work>>

\* decide returns None: what it appended itself stays.
DecideNothing(p) ==
  /\ writer = p
  /\ Return(work)

\* decide returns drafts, decided on the version it was given.
DecideDrafts(p, drafts) ==
  LET f == Top
      v == FrameVersion(f, work)
  IN /\ writer = p
     /\ Fits(work, f.stream, drafts)
     /\ IF Repeats(work, f.stream, f.key, drafts) \/ Appends(work, f.stream, v, f.key, drafts)
        THEN Return(AppendedTo(work, f.stream, v, f.key, drafts, f.version))
        ELSE Return(RolledBack(f.saved, work))

\* decide raises; the callback around it, if any, may catch the error.
DecideRaises(p) ==
  /\ writer = p
  /\ Return(RolledBack(Top.saved, work))

\* The process dies in a transaction; SQLite rolls it back.
Crash(p) ==
  /\ writer = p
  /\ writer' = None /\ stack' = << >> /\ work' = db
  /\ UNCHANGED db

\* save_snapshot of the state after the first v events that the process sees,
\* over the connection of its transaction if it is in one.  An older
\* checkpoint than the stored one is refused, the same one kept.
SaveSnapshot(p, s, v) ==
  LET old == work.checkpoint[s] IN
  /\ writer \in {None, p}
  /\ v \in 1 .. Len(work.events[s])
  /\ old # None => old.version < v
  /\ work' = [work EXCEPT !.checkpoint[s] =
                [version |-> v, state |-> Bodies(SubSeq(work.events[s], 1, v))]]
  /\ db' = IF writer = None THEN work' ELSE db
  /\ UNCHANGED <<writer, stack>>

Next ==
  \E p \in Process :
    \/ \E s \in Stream, k \in Key :
         \/ EnterChecked(p, s, k)
         \/ \E drafts \in Drafts, v \in 0 .. MaxLen :
              AppendAlone(p, s, v, k, drafts) \/ AppendInside(p, s, v, k, drafts)
    \/ \E drafts \in Drafts : DecideDrafts(p, drafts)
    \/ DecideNothing(p) \/ DecideRaises(p) \/ Crash(p)
    \/ \E s \in Stream, v \in 1 .. MaxLen : SaveSnapshot(p, s, v)

Spec == Init /\ [][Next]_vars

-----------------------------------------------------------------------------
\* A checkpoint that recovery may start from (load_valid, _load_usable_snapshot).
Usable(d, s) ==
  d.checkpoint[s] # None /\ d.checkpoint[s].version <= Len(d.events[s])

\* Variant: the event at the anchor is replayed again.
AfterAndAnchor(d, s, v) == Bodies(SubSeq(d.events[s], IF v = 0 THEN 1 ELSE v, Len(d.events[s])))

\* The events after the anchor.
After(d, s, v) == Bodies(SubSeq(d.events[s], v + 1, Len(d.events[s])))

\* RecoveryBootstrap.recover, with a reducer that keeps everything it sees.
Recovered(d, s) ==
  IF Usable(d, s) THEN d.checkpoint[s].state \o After(d, s, d.checkpoint[s].version)
  ELSE After(d, s, 0)

\* A record names exactly the events its call appended, all decided on the
\* version right before them; every event belongs to one record, and version
\* rows count the events.  It holds for what a transaction sees as well as for
\* what is committed, whatever nested calls failed on the way (append,
\* append_checked).
Exact(d) ==
  /\ \A s \in Stream :
       /\ d.version[s] = Len(d.events[s])
       /\ Contract(d.events[s])
       /\ \A i \in 1 .. Len(d.events[s]) :
            LET r == d.record[<<s[2], d.events[s][i].key>>]
            IN r # None /\ r.type = s[1] /\ r.first <= i /\ i <= r.last
  /\ \A id \in Id, k \in Key :
       LET r == d.record[<<id, k>>] IN
       r # None =>
         LET s == <<r.type, id>> IN
         /\ r.last <= d.version[s]
         /\ Len(r.request) = r.last - r.first + 1
         /\ \A i \in r.first .. r.last :
              d.events[s][i] = [key |-> k, body |-> r.request[i - r.first + 1], basis |-> r.first - 1]

RecordsAreExact == Exact(db) /\ Exact(work)

\* What recovery rebuilds from a checkpoint and the events after it is what a
\* replay of the whole stream gives (RecoveryBootstrap.recover).
RecoveryIsReplay == \A s \in Stream : Recovered(db, s) = Bodies(db.events[s])

\* The committed streams are an append-only log in which a key appends once:
\* nothing committed is lost, changed or reordered by a crash, a rollback or a
\* retry.
Log == INSTANCE EventLog WITH
  log <- [s \in Stream |-> [i \in 1 .. Len(db.events[s]) |->
            [key |-> db.events[s][i].key, body |-> db.events[s][i].body]]]
ImplementsLog == Log!Spec
=============================================================================
