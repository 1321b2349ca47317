-------------------------- MODULE WorkspacePublish --------------------------
(***************************************************************************)
(* The journaled publisher of a workspace change set                       *)
(* (isolation/workspace_publish.py) under the exclusive writer lease       *)
(* (isolation/workspace_lease.py): apply entry by entry, roll back after a *)
(* failure or a crash, keep the outcome until it is acknowledged.  One     *)
(* step changes one thing on disk.  Whoever holds the lease is the only    *)
(* one to act, so its place in the code is the one variable phase.         *)
(* Journals are those the gateway writes: schema 2, retained.              *)
(***************************************************************************)
EXTENDS Naturals, Sequences

CONSTANTS
  Operation,  \* workspace operations; an operation has at most one transaction
  Nothing,
  Diff,       \* the change set: entries in the order of _record_order
  MaxFaults   \* bound on failing calls, failing appends, crashes and edits by others

Entry == 1 .. Len(Diff)
Actors == {"gateway", "service", "reconcile"}

(* Added directories first and parents before children, then files, then   *)
(* deletions with children before parents.  up is the entry that adds or   *)
(* removes the directory an entry is in, 0 if the change set has none.     *)
ASSUME PublishAssumption ==
  /\ Nothing \notin Operation \cup [op : Operation, by : Actors]
  /\ Nothing \notin {"staging", "publish", "acknowledged", "completed", "aborted", "applied",
                  "not_applied", "published", "failed", "intended"}
  /\ MaxFaults \in Nat
  /\ Diff \in Seq([does : {"add", "modify", "delete"},
                   kind : {"file", "directory"}, up : Nat])
  /\ \A e \in Entry :
       LET up == Diff[e].up IN
       up # 0 => /\ up \in Entry /\ Diff[up].kind = "directory"
                 /\ Diff[e].does # "modify" /\ Diff[up].does = Diff[e].does
                 /\ IF Diff[e].does = "delete" THEN e < up ELSE up < e

VARIABLES
  tree,     \* tree[e]: the workspace at entry e, relative to the change set
  temp,     \* temp[e]: the temporary file of e is in the workspace
  journal,  \* the transaction directory: its name, its state, its operation
  place,    \* the record an apply or a rollback is at
  phase,    \* what the holder of the lease does next
  lease,    \* who holds the writer lease, and for which operation
  auth,     \* auth[o]: the attempt and the policy o was admitted under hold
  faults,   \* failures and edits so far
  subject,  \* the operation whose change set tree is relative to
  settled   \* history: operations whose transaction became committed

disk == <<tree, temp, journal>>
publisher == <<disk, place, phase, lease, auth, faults, subject, settled>>

NoJournal == [name |-> Nothing, state |-> "unbound", op |-> Nothing]
PublishPhases ==
  {"stage", "bind", "promote", "prepare", "apply", "install", "unlink", "commit"}
RecoverPhases == {"scan", "sweep", "rollback", "remake", "replace", "record"}
AckPhases == {"ack", "discard", "remove"}

PublishTypeOK ==
  /\ tree \in [Entry -> {"before", "partial", "after", "foreign"}]
  /\ temp \in [Entry -> BOOLEAN]
  /\ journal \in [name : {Nothing, "staging", "publish", "acknowledged"},
                  state : {"unbound", "preparing", "prepared", "committed",
                           "rolled_back", "not_started"},
                  op : Operation \cup {Nothing}]
  /\ place \in 0 .. Len(Diff) + 1
  /\ lease \in [op : Operation, by : Actors] \cup {Nothing}
  /\ auth \in [Operation -> BOOLEAN]
  /\ faults \in 0 .. MaxFaults
  /\ subject \in Operation \cup {Nothing} /\ settled \subseteq Operation

PublishInit ==
  /\ tree = [e \in Entry |-> "before"] /\ temp = [e \in Entry |-> FALSE]
  /\ journal = NoJournal
  /\ place = 0 /\ phase = "idle" /\ lease = Nothing
  /\ auth = [o \in Operation |-> TRUE]
  /\ faults = 0 /\ subject = Nothing /\ settled = {}

HasLease(o, by) == lease = [op |-> o, by |-> by]
Permitted == auth[lease.op]
Pending == journal.name \in {"staging", "publish"}
TreeUntouched == \A e \in Entry : tree[e] = "before"
Becomes(e, s) == tree' = [tree EXCEPT ![e] = s]
Drops(e) == temp' = [temp EXCEPT ![e] = FALSE]
Turns(s) == journal' = [journal EXCEPT !.state = s]

(***************************************************************************)
(* The writer lease: flock, then a new durable generation.                 *)
(***************************************************************************)
Acquire(o, by, next) ==
  /\ lease = Nothing
  /\ lease' = [op |-> o, by |-> by] /\ phase' = next
Release == lease' = Nothing /\ phase' = "idle"

(***************************************************************************)
(* publish_workspace_diff.                                                 *)
(***************************************************************************)
Stage ==
  /\ phase = "stage" /\ Permitted /\ ~Pending
  /\ journal' = [name |-> "staging", state |-> "unbound", op |-> lease.op]
  /\ phase' = "bind"
  /\ UNCHANGED <<tree, temp, place, settled>>

BindJournal == phase = "bind" /\ Turns("preparing") /\ phase' = "promote"
               /\ UNCHANGED <<tree, temp, place, settled>>

Promote == phase = "promote" /\ journal' = [journal EXCEPT !.name = "publish"]
           /\ phase' = "prepare" /\ UNCHANGED <<tree, temp, place, settled>>

(* Preimages are captured and verified, and nobody edited the paths. *)
Prepare ==
  /\ phase = "prepare" /\ Permitted /\ TreeUntouched
  /\ Turns("prepared") /\ place' = 1
  /\ phase' = IF Diff = <<>> THEN "commit" ELSE "apply"
  /\ UNCHANGED <<tree, temp, settled>>

(* A directory that stays only gets another mode. *)
AtOnce(e) == Diff[e].does = "modify" /\ Diff[e].kind = "directory"

Applied ==
  /\ place' = place + 1
  /\ phase' = IF place = Len(Diff) THEN "commit" ELSE "apply"

(* The first change an entry makes on disk. *)
Apply ==
  /\ phase = "apply" /\ Permitted /\ tree[place] = "before"
  /\ CASE Diff[place].does = "delete" \/ AtOnce(place) ->
            Becomes(place, "after") /\ Applied /\ UNCHANGED temp
       [] Diff[place].does = "add" /\ Diff[place].kind = "directory" ->
            Becomes(place, "partial") /\ phase' = "install" /\ UNCHANGED <<temp, place>>
       [] OTHER -> /\ temp' = [temp EXCEPT ![place] = TRUE]
                   /\ phase' = "install" /\ UNCHANGED <<tree, place>>
  /\ UNCHANGED <<journal, settled>>

(* A new directory gets its mode, a modified file is replaced, a new file  *)
(* is linked in beside its temporary.                                      *)
Install ==
  /\ phase = "install" /\ Permitted
  /\ tree[place] = (IF Diff[place].kind = "directory" THEN "partial" ELSE "before")
  /\ Becomes(place, "after")
  /\ IF Diff[place].kind = "file" /\ Diff[place].does = "add"
     THEN phase' = "unlink" /\ UNCHANGED <<temp, place>>
     ELSE Drops(place) /\ Applied
  /\ UNCHANGED <<journal, settled>>

Unlink == phase = "unlink" /\ Drops(place) /\ Applied /\ UNCHANGED <<tree, journal, settled>>

(* The marker is durable once renamed, even if the call then fails. *)
Commit ==
  /\ phase = "commit" /\ Permitted
  /\ Turns("committed") /\ settled' = settled \cup {lease.op}
  /\ \/ phase' = "published" /\ UNCHANGED faults
     \/ phase' = "scan" /\ faults < MaxFaults /\ faults' = faults + 1
  /\ UNCHANGED <<tree, temp, place, subject, lease, auth>>

(* Lost authority, a path somebody edited or a failing call end the        *)
(* publication; the gateway recovers it under the same lease.              *)
Fail ==
  /\ phase \in PublishPhases /\ phase' = "scan"
  /\ \/ /\ \/ ~Permitted
           \/ phase = "prepare" /\ ~TreeUntouched
           \/ phase \in {"apply", "install"} /\ tree[place] = "foreign"
        /\ UNCHANGED faults
     \/ faults < MaxFaults /\ faults' = faults + 1
  /\ UNCHANGED <<disk, place, subject, settled, lease, auth>>

Publish ==
  \/ Commit \/ Fail
  \/ /\ Stage \/ BindJournal \/ Promote \/ Prepare \/ Apply \/ Install \/ Unlink
     /\ UNCHANGED <<lease, auth, faults, subject>>

(***************************************************************************)
(* recover_workspace_publications_with_outcomes, by the gateway after a    *)
(* failure or by the explicit reconciliation after a crash.                *)
(***************************************************************************)
Scan ==
  /\ phase = "scan"
  /\ \/ ~Pending /\ phase' = "recovered" /\ UNCHANGED journal
     \/ Pending /\ journal.state = "unbound" /\ phase' = "unrecovered" /\ UNCHANGED journal
     \/ Pending /\ journal.state = "preparing" /\ Turns("not_started") /\ phase' = "recovered"
     \/ Pending /\ journal.state = "prepared" /\ phase' = "sweep" /\ UNCHANGED journal
     \/ /\ Pending /\ journal.state \in {"committed", "rolled_back", "not_started"}
        /\ phase' = "recovered" /\ UNCHANGED journal
  /\ UNCHANGED <<tree, temp, place>>

SweepLater ==
  /\ phase = "sweep" /\ UNCHANGED temp
  /\ place' = Len(Diff) /\ phase' = (IF Diff = <<>> THEN "record" ELSE "rollback")
  /\ UNCHANGED <<tree, journal>>

Sweep ==
  /\ phase = "sweep" /\ temp' = [e \in Entry |-> FALSE]
  /\ place' = Len(Diff) /\ phase' = (IF Diff = <<>> THEN "record" ELSE "rollback")
  /\ UNCHANGED <<tree, journal>>

RolledBack ==
  /\ place' = place - 1
  /\ phase' = IF place = 1 THEN "record" ELSE "rollback"

Below(e) == {c \in Entry : Diff[c].up = e}
Emptied(e) == \A c \in Below(e) : tree[c] = "before"
ParentThere(e) == \A f \in {Diff[e].up} \ {0} : tree[f] \in {"before", "partial"}

(* A second link to the file, its temporary, makes its state unreadable.   *)
Unreadable(e) == tree[e] = "after" /\ temp[e] /\ Diff[e].does = "add"

NotAfter(e) == tree[e] # "after"
AlreadyBefore(e) == tree[e] = "before"

(* The first change a rollback makes for an entry. *)
Restore ==
  LET d == Diff[place] IN
  /\ phase = "rollback" /\ tree[place] # "foreign" /\ ~Unreadable(place)
  /\ \/ AlreadyBefore(place) /\ RolledBack /\ UNCHANGED <<tree, temp>>
     \/ /\ \/ tree[place] = "partial"
           \/ tree[place] = "after" /\ (d.does = "add" \/ AtOnce(place))
        /\ d.does = "add" => Emptied(place)
        /\ Becomes(place, "before") /\ RolledBack /\ UNCHANGED temp
     \/ /\ tree[place] = "after" /\ d.does = "delete" /\ d.kind = "directory"
        /\ ParentThere(place)
        /\ Becomes(place, "partial") /\ phase' = "remake" /\ UNCHANGED <<temp, place>>
     \/ /\ tree[place] = "after" /\ d.does # "add" /\ d.kind = "file" /\ ParentThere(place)
        /\ temp' = [temp EXCEPT ![place] = TRUE] /\ phase' = "replace"
        /\ UNCHANGED <<tree, place>>
  /\ UNCHANGED journal

Remake == phase = "remake" /\ tree[place] = "partial" /\ Becomes(place, "before")
          /\ RolledBack /\ UNCHANGED <<temp, journal>>

Replace == phase = "replace" /\ tree[place] = "after" /\ Becomes(place, "before")
           /\ Drops(place) /\ RolledBack /\ UNCHANGED journal

Record == phase = "record" /\ Turns("rolled_back") /\ phase' = "recovered"
          /\ UNCHANGED <<tree, temp, place>>

RecoverStep ==
  /\ Scan \/ Sweep \/ Restore \/ Remake \/ Replace \/ Record
  /\ UNCHANGED <<subject, settled, lease, auth, faults>>

(* A path somebody edited, or a failing call: the journal stays. *)
Edited(e) == \E f \in ({e, Diff[e].up} \ {0}) \cup Below(e) : tree[f] = "foreign"

RecoverFails ==
  /\ phase \in RecoverPhases /\ phase' = "unrecovered"
  /\ \/ /\ phase \in {"rollback", "remake", "replace"} /\ Edited(place)
        /\ UNCHANGED faults
     \/ faults < MaxFaults /\ faults' = faults + 1
  /\ UNCHANGED <<disk, place, subject, settled, lease, auth>>

Recover == RecoverStep \/ RecoverFails

(***************************************************************************)
(* acknowledge_workspace_publication and acknowledge_workspace_recovery:   *)
(* rename, then remove the state and the directory.                        *)
(***************************************************************************)
Acknowledge ==
  /\ \/ /\ phase = "ack" /\ Pending /\ journal.op = lease.op /\ journal.state # "unbound"
        /\ journal' = [journal EXCEPT !.name = "acknowledged"] /\ phase' = "discard"
     \/ /\ phase = "ack" /\ journal.name = "acknowledged" /\ journal.op = lease.op
        /\ journal.state # "unbound" /\ phase' = "discard" /\ UNCHANGED journal
     \/ phase = "discard" /\ Turns("unbound") /\ phase' = "remove"
     \/ phase = "remove" /\ journal' = NoJournal /\ phase' = "released"
     \/ /\ phase = "ack" /\ (journal.op # lease.op \/ journal.state = "unbound")
        /\ phase' = "released" /\ UNCHANGED journal
  /\ UNCHANGED <<tree, temp, place, subject, settled, lease, auth, faults>>

(* Another program of the same user writes to a path; the lease does not   *)
(* stop it.  Edits while there is no candidate are part of the snapshot.   *)
Interfere ==
  /\ faults < MaxFaults /\ faults' = faults + 1
  /\ phase # "idle" \/ Pending
  /\ \E e \in Entry : Becomes(e, "foreign")
  /\ UNCHANGED <<temp, journal, place, phase, lease, auth, subject, settled>>

(* The attempt ends or is fenced, or the policy state changes.  Before the  *)
(* lease this only refuses the operation, later nobody asks.               *)
LoseAuthority ==
  /\ lease # Nothing /\ lease.by = "gateway"
  /\ Permitted /\ auth' = [auth EXCEPT ![lease.op] = FALSE]
  /\ UNCHANGED <<disk, place, phase, lease, faults, subject, settled>>

(***************************************************************************)
(* Properties.                                                             *)
(***************************************************************************)
Whole(s) == \A e \in Entry : tree[e] \in {s, "foreign"} /\ ~temp[e]

(* Unless the journal says prepared, the workspace holds the whole change  *)
(* set or none of it, with no temporary left, whichever call failed and    *)
(* wherever the publisher, a rollback or a second rollback was killed.     *)
TreeIsWhole ==
  journal.state # "prepared" =>
    Whole(IF subject \in settled THEN "after" ELSE "before")

(* A rollback can always go on unless somebody else edited an entry: the   *)
(* order of the records, the removal of temporaries and the half-made      *)
(* directories never leave it without a next step.                         *)
RollbackIsNeverStuck ==
  phase \in RecoverPhases \ {"scan"} /\ (\A e \in Entry : tree[e] # "foreign")
    => ENABLED RecoverStep
=============================================================================
