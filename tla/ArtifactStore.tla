---------------------------- MODULE ArtifactStore ----------------------------
(***************************************************************************)
(* The content-addressed store of artifacts (artifacts/store.py) with its  *)
(* one-use read grants (artifacts/grants.py).  A publication holds the     *)
(* lock of its digest, appends its intent, installs the bytes, syncs the   *)
(* directory and appends ArtifactPublished.  Publishers are processes that *)
(* may die at any step, calls may fail, the machine may lose power, and    *)
(* the recovery of a Run, which runs inside a transaction of the event     *)
(* store, takes the same locks in the opposite order.                      *)
(***************************************************************************)
EXTENDS Naturals

CONSTANTS
  Publication,  \* publications, each by a process of its own
  Digest,
  Of,           \* Of[p]: the digest of the bytes p publishes
  Reader,       \* reads by a holder of a grant
  Grant,
  For,          \* For[g]: the digest g was issued for
  Nobody,
  MaxFaults,    \* bound on failing calls and dying processes
  MaxCuts       \* bound on power cuts

ASSUME ArtifactAssumption ==
  /\ Of \in [Publication -> Digest] /\ For \in [Grant -> Digest]
  /\ MaxFaults \in Nat /\ MaxCuts \in Nat
  /\ Nobody \notin Publication \cup Digest \cup Grant
  /\ {"recovery", "inventory"} \cap (Publication \cup {Nobody}) = {}

VARIABLES
  blob,       \* blob[d]: the file of d; linked is in the directory but not yet on disk
  installer,  \* installer[d]: the publication that last linked the file of d
  intents,    \* publications with a durable ArtifactPublicationIntent
  published,  \* publications with a durable ArtifactPublished
  flock,      \* flock[d]: who holds the lock of d
  storeLock,  \* who holds the write lock of the event store between two steps
  at,         \* at[p]: where the publisher of p is
  walk,       \* walk[i]: an inspection of all digests
  abandoned,  \* publications an inspection reported as incomplete
  grants,     \* grants the authority still knows
  read,       \* read[r]: a call of read_bytes
  faults, cuts

store == <<blob, installer, intents, published>>
reads == <<grants, read>>
artifactVars == <<store, flock, storeLock, at, walk, abandoned, reads, faults, cuts>>

Inspector == {"recovery", "inventory"}
Stage == {"new", "locked", "intended", "linked", "present", "done", "failed", "dead"}
Idle == [at |-> "idle", todo |-> {}, digest |-> Nobody]
Unread == [at |-> "new", grant |-> Nobody]

ArtifactTypeOK ==
  /\ blob \in [Digest -> {"none", "linked", "synced"}]
  /\ installer \in [Digest -> Publication \cup {Nobody}]
  /\ intents \subseteq Publication /\ published \subseteq Publication
  /\ flock \in [Digest -> Publication \cup Inspector \cup {Nobody}]
  /\ storeLock \in {Nobody, "recovery"}
  /\ at \in [Publication -> Stage]
  /\ walk \in [Inspector -> [at : {"idle", "next", "locked", "done"}, todo : SUBSET Digest,
                             digest : Digest \cup {Nobody}]]
  /\ abandoned \subseteq Publication
  /\ grants \subseteq Grant
  /\ read \in [Reader -> [at : {"new", "seen", "loaded", "authorized", "content",
                                "lost", "missing", "denied"},
                          grant : Grant \cup {Nobody}]]
  /\ faults \in 0 .. MaxFaults /\ cuts \in 0 .. MaxCuts

ArtifactInit ==
  /\ blob = [d \in Digest |-> "none"] /\ installer = [d \in Digest |-> Nobody]
  /\ intents = {} /\ published = {}
  /\ flock = [d \in Digest |-> Nobody] /\ storeLock = Nobody
  /\ at = [p \in Publication |-> "new"]
  /\ walk = [i \in Inspector |-> Idle] /\ abandoned = {}
  /\ grants = Grant /\ read = [r \in Reader |-> Unread]
  /\ faults = 0 /\ cuts = 0

Goes(p, s) == at' = [at EXCEPT ![p] = s]
Locks(d, who) == flock[d] = Nobody /\ flock' = [flock EXCEPT ![d] = who]
Unlocks(d) == flock' = [flock EXCEPT ![d] = Nobody]
Faulty == faults < MaxFaults /\ faults' = faults + 1

(***************************************************************************)
(* publish_bytes.                                                          *)
(***************************************************************************)
Lock(p) ==
  /\ at[p] = "new" /\ Goes(p, "locked") /\ Locks(Of[p], p)
  /\ UNCHANGED <<store, storeLock, walk, abandoned, reads, faults, cuts>>

RecordIntent(p) ==
  /\ at[p] = "locked" /\ storeLock = Nobody /\ Goes(p, "intended")
  /\ intents' = intents \cup {p}
  /\ UNCHANGED <<blob, installer, published, flock, storeLock, walk, abandoned, reads>>
  /\ UNCHANGED <<faults, cuts>>

(* A file that is there is verified and adopted, or the staged one linked. *)
Install(p) ==
  /\ at[p] = "intended"
  /\ IF blob[Of[p]] # "none" THEN Goes(p, "present") /\ UNCHANGED <<blob, installer>>
     ELSE /\ Goes(p, "linked")
          /\ blob' = [blob EXCEPT ![Of[p]] = "linked"]
          /\ installer' = [installer EXCEPT ![Of[p]] = p]
  /\ UNCHANGED <<intents, published, flock, storeLock, walk, abandoned, reads, faults, cuts>>

SyncLater(p) ==
  /\ at[p] = "linked" /\ Goes(p, "present")
  /\ UNCHANGED <<store, flock, storeLock, walk, abandoned, reads, faults, cuts>>

Sync(p) ==
  /\ at[p] = "linked" /\ Goes(p, "present")
  /\ blob' = [blob EXCEPT ![Of[p]] = "synced"]
  /\ UNCHANGED <<installer, intents, published, flock, storeLock, walk, abandoned, reads>>
  /\ UNCHANGED <<faults, cuts>>

RecordMetadata(p) ==
  /\ at[p] = "present" /\ storeLock = Nobody /\ Goes(p, "done")
  /\ published' = published \cup {p} /\ Unlocks(Of[p])
  /\ UNCHANGED <<blob, installer, intents, storeLock, walk, abandoned, reads, faults, cuts>>

CommittedNever(p) == FALSE

(* _publication_committed: an intent alone keeps the file. *)
Committed(p) == p \in intents' \cup published'

(* A failed publication removes the file it installed unless an event may  *)
(* refer to it, and gives up the lock.                                     *)
Abandons(p) ==
  /\ Goes(p, "failed") /\ Unlocks(Of[p])
  /\ IF installer[Of[p]] = p /\ ~Committed(p)
     THEN blob' = [blob EXCEPT ![Of[p]] = "none"]
     ELSE UNCHANGED blob
  /\ UNCHANGED installer

WaitsForEver(p) == FALSE /\ UNCHANGED artifactVars

(* An append waits for the write lock until its busy timeout, or fails,    *)
(* and may then still have committed.                                      *)
AppendTimesOut(p) ==
  /\ at[p] \in {"locked", "present"} /\ storeLock # Nobody
  /\ UNCHANGED <<intents, published>> /\ Abandons(p)
  /\ UNCHANGED <<storeLock, walk, abandoned, reads, faults, cuts>>

AppendFails(p) ==
  /\ at[p] \in {"locked", "present"} /\ storeLock = Nobody /\ Faulty
  /\ \/ UNCHANGED <<intents, published>>
     \/ at[p] = "locked" /\ intents' = intents \cup {p} /\ UNCHANGED published
     \/ at[p] = "present" /\ published' = published \cup {p} /\ UNCHANGED intents
  /\ Abandons(p)
  /\ UNCHANGED <<storeLock, walk, abandoned, reads, cuts>>

(* A failing link may have installed the file, a failing sync leaves it. *)
InstallFails(p) ==
  /\ at[p] \in {"intended", "linked"} /\ Faulty
  /\ UNCHANGED <<intents, published>> /\ Abandons(p)
  /\ UNCHANGED <<storeLock, walk, abandoned, reads, cuts>>

Dies(p) ==
  /\ at[p] \in {"locked", "intended", "linked", "present"} /\ Faulty
  /\ Goes(p, "dead") /\ Unlocks(Of[p])
  /\ UNCHANGED <<store, storeLock, walk, abandoned, reads, cuts>>

Step(p) == Lock(p) \/ RecordIntent(p) \/ Install(p) \/ Sync(p) \/ RecordMetadata(p)
           \/ AppendTimesOut(p)
Trouble(p) == AppendFails(p) \/ InstallFails(p) \/ Dies(p)

(***************************************************************************)
(* pending_publications_for_run, in the transaction of an acceptance, and  *)
(* find_orphan_blobs, on its own: one digest after the other, under the    *)
(* lock of the digest.                                                     *)
(***************************************************************************)
Open(i) ==
  /\ walk[i].at = "idle"
  /\ IF i = "recovery"
     THEN /\ storeLock = Nobody /\ storeLock' = i
          /\ walk' = [walk EXCEPT ![i] = [at |-> "next", digest |-> Nobody,
                                          todo |-> {Of[p] : p \in intents \cup published}]]
     ELSE /\ walk' = [walk EXCEPT ![i] = [at |-> "next", digest |-> Nobody,
                                          todo |-> {d \in Digest : blob[d] # "none"}]]
          /\ UNCHANGED storeLock
  /\ UNCHANGED <<store, flock, at, abandoned, reads, faults, cuts>>

Takes(i, d) ==
  /\ walk' = [walk EXCEPT ![i] = [at |-> "locked", todo |-> @.todo \ {d}, digest |-> d]]
  /\ UNCHANGED <<store, storeLock, at, abandoned, reads, faults, cuts>>

TakeDigestUnlocked(i) ==
  /\ walk[i].at = "next"
  /\ \E d \in walk[i].todo : Takes(i, d) /\ UNCHANGED flock

TakeDigest(i) ==
  /\ walk[i].at = "next"
  /\ \E d \in walk[i].todo : Locks(d, i) /\ Takes(i, d)

(* What an inspection finds for a digest; it reads the events again. *)
Pending(d) == {p \in intents \ published : Of[p] = d}
Orphaned(d) ==
  IF blob[d] # "none" /\ \A p \in published : Of[p] # d THEN {installer[d]} ELSE {}

Inspect(i) ==
  /\ walk[i].at = "locked"
  /\ LET d == walk[i].digest IN
       /\ abandoned' = abandoned \cup (IF i = "recovery" THEN Pending(d) ELSE Orphaned(d))
       /\ Unlocks(d)
  /\ walk' = [walk EXCEPT ![i].at = "next", ![i].digest = Nobody]
  /\ UNCHANGED <<store, storeLock, at, reads, faults, cuts>>

Close(i) ==
  /\ walk[i].at = "next" /\ walk[i].todo = {}
  /\ walk' = [walk EXCEPT ![i].at = "done"]
  /\ storeLock' = IF storeLock = i THEN Nobody ELSE storeLock
  /\ UNCHANGED <<store, flock, at, abandoned, reads, faults, cuts>>

Inspects(i) == TakeDigest(i) \/ Inspect(i) \/ Close(i)

(* The process of an inspection dies: the system gives up its locks. *)
InspectorDies(i) ==
  /\ walk[i].at \in {"next", "locked"} /\ Faulty
  /\ walk' = [walk EXCEPT ![i] = [Idle EXCEPT !.at = "done"]]
  /\ flock' = [d \in Digest |-> IF flock[d] = i THEN Nobody ELSE flock[d]]
  /\ storeLock' = IF storeLock = i THEN Nobody ELSE storeLock
  /\ UNCHANGED <<store, at, abandoned, reads, cuts>>

(***************************************************************************)
(* read_bytes, without a lock, and the authority for grants, whose calls   *)
(* are serialised by its own.                                              *)
(***************************************************************************)
Reads(r, s) == read' = [read EXCEPT ![r].at = s]
Unwritten == UNCHANGED <<store, flock, storeLock, at, walk, abandoned, faults, cuts>>

Look(r, g) ==
  /\ read[r].at = "new"
  /\ read' = [read EXCEPT ![r] = [grant |-> g,
                at |-> IF blob[For[g]] = "none" THEN "missing" ELSE "seen"]]
  /\ Unwritten /\ UNCHANGED grants

Load(r) ==
  /\ read[r].at = "seen"
  /\ Reads(r, IF \E p \in published : Of[p] = For[read[r].grant] THEN "loaded" ELSE "missing")
  /\ Unwritten /\ UNCHANGED grants

(* Variant: verify looks a binding up; without the deletion it serves again. *)
LookUp(r) ==
  /\ read[r].at = "loaded"
  /\ Reads(r, IF read[r].grant \in grants THEN "authorized" ELSE "denied")
  /\ Unwritten /\ UNCHANGED grants

Authorize(r) ==
  /\ read[r].at = "loaded"
  /\ Reads(r, IF read[r].grant \in grants THEN "authorized" ELSE "denied")
  /\ grants' = grants \ {read[r].grant}
  /\ Unwritten

ReadAndVerify(r) ==
  /\ read[r].at = "authorized"
  /\ Reads(r, IF blob[For[read[r].grant]] = "none" THEN "lost" ELSE "content")
  /\ Unwritten /\ UNCHANGED grants

Expire(g) == g \in grants /\ grants' = grants \ {g} /\ Unwritten /\ UNCHANGED read

(***************************************************************************)
(* A power cut ends every process; committed events and synced entries of  *)
(* the directory stay, the others may go.                                  *)
(***************************************************************************)
PowerCut ==
  /\ cuts < MaxCuts /\ cuts' = cuts + 1
  /\ \E gone \in SUBSET {d \in Digest : blob[d] = "linked"} :
       blob' = [d \in Digest |-> IF d \in gone THEN "none"
                                 ELSE IF blob[d] = "linked" THEN "synced" ELSE blob[d]]
  /\ at' = [p \in Publication |-> IF at[p] \in {"new", "done", "failed"} THEN at[p] ELSE "dead"]
  /\ walk' = [i \in Inspector |-> IF walk[i].at = "idle" THEN walk[i]
                                  ELSE [Idle EXCEPT !.at = "done"]]
  /\ read' = [r \in Reader |-> IF read[r].at = "new" THEN Unread ELSE [read[r] EXCEPT !.at =
                IF @ \in {"content", "lost", "missing", "denied"} THEN @ ELSE "denied"]]
  /\ flock' = [d \in Digest |-> Nobody] /\ storeLock' = Nobody /\ grants' = {}
  /\ UNCHANGED <<installer, intents, published, abandoned, faults>>

ArtifactNext ==
  \/ \E p \in Publication : Step(p) \/ Trouble(p)
  \/ \E i \in Inspector : Open(i) \/ Inspects(i) \/ InspectorDies(i)
  \/ \E r \in Reader : Load(r) \/ Authorize(r) \/ ReadAndVerify(r)
  \/ \E r \in Reader, g \in Grant : Look(r, g)
  \/ \E g \in Grant : Expire(g)
  \/ PowerCut

(* Processes go on until they die, and a lock that is free is given out: *)
(* every one of these steps is taken once at most, so that one condition *)
(* for all of them asks the same as one for each.                        *)
Progress == (\E p \in Publication : Step(p)) \/ (\E i \in Inspector : Inspects(i))

ArtifactSpec == ArtifactInit /\ [][ArtifactNext]_artifactVars /\ WF_artifactVars(Progress)

(***************************************************************************)
(* Properties                                                              *)
(***************************************************************************)
(* The bytes a publication linked itself are on disk, and not only in the  *)
(* directory, once its ArtifactPublished is durable: whatever fails or     *)
(* loses power, and whatever other publishers of the digest do.            *)
PublishedSurvive ==
  \A d \in Digest : installer[d] \in published => blob[d] = "synced"

(* The modules promise this of every publication (store.py:3-6).  One that *)
(* adopts the file of a publisher that died before it synced the directory *)
(* does not sync it: after a power cut its metadata has no bytes.          *)
RecordsHaveBlobs == \A p \in published : blob[Of[p]] # "none"

(* A publication that the recovery of a Run reports as pending, or whose   *)
(* file the inventory reports as an orphan, is over: its publisher is not  *)
(* between intent and metadata and will never append ArtifactPublished.    *)
ReportedAreOver == abandoned \cap published = {}

(* A reader that was authorized finds the bytes unless power was lost, and *)
(* no two reads were authorized by one grant.                              *)
Authorized == {r \in Reader : read[r].at \in {"authorized", "content", "lost"}}
ReadsAreServedOnce ==
  /\ cuts = 0 => \A r \in Reader : read[r].at # "lost"
  /\ \A r, s \in Authorized : read[r].grant = read[s].grant => r = s

(* A recovery that holds the write lock of the event store and waits for   *)
(* the lock of a digest ends, though the publisher that holds that lock    *)
(* waits for the write lock.                                               *)
RecoveryEnds == walk["recovery"].at \in {"next", "locked"} ~> walk["recovery"].at = "done"
=============================================================================
