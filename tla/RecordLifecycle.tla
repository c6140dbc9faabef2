--------------------------- MODULE RecordLifecycle ---------------------------
(***************************************************************************)
(* The life of records in one DWN: replicated delivery (dwn.ts), the       *)
(* RecordsWrite and RecordsDelete handlers, the storage controller and the *)
(* resumable tasks that carry a delete or a squash over a crash.           *)
(*                                                                         *)
(* Every write to a store is a step of its own, and a crash may fall       *)
(* between any two.  Messages are applied one at a time.  Data is large:   *)
(* it lives in the data store, one blob per record and data CID.  Messages *)
(* are well formed and authorized; of the indexes only isLatestBaseState   *)
(* is kept.                                                                *)
(***************************************************************************)
EXTENDS Integers, FiniteSets

CONSTANTS
  Records,     \* record ids
  ParentOf,    \* the parent of each record, or None
  Messages,    \* the RecordsWrite and RecordsDelete messages in circulation
  Dataless,    \* the records also delivered without data, as ancestry
  MaxCrashes,
  None

\* The (messageTimestamp, CID) order is total: ts is a message's place in it.  A
\* record id is computed from its one initial write.  Trees are two deep: only
\* roots are delivered as ancestry, and the children's path is the one with $squash.
ASSUME RecordAssumption ==
  /\ None \notin Records /\ ParentOf \in [Records -> Records \cup {None}]
  /\ \A r \in Records : ParentOf[r] # None => ParentOf[ParentOf[r]] = None
  /\ \A m \in Messages :
       /\ m.rec \in Records /\ m.ts \in Nat
       /\ {m.delete, m.initial, m.prune, m.squash} \subseteq BOOLEAN
       /\ m.initial => ~m.delete
       /\ m.squash => m.initial /\ ParentOf[m.rec] # None
  /\ \A m, n \in Messages : m.ts = n.ts => m = n
  /\ \A m, n \in Messages : m.initial /\ n.initial /\ m.rec = n.rec => m = n
  /\ Dataless \subseteq {r \in Records : ParentOf[r] = None}
  /\ IsFiniteSet(Messages)
  /\ MaxCrashes \in Nat
  /\ None \notin Messages

VARIABLES
  stored,   \* message rows
  latest,   \* the rows with isLatestBaseState
  blobs,    \* the data store: <<record, data CID>>
  tasks,    \* registered resumable tasks, each the message it is for
  up,       \* "down", "opening" or "open"
  resuming, \* the batch of tasks that open() is running
  job,      \* the message being applied, and how far it is
  settled,  \* history: messages answered Applied, Duplicate or Superseded
  crashes

vars == <<stored, latest, blobs, tasks, up, resuming, job, settled, crashes>>
rowVars == <<stored, latest>>
runVars == <<up, resuming, crashes>>

NoJob == [pc |-> "idle", msg |-> None, data |-> FALSE, todo |-> {}, rows |-> {}]
Idle == job.pc = "idle"

-----------------------------------------------------------------------------
Rows(r) == {m \in stored : m.rec = r}
WritesOf(S) == {m \in S : ~m.delete}
DeletesOf(S) == {m \in S : m.delete}
BlobOf(m) == <<m.rec, m.data>>

\* Message.getNewestMessage, of a nonempty set and as a set, empty for undefined.
Newest(S) == CHOOSE m \in S : \A n \in S : n.ts <= m.ts
NewestRow(r) == {m \in Rows(r) : \A n \in Rows(r) : n.ts <= m.ts}

HasInitial(r) == \E m \in Rows(r) : m.initial
Pruned(r) == \E m \in Rows(r) : m.delete /\ m.prune

\* Mutant: a pruned parent still counts as found.
ParentFoundPruned(r) == ParentOf[r] = None \/ HasInitial(ParentOf[r])

\* verifyModulePathAndContextId: a child needs its parent, not pruned.
ParentFound(r) ==
  ParentOf[r] = None \/ (HasInitial(ParentOf[r]) /\ ~Pruned(ParentOf[r]))

Siblings(r) == {s \in Records \ {r} : ParentOf[s] = ParentOf[r]}

\* enforceSquashBackstop: a latest squash of the path at or after the message.
BelowSquash(m) ==
  /\ ParentOf[m.rec] # None
  /\ \E s \in latest : s.squash /\ s.rec \in Siblings(m.rec) \cup {m.rec} /\ m.ts <= s.ts

\* Mutant: tombstones are ordered by time alone.
BeatenByTime(m, newest) == newest.delete /\ m.ts <= newest.ts

\* Records.isDeleteBeatenByExistingTombstone
Beaten(m, newest) ==
  /\ newest.delete
  /\ IF m.prune # newest.prune THEN newest.prune ELSE m.ts <= newest.ts

\* The referential checks a write passes before it is compared with the record.
WriteInPlace(m) ==
  /\ m.initial \/ HasInitial(m.rec)
  /\ ParentFound(m.rec)
IsNewest(m) == \A n \in Rows(m.rec) : n.ts < m.ts
AfterDelete(m) == \E n \in NewestRow(m.rec) : n.delete

\* processMessageWithoutDataStream: the data must be that of the newest row, and
\* stored; an initial write needs none.
DataAtHand(m) ==
  \/ m.initial
  \/ \E n \in NewestRow(m.rec) : n.data = m.data /\ BlobOf(m) \in blobs

\* handleExistingRecordsWrite: only a sole initial write without data is completed.
Completable(m) == m.initial /\ Rows(m.rec) = {m} /\ BlobOf(m) \notin blobs
LatestOf(r) == {m \in latest : m.rec = r}

-----------------------------------------------------------------------------
Init ==
  /\ stored = {} /\ latest = {} /\ blobs = {} /\ tasks = {}
  /\ up = "open" /\ resuming = {} /\ job = NoJob
  /\ settled = {} /\ crashes = 0

Start(m, withData, pc) ==
  job' = [NoJob EXCEPT !.pc = pc, !.msg = m, !.data = withData]
Goto(pc) == job' = [job EXCEPT !.pc = pc]
Settle(m) == settled' = settled \cup {m}

\* A message can arrive with its data, and as ancestry without; a delete has none.
Arrives(m, withData) ==
  /\ up = "open" /\ Idle
  /\ IF m.delete THEN ~withData ELSE withData \/ ~m.initial \/ m.rec \in Dataless

\* applyReplicatedMessage of a stored message: a delete, and a write that is
\* materialized or that the handler cannot complete, is a Duplicate.  A stored
\* write whose data is gone is Deferred, and changes nothing.
AnswerDuplicate(m, withData) ==
  /\ Arrives(m, withData)
  /\ m \in stored /\ (m.delete \/ withData)
  /\ \/ m.delete
     \/ LatestOf(m.rec) = {m} /\ BlobOf(m) \in blobs
     \/ LatestOf(m.rec) = {} /\ m.initial /\ ~Completable(m)
     \/ LatestOf(m.rec) \notin {{}, {m}}
  /\ Settle(m)
  /\ UNCHANGED <<rowVars, blobs, tasks, runVars, job>>

\* A conflict, a write under a pruned parent or a beaten delete is Superseded.
AnswerSuperseded(m, withData) ==
  /\ Arrives(m, withData) /\ m \notin stored
  /\ IF m.delete
     THEN \E n \in NewestRow(m.rec) : Beaten(m, n)
     ELSE /\ m.initial \/ HasInitial(m.rec)
          /\ \/ ParentOf[m.rec] # None /\ Pruned(ParentOf[m.rec])
             \/ ParentFound(m.rec) /\ (BelowSquash(m) \/ ~IsNewest(m))
  /\ Settle(m)
  /\ UNCHANGED <<rowVars, blobs, tasks, runVars, job>>

\* storeReplicatedWriteBeatenByDelete: kept, but never as the latest state.
StoreBeatenWrite(m, withData) ==
  /\ Arrives(m, withData) /\ m \notin stored /\ ~m.delete
  /\ WriteInPlace(m) /\ ~BelowSquash(m) /\ IsNewest(m) /\ AfterDelete(m)
  /\ HasInitial(m.rec)
  /\ \/ withData
     \/ m.data = Newest(WritesOf(Rows(m.rec))).data /\ BlobOf(m) \in blobs
  /\ stored' = stored \cup {m}
  /\ Settle(m)
  /\ UNCHANGED <<latest, blobs, tasks, runVars, job>>

AcceptWrite(m, withData) ==
  /\ Arrives(m, withData) /\ m \notin stored /\ ~m.delete
  /\ WriteInPlace(m) /\ ~BelowSquash(m) /\ IsNewest(m) /\ ~AfterDelete(m)
  /\ withData \/ DataAtHand(m)
  /\ Start(m, withData, IF withData THEN "put" ELSE "commit")
  /\ UNCHANGED <<rowVars, blobs, tasks, runVars, settled>>

\* The data of an initial write stored as ancestry arrives.
AcceptCompletion(m) ==
  /\ Arrives(m, TRUE) /\ m \in stored \ latest /\ Completable(m)
  /\ Start(m, TRUE, "put")
  /\ UNCHANGED <<rowVars, blobs, tasks, runVars, settled>>

\* The RecordsDelete handler up to the task it runs.
AcceptDelete(m) ==
  /\ Arrives(m, FALSE) /\ m \notin stored /\ m.delete
  /\ \E n \in NewestRow(m.rec) : ~Beaten(m, n)
  /\ HasInitial(m.rec)
  /\ Start(m, FALSE, "register")
  /\ UNCHANGED <<rowVars, blobs, tasks, runVars, settled>>

-----------------------------------------------------------------------------
\* processMessageWithDataStream: the data is stored before the row.
PutData ==
  /\ job.pc = "put"
  /\ blobs' = blobs \cup {BlobOf(job.msg)}
  /\ Goto(IF job.msg \in stored THEN "complete" ELSE "commit")
  /\ UNCHANGED <<rowVars, tasks, runVars, settled>>

\* completeData, which no other row of the record can have overtaken here.
CompleteData ==
  /\ job.pc = "complete"
  /\ latest' = latest \cup {job.msg}
  /\ job' = NoJob
  /\ Settle(job.msg)
  /\ UNCHANGED <<stored, blobs, tasks, runVars>>

\* Mutant: the data of every displaced write.
UnsharedAny(m, displaced) == {BlobOf(d) : d \in WritesOf(displaced)}

\* deleteFromDataStoreIfNeeded: the data of displaced writes that the new
\* message does not share.
Unshared(m, displaced) == {BlobOf(d) : d \in {e \in WritesOf(displaced) : e.data # m.data}}

\* commitLatestStateTransition: m becomes the latest state, retained writes stay
\* as rows, every other row of the record goes; their data is deleted later.
CommitLatest(m, retained, isLatest) ==
  LET displaced == Rows(m.rec) \ {m}
  IN  /\ stored' = (stored \ (displaced \ retained)) \cup {m}
      /\ latest' = (latest \ displaced) \cup (IF isLatest THEN {m} ELSE {})
      /\ job' = [job EXCEPT !.pc = "clean", !.todo = Unshared(m, displaced)]

CommitWrite ==
  /\ job.pc = "commit"
  /\ CommitLatest(job.msg, {m \in Rows(job.msg.rec) : m.initial},
                  job.data \/ ~job.msg.initial)
  /\ UNCHANGED <<blobs, tasks, runVars, settled>>

DeleteDisplacedData ==
  /\ job.pc = "clean" /\ job.todo # {}
  /\ \E b \in job.todo :
       /\ blobs' = blobs \ {b}
       /\ job' = [job EXCEPT !.todo = @ \ {b}]
  /\ UNCHANGED <<rowVars, tasks, runVars, settled>>

\* The handler of a write that is no squash answers.  An initial write stored
\* as ancestry is answered 204: its data is still to come.
FinishWrite ==
  /\ job.pc = "clean" /\ job.todo = {} /\ ~job.msg.delete /\ ~job.msg.squash
  /\ settled' = IF job.data \/ ~job.msg.initial THEN settled \cup {job.msg} ELSE settled
  /\ job' = NoJob
  /\ UNCHANGED <<rowVars, blobs, tasks, runVars>>

-----------------------------------------------------------------------------
\* ResumableTaskManager.run: register, then perform.  A squash is registered
\* once its own row is committed.
RegisterTask ==
  /\ \/ job.pc = "register"
     \/ job.pc = "clean" /\ job.todo = {} /\ job.msg.squash
  /\ tasks' = tasks \cup {job.msg}
  /\ Goto("perform")
  /\ UNCHANGED <<rowVars, blobs, runVars, settled>>

\* performRecordsDelete finds nothing to do.
SkipDelete ==
  /\ job.pc = "perform" /\ job.msg.delete
  /\ \A n \in NewestRow(job.msg.rec) : Beaten(job.msg, n)
  /\ Goto("unregister")
  /\ UNCHANGED <<rowVars, blobs, tasks, runVars, settled>>

\* The initial write and the newest write are retained under the tombstone.
CommitDelete ==
  /\ job.pc = "perform" /\ job.msg.delete
  /\ \E n \in NewestRow(job.msg.rec) : ~Beaten(job.msg, n)
  /\ HasInitial(job.msg.rec)
  /\ CommitLatest(job.msg,
                  LET writes == WritesOf(Rows(job.msg.rec))
                  IN  {m \in writes : m.initial \/ m = Newest(writes)}, TRUE)
  /\ UNCHANGED <<blobs, tasks, runVars, settled>>

\* purgeRecordDescendants: the children with rows.
PurgeDescendants ==
  /\ job.pc = "clean" /\ job.todo = {} /\ job.msg.delete
  /\ job' = [job EXCEPT
       !.pc = "purge",
       !.todo = IF job.msg.prune
                THEN {r \in Records : ParentOf[r] = job.msg.rec /\ Rows(r) # {}}
                ELSE {}]
  /\ UNCHANGED <<rowVars, blobs, tasks, runVars, settled>>

\* performRecordsSquash: the siblings whose newest row is older.
SquashTargets(m) ==
  {r \in Siblings(m.rec) : Rows(r) # {} /\ Newest(Rows(r)).ts < m.ts}

PerformSquash ==
  /\ job.pc = "perform" /\ job.msg.squash
  /\ job' = [job EXCEPT !.pc = "purge", !.todo = SquashTargets(job.msg)]
  /\ UNCHANGED <<rowVars, blobs, tasks, runVars, settled>>

\* purgeRecordMessages: the data of the newest write, then the rows, in any order.
PurgeData(r) ==
  /\ job.pc = "purge" /\ r \in job.todo /\ WritesOf(Rows(r)) # {}
  /\ blobs' = blobs \ {BlobOf(Newest(WritesOf(Rows(r))))}
  /\ job' = [job EXCEPT !.pc = "rows", !.todo = @ \ {r}, !.rows = Rows(r)]
  /\ UNCHANGED <<rowVars, tasks, runVars, settled>>

PurgeRow ==
  /\ job.pc = "rows"
  /\ \E m \in job.rows :
       /\ stored' = stored \ {m}
       /\ latest' = latest \ {m}
       /\ job' = [job EXCEPT !.rows = @ \ {m},
                             !.pc = IF job.rows = {m} THEN "purge" ELSE "rows"]
  /\ UNCHANGED <<blobs, tasks, runVars, settled>>

\* performRecordsDelete without an initial write, or purgeRecordMessages without
\* a write, throws: the task stays, and open() tries it again.
TaskThrows ==
  /\ \/ /\ job.pc = "perform" /\ job.msg.delete
        /\ \E n \in NewestRow(job.msg.rec) : ~Beaten(job.msg, n)
        /\ ~HasInitial(job.msg.rec)
     \/ job.pc = "purge" /\ \E r \in job.todo : WritesOf(Rows(r)) = {}
  /\ job' = NoJob
  /\ UNCHANGED <<rowVars, blobs, tasks, runVars, settled>>

UnregisterTask ==
  /\ job.pc = "unregister" \/ (job.pc = "purge" /\ job.todo = {})
  /\ tasks' = tasks \ {job.msg}
  /\ resuming' = resuming \ {job.msg}
  /\ job' = NoJob
  /\ Settle(job.msg)
  /\ UNCHANGED <<rowVars, blobs, up, crashes>>

-----------------------------------------------------------------------------
Crash ==
  /\ up # "down" /\ crashes < MaxCrashes
  /\ crashes' = crashes + 1
  /\ up' = "down" /\ resuming' = {} /\ job' = NoJob
  /\ UNCHANGED <<rowVars, blobs, tasks, settled>>

Open ==
  /\ up = "down"
  /\ up' = "opening"
  /\ UNCHANGED <<rowVars, blobs, tasks, resuming, job, settled, crashes>>

\* resumeTasksAndWaitForCompletion: a batch of the tasks that have timed out, or
\* none and the DWN is open.
GrabTasks(batch) ==
  /\ up = "opening" /\ Idle /\ resuming = {}
  /\ resuming' = batch
  /\ up' = IF batch = {} THEN "open" ELSE up
  /\ UNCHANGED <<rowVars, blobs, tasks, job, settled, crashes>>

ResumeTask(m) ==
  /\ up = "opening" /\ Idle /\ m \in resuming
  /\ Start(m, FALSE, "perform")
  /\ UNCHANGED <<rowVars, blobs, tasks, runVars, settled>>

Next ==
  \/ \E m \in Messages, withData \in BOOLEAN :
       \/ AnswerDuplicate(m, withData) \/ AnswerSuperseded(m, withData)
       \/ StoreBeatenWrite(m, withData) \/ AcceptWrite(m, withData)
  \/ \E m \in Messages : AcceptCompletion(m) \/ AcceptDelete(m)
  \/ PutData \/ CompleteData \/ CommitWrite \/ DeleteDisplacedData \/ FinishWrite
  \/ RegisterTask \/ SkipDelete \/ CommitDelete \/ PurgeDescendants \/ PerformSquash
  \/ \E r \in Records : PurgeData(r)
  \/ PurgeRow \/ TaskThrows \/ UnregisterTask
  \/ Crash \/ Open
  \/ \E batch \in SUBSET tasks : GrabTasks(batch)
  \/ \E m \in resuming : ResumeTask(m)

Spec == Init /\ [][Next]_vars
-----------------------------------------------------------------------------
(* Properties *)

Job ==
  [pc : {"idle", "put", "commit", "complete", "clean", "register", "perform", "purge",
         "rows", "unregister"},
   msg : Messages \cup {None}, data : BOOLEAN,
   todo : SUBSET (Records \cup {BlobOf(m) : m \in Messages}), rows : SUBSET Messages]

\* The variables have their types.
TypeOK ==
  /\ stored \subseteq Messages /\ latest \subseteq stored
  /\ blobs \subseteq {BlobOf(m) : m \in Messages}
  /\ tasks \subseteq {m \in Messages : m.delete \/ m.squash}
  /\ up \in {"down", "opening", "open"} /\ resuming \subseteq tasks
  /\ job \in Job
  /\ settled \subseteq Messages /\ crashes \in 0..MaxCrashes

Quiet == up = "open" /\ Idle /\ tasks = {}

\* What the DWN has been told of a record.
Known(r) == {m \in settled \cup stored \cup tasks : m.rec = r}

\* The tombstone lattice: a prune before a plain delete, then the newest.
Winner(deletes) ==
  LET prunes == {d \in deletes : d.prune}
  IN  IF prunes # {} THEN Newest(prunes) ELSE Newest(deletes)

\* The latest state every replica should reach from the same messages: the
\* winning tombstone, or else the newest write, unless that is ancestry whose
\* data has not come.
Expected(r) ==
  LET known == Known(r)
      writes == WritesOf(known)
  IN  IF DeletesOf(known) # {} THEN {Winner(DeletesOf(known))}
      ELSE {w \in writes : w = Newest(writes) /\ w \in settled \cup latest}

\* A write newer than a tombstone of its record.
NewerWrite(r) ==
  \E w \in WritesOf(Known(r)), d \in DeletesOf(Known(r)) : w.ts > d.ts

\* An initial write whose data was stored, and whose row was not completed.
Stranded(r) == \E m \in stored : Rows(r) = {m} /\ m \notin latest /\ BlobOf(m) \in blobs

\* Convergence: whatever the order, the duplicates, the data that came late and
\* the crashes, a root record ends in the state that its messages alone decide
\* (records-delete.ts, "makes both arrival orders reach the same terminal
\* state").  Excluded are the two cases in which the code does not: a write
\* newer than a tombstone, and a crash before the completion of ancestry.
Convergence ==
  \A r \in Records :
    Quiet /\ ParentOf[r] = None /\ ~NewerWrite(r) /\ ~Stranded(r)
      => LatestOf(r) = Expected(r)

\* The record was pruned, though a write newer than the tombstone may have
\* displaced it since.
PruneTold(r) ==
  Pruned(r) \/ (NewerWrite(r) /\ \E d \in DeletesOf(Known(r)) : d.prune)

\* A purge of the record may have begun: of its parent's descendants, or by a
\* squash newer than its rows.
PurgeBegun(r) ==
  \/ ParentOf[r] # None /\ PruneTold(ParentOf[r])
  \/ \E s \in stored : s.squash /\ r \in Siblings(s.rec) /\ \A n \in Rows(r) : n.ts < s.ts

\* A write in the latest state has its data, at every crash too
\* (commitLatestStateTransition: "never a live row whose data is gone"), unless
\* a purge has begun to remove it.
LiveRowHasData ==
  /\ TypeOK
  /\ \A m \in latest : m.delete \/ BlobOf(m) \in blobs \/ PurgeBegun(m.rec)

\* No record has rows under a pruned parent.
Cascaded == \A r \in Records : ParentOf[r] # None /\ Pruned(ParentOf[r]) => Rows(r) = {}

\* With no crash, nothing is left under a pruned parent and no write in the
\* latest state is older than a squash of its path, once the messages are
\* answered (records-write.ts, "no record older than the latest squash can exist").
SettledTree ==
  crashes = 0 /\ Quiet =>
    /\ Cascaded
    /\ \A w \in WritesOf(latest), s \in latest :
         s.squash /\ w.rec \in Siblings(s.rec) => s.ts < w.ts

\* After crashes too the cascade is done, once every task has been resumed: what
\* resumable tasks are for (resumable-task-manager.ts, "so that it can be resumed").
CascadeSurvivesCrash == Quiet => Cascaded

\* A tombstone displaces any write, and no write comes back after it
\* (records-delete.ts, the tombstone lattice): convergence with newer writes.
DeleteWins ==
  \A r \in Records :
    Quiet /\ ParentOf[r] = None /\ DeletesOf(Known(r)) # {} => LatestOf(r) = Expected(r)

=============================================================================
