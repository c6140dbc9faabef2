----------------------- MODULE RecordLifecycleProofs ------------------------
(***************************************************************************)
(* Machine-checked theorems about RecordLifecycle, for every set of        *)
(* records and messages and any number of crashes.                         *)
(*                                                                         *)
(* None of the properties is inductive: between two store writes a record  *)
(* is in a state that only the handler, the task or the purge in flight    *)
(* accounts for.  RecordInv says what each of them relies on (WriteInv,    *)
(* CleanInv, TaskInv), how the rows of a record stand to each other        *)
(* (RowInv), what a root record owes to its messages (RootInv), what       *)
(* excuses a missing blob (DataInv), and, without a crash, what is still   *)
(* to be purged (TreeInv).                                                 *)
(***************************************************************************)
EXTENDS RecordLifecycle, FiniteSetTheorems, TLAPS

Root(r) == ParentOf[r] = None

\* A job is at work on a message.
ControlInv ==
  /\ TypeOK
  /\ IF job.pc = "idle" THEN job.msg = None ELSE job.msg \in Messages

\* A new write may take the latest state, or a sole initial write may be
\* completed.
WriteReady(m) ==
  m \notin stored /\ IsNewest(m) /\ ~AfterDelete(m) /\ WriteInPlace(m) /\ ~BelowSquash(m)
SoleRow(m) == m.initial /\ Rows(m.rec) = {m} /\ m \notin latest

WriteInv ==
  /\ job.pc \in {"put", "commit", "complete"} => ~job.msg.delete
  /\ job.pc = "put" => job.data /\ (WriteReady(job.msg) \/ SoleRow(job.msg))
  /\ job.pc = "commit" =>
       /\ WriteReady(job.msg)
       /\ IF job.msg.initial /\ ~job.data THEN job.msg.rec \in Dataless
                                          ELSE BlobOf(job.msg) \in blobs
  /\ job.pc = "complete" => SoleRow(job.msg) /\ BlobOf(job.msg) \in blobs

\* The message is committed, and what is left to delete is not its data.
CleanInv ==
  job.pc = "clean" =>
    /\ job.msg \in stored /\ LatestOf(job.msg.rec) \subseteq {job.msg}
    /\ job.msg.delete => job.msg \in tasks
    /\ job.msg.delete \/ job.data \/ ~job.msg.initial => job.msg \in latest
    /\ \A b \in job.todo :
         \E m \in Messages : b = BlobOf(m) /\ m.rec = job.msg.rec /\ m.data # job.msg.data

\* What the purge of a message removes.
Target(m, r) ==
  /\ ~Root(r)
  /\ IF m.delete THEN m.prune /\ ParentOf[r] = m.rec
                 ELSE r \in Siblings(m.rec) /\ \A n \in Rows(r) : n.ts < m.ts

TaskInv ==
  /\ job.pc = "register" => job.msg.delete /\ HasInitial(job.msg.rec)
  /\ job.pc \in {"perform", "purge", "rows", "unregister"} => job.msg \in tasks
  /\ job.pc = "unregister" =>
       job.msg.delete /\ \A n \in NewestRow(job.msg.rec) : Beaten(job.msg, n)
  /\ job.pc \in {"purge", "rows"} =>
       /\ job.msg.delete => job.msg \in latest
       /\ \A r \in job.todo : r \in Records /\ Target(job.msg, r) /\ Rows(r) # {}
  /\ job.pc = "rows" =>
       /\ job.rows # {}
       /\ \E r \in Records \ job.todo : Target(job.msg, r) /\ job.rows = Rows(r)

\* A stored tombstone was settled or has its task; a record has one row as its
\* latest state, and a write in the latest state is the newest row.
RowInv ==
  /\ \A d \in DeletesOf(stored) : d \in tasks \cup settled
  /\ \A m, n \in latest : m.rec = n.rec => m = n
  /\ \A w \in WritesOf(latest) : \A n \in Rows(w.rec) : n.ts <= w.ts

\* The initial write of a root record stays.
RootKnown == \A m \in settled \cup tasks \cup stored : Root(m.rec) => HasInitial(m.rec)

\* A record without a tombstone: nothing newer than its rows was settled, and it
\* has a latest state unless it is ancestry.
Undeleted(r) ==
  /\ \A m \in settled : m.rec = r => ~m.delete /\ \E n \in Rows(r) : m.ts <= n.ts
  /\ LatestOf(r) = {} =>
       \A m \in Rows(r) : SoleRow(m) /\ (m \in settled => BlobOf(m) \in blobs)

\* The tombstone is the latest state and beats every settled one.
Deleted(r, d) ==
  LatestOf(r) = {d} /\ \A e \in settled : e.rec = r /\ e.delete => Beaten(e, d)

RootSound(r) ==
  IF DeletesOf(Rows(r)) = {} THEN Undeleted(r)
                             ELSE \A d \in DeletesOf(Rows(r)) : Deleted(r, d)
RootInv == \A r \in Records : Root(r) /\ ~NewerWrite(r) => RootSound(r)

\* A squash that may purge is, or was, followed by one as new, or its parent was
\* pruned.
Floored(m) ==
  \/ PruneTold(ParentOf[m.rec])
  \/ \E s \in stored : s.squash /\ ParentOf[s.rec] = ParentOf[m.rec] /\ m.ts <= s.ts

DataInv ==
  /\ \A m \in latest : m.delete \/ BlobOf(m) \in blobs \/ PurgeBegun(m.rec)
  /\ \A m \in tasks : m.squash => Floored(m)

\* The rows of a record are being removed.
Purging(r) == job.pc = "rows" /\ \E m \in job.rows : m.rec = r
StillToPurge(r) == job.pc \in {"purge", "rows"} /\ r \in job.todo

TreeInv ==
  crashes = 0 =>
    /\ up = "open" /\ tasks \subseteq {job.msg}
    /\ job.pc = "perform" /\ job.msg.delete => HasInitial(job.msg.rec)
    /\ \A r \in Records : Rows(r) # {} /\ ~Purging(r) =>
         /\ HasInitial(r)
         /\ ~Root(r) => LatestOf(r) # {}
         /\ ~Root(r) /\ Pruned(ParentOf[r]) =>
              /\ job.msg.delete /\ job.msg.prune /\ job.msg.rec = ParentOf[r]
              /\ job.pc = "clean" \/ StillToPurge(r)
    /\ \A w \in WritesOf(latest), s \in latest :
         s.squash /\ w.rec \in Siblings(s.rec) /\ w.ts <= s.ts /\ ~Purging(w.rec) =>
           job.msg = s /\ (job.pc \in {"clean", "perform"} \/ StillToPurge(w.rec))

RecordInv ==
  /\ ControlInv /\ WriteInv /\ CleanInv /\ TaskInv
  /\ RowInv /\ RootKnown /\ RootInv /\ DataInv /\ TreeInv

-----------------------------------------------------------------------------
(* Messages and their order. *)

LEMMA Message ==
  ASSUME NEW m \in Messages
  PROVE  /\ m.rec \in Records /\ m.ts \in Nat /\ m # None
         /\ m.delete \in BOOLEAN /\ m.initial \in BOOLEAN /\ m.prune \in BOOLEAN
         /\ m.squash \in BOOLEAN
         /\ m.initial => ~m.delete
         /\ m.squash => m.initial /\ ~Root(m.rec)
  BY RecordAssumption, Zenon DEF Root

\* Two messages never share their place in the order, and a record has one
\* initial write.
LEMMA Distinct ==
  /\ \A m, n \in Messages : m.ts = n.ts => m = n
  /\ \A m, n \in Messages : m.initial /\ n.initial /\ m.rec = n.rec => m = n
  BY RecordAssumption, Zenon

LEMMA Parents ==
  ASSUME NEW r \in Records, ~Root(r)
  PROVE  ParentOf[r] \in Records /\ Root(ParentOf[r]) /\ ParentOf[r] # r
  BY RecordAssumption, Zenon DEF Root

\* Finitely many messages have a newest one.
LEMMA NewestIs ==
  ASSUME NEW S, S \subseteq Messages, S # {}
  PROVE  Newest(S) \in S /\ \A n \in S : n.ts <= Newest(S).ts
<1> DEFINE Above(m) == {n \in Messages : m.ts < n.ts}
           T == {Above(m) : m \in S}
<1>1. IsFiniteSet(Messages)
  BY RecordAssumption
<1>2. ASSUME NEW m \in Messages PROVE IsFiniteSet(Above(m)) /\ Above(m) \in SUBSET Messages
  BY <1>1, FS_Subset
<1>3. T \subseteq FiniteSubsetsOf(Messages) /\ T # {}
  BY <1>2, Zenon DEF FiniteSubsetsOf
<1>4. PICK x \in T : \A y \in T : <<y, x>> \notin StrictSubsetOrdering(Messages)
  BY <1>3, FS_StrictSubsetOrderingWellFounded, WFMin, Zenon
<1>5. PICK m \in S : x = Above(m)
  BY <1>4
<1>6. \A n \in S : n.ts <= m.ts
  <2> SUFFICES ASSUME NEW n \in S, ~(n.ts <= m.ts) PROVE FALSE
    OBVIOUS
  <2>1. m.ts \in Nat /\ n.ts \in Nat /\ m.ts < n.ts
    BY Message
  <2>2. n \in Above(m) /\ n \notin Above(n) /\ Above(n) \subseteq Above(m)
    BY <2>1, Message
  <2>3. Above(n) \in T /\ Above(n) \in SUBSET Messages /\ x \in SUBSET Messages
    BY <1>2, <1>5
  <2> QED
    BY <1>4, <1>5, <2>2, <2>3, Zenon DEF StrictSubsetOrdering
<1> QED
  BY <1>6 DEF Newest

\* The tombstone lattice is an order.
LEMMA BeatenTransitive ==
  ASSUME NEW k \in Messages, NEW m \in Messages, NEW n \in Messages,
         Beaten(k, m), Beaten(m, n)
  PROVE  Beaten(k, n)
  BY Message DEF Beaten

\* The newest row of a record, as NewestRow gives it.
LEMMA NewestRowIs ==
  ASSUME ControlInv, NEW r, NEW m \in stored, m.rec = r, \A n \in Rows(r) : n.ts <= m.ts
  PROVE  NewestRow(r) = {m}
<1>1. m \in Rows(r) /\ m \in Messages /\ \A n \in Rows(r) : n \in Messages
  BY Zenon DEF Rows, ControlInv, TypeOK
<1>2. \A n \in Rows(r) : m.ts <= n.ts => n = m
  BY <1>1, Message, Distinct
<1> QED
  BY <1>1, <1>2, Zenon DEF NewestRow

-----------------------------------------------------------------------------
(* What a step leaves alone. *)

\* Nothing that was told is forgotten: a write newer than a tombstone stays one,
\* and so does a prune.
LEMMA ToldStays ==
  ASSUME NEW r, settled \subseteq settled', stored \subseteq stored',
         tasks \subseteq tasks' \cup settled'
  PROVE  /\ NewerWrite(r) => NewerWrite(r)'
         /\ Pruned(r) => Pruned(r)'
         /\ PruneTold(r) => PruneTold(r)'
<1>1. Known(r) \subseteq Known(r)'
  BY Zenon DEF Known
<1>2. NewerWrite(r) => NewerWrite(r)'
  BY <1>1, Zenon DEF NewerWrite, WritesOf, DeletesOf
<1>3. Pruned(r) => Pruned(r)'
  BY Zenon DEF Pruned, Rows
<1> QED
  BY <1>1, <1>2, <1>3, Zenon DEF PruneTold, DeletesOf

\* A root record whose rows and answers stay is as sound as before.
LEMMA RootUntouched ==
  ASSUME NEW r, Root(r), ~NewerWrite(r) => RootSound(r), NewerWrite(r) => NewerWrite(r)',
         Rows(r)' = Rows(r), LatestOf(r)' = LatestOf(r),
         \A m : m.rec = r => (m \in settled' <=> m \in settled),
         \A m \in Rows(r) : SoleRow(m) /\ BlobOf(m) \in blobs => BlobOf(m) \in blobs'
  PROVE  ~NewerWrite(r)' => RootSound(r)'
<1> SUFFICES ASSUME ~NewerWrite(r)' PROVE RootSound(r)'
  BY Zenon
<1>1. RootSound(r)
  BY Zenon
<1>2. ASSUME NEW m \in Rows(r) PROVE SoleRow(m) => SoleRow(m)'
  BY Zenon DEF SoleRow, LatestOf, Rows
<1>3. CASE DeletesOf(Rows(r)) = {}
  <2>1. Undeleted(r)
    BY <1>1, <1>3, Zenon DEF RootSound
  <2>2. Undeleted(r)'
    BY <1>2, <2>1, Zenon DEF Undeleted, Rows
  <2> QED
    BY <1>3, <2>2, Zenon DEF RootSound, DeletesOf
<1>4. CASE DeletesOf(Rows(r)) # {}
  <2>1. \A d \in DeletesOf(Rows(r)) : Deleted(r, d)
    BY <1>1, <1>4, Zenon DEF RootSound
  <2>2. \A d \in DeletesOf(Rows(r)) : Deleted(r, d)'
    BY <2>1, Zenon DEF Deleted, Beaten
  <2> QED
    BY <1>4, <2>2, Zenon DEF RootSound, DeletesOf
<1> QED
  BY <1>3, <1>4, Zenon

\* With no job there is nothing to rely on.
LEMMA JobOver ==
  /\ job'.pc = "idle" => WriteInv' /\ CleanInv' /\ TaskInv'
  /\ job' = NoJob => job'.pc = "idle" /\ job'.msg = None /\ job' \in Job
<1>1. job'.pc = "idle" => WriteInv' /\ CleanInv' /\ TaskInv'
  BY Zenon DEF WriteInv, CleanInv, TaskInv
<1>2. job' = NoJob => job'.pc = "idle" /\ job'.msg = None /\ job' \in Job
  BY DEF NoJob, Job
<1> QED
  BY <1>1, <1>2, Zenon

\* A step that writes to no store and answers nothing.
LEMMA StoresKept ==
  ASSUME RecordInv, UNCHANGED <<stored, latest, blobs, tasks, settled>>
  PROVE  RowInv' /\ RootKnown' /\ RootInv' /\ DataInv'
<1>1. RowInv' /\ RootKnown'
  BY Zenon DEF RecordInv, RowInv, RootKnown, DeletesOf, WritesOf, Rows, HasInitial
<1>2. ASSUME NEW r PROVE /\ NewerWrite(r)' <=> NewerWrite(r)
                         /\ Pruned(r)' <=> Pruned(r)
                         /\ PruneTold(r)' <=> PruneTold(r)
                         /\ Rows(r)' = Rows(r) /\ LatestOf(r)' = LatestOf(r)
  BY Zenon DEF NewerWrite, Pruned, PruneTold, Rows, LatestOf, Known, WritesOf, DeletesOf
<1>3. RootInv'
  BY <1>2, RootUntouched, Zenon DEF RecordInv, RootInv
<1>4. \A r : PurgeBegun(r)' <=> PurgeBegun(r)
  BY <1>2, Zenon DEF PurgeBegun, Siblings
<1>5. \A m : Floored(m)' <=> Floored(m)
  BY <1>2, Zenon DEF Floored
<1>6. DataInv'
  BY <1>4, <1>5, Zenon DEF RecordInv, DataInv, BlobOf
<1> QED
  BY <1>1, <1>3, <1>6, Zenon

\* Without a crash, nothing is left to purge.
TreeSettled ==
  /\ \A r \in Records : Rows(r) # {} =>
       HasInitial(r) /\ (~Root(r) => LatestOf(r) # {} /\ ~Pruned(ParentOf[r]))
  /\ \A w \in WritesOf(latest), s \in latest :
       s.squash /\ w.rec \in Siblings(s.rec) => s.ts < w.ts

\* So it is unless a commit, a squash or a purge is in flight.
NothingLeft ==
  \/ job.pc \in {"idle", "put", "commit", "complete", "register", "unregister"}
  \/ job.pc = "perform" /\ job.msg.delete
  \/ job.pc = "clean" /\ ~job.msg.delete /\ ~job.msg.squash
  \/ job.pc = "purge" /\ job.todo = {}

LEMMA Settled ==
  ASSUME RecordInv, crashes = 0, NothingLeft
  PROVE  TreeSettled /\ up = "open" /\ tasks \subseteq {job.msg}
<1>1. up = "open" /\ tasks \subseteq {job.msg}
  BY Zenon DEF RecordInv, TreeInv
<1>2. \A r : ~Purging(r) /\ ~StillToPurge(r)
  BY Zenon DEF Purging, StillToPurge, NothingLeft
<1>3. ASSUME NEW r \in Records, Rows(r) # {}
      PROVE  HasInitial(r) /\ (~Root(r) => LatestOf(r) # {} /\ ~Pruned(ParentOf[r]))
  BY <1>1, <1>2, <1>3, Zenon DEF RecordInv, TreeInv, NothingLeft
<1>4. ASSUME NEW w \in WritesOf(latest), NEW s \in latest, s.squash, w.rec \in Siblings(s.rec)
      PROVE  s.ts < w.ts
  <2>1. w \in Messages /\ s \in Messages
    BY Zenon DEF RecordInv, ControlInv, TypeOK, WritesOf
  <2>2. ~(w.ts <= s.ts)
    BY <1>1, <1>2, <1>4, <2>1, Message, Zenon DEF RecordInv, TreeInv, NothingLeft
  <2> QED
    BY <2>1, <2>2, Message
<1> QED
  BY <1>1, <1>3, <1>4, Zenon DEF TreeSettled

\* A step that changes no row then leaves nothing to purge.
LEMMA SettledStays ==
  ASSUME RecordInv, UNCHANGED <<stored, latest>>, NothingLeft,
         crashes' = 0 => crashes = 0 /\ up' = up /\ tasks' \subseteq {job'.msg},
         crashes' = 0 => (job.pc = "perform" /\ job.msg.delete => HasInitial(job.msg.rec))'
  PROVE  TreeInv'
<1> SUFFICES ASSUME crashes' = 0 PROVE TreeInv'
  BY Zenon DEF TreeInv
<1>1. TreeSettled /\ up' = "open" /\ tasks' \subseteq {job'.msg}
  BY Settled, Zenon
<1>2. /\ \A r : /\ Rows(r)' = Rows(r) /\ HasInitial(r)' = HasInitial(r)
                /\ LatestOf(r)' = LatestOf(r) /\ Pruned(r)' = Pruned(r)
      /\ WritesOf(latest)' = WritesOf(latest)
  BY Zenon DEF Rows, HasInitial, LatestOf, Pruned, WritesOf
<1>3. ASSUME NEW w \in WritesOf(latest), NEW s \in latest, s.squash, w.rec \in Siblings(s.rec),
             w.ts <= s.ts
      PROVE  FALSE
  <2>1. w \in Messages /\ s \in Messages
    BY Zenon DEF RecordInv, ControlInv, TypeOK, WritesOf
  <2>2. w.ts \in Nat /\ s.ts \in Nat /\ s.ts < w.ts
    BY <1>1, <1>3, <2>1, Message, Zenon DEF TreeSettled
  <2> QED
    BY <1>3, <2>2
<1>4. ASSUME NEW r \in Records, Rows(r)' # {}
      PROVE  HasInitial(r)' /\ (~Root(r) => LatestOf(r)' # {} /\ ~Pruned(ParentOf[r])')
  BY <1>1, <1>2, <1>4, Zenon DEF TreeSettled
<1> QED
  BY <1>1, <1>2, <1>3, <1>4, Zenon DEF TreeInv

\* A step that changes no row, deletes no data and forgets nothing.
LEMMA DataKept ==
  ASSUME RecordInv, UNCHANGED <<stored, latest>>, blobs \subseteq blobs',
         settled \subseteq settled', tasks \subseteq tasks' \cup settled',
         \A m \in tasks' \ tasks : m.squash => Floored(m)
  PROVE  DataInv'
<1>1. \A r : PruneTold(r) => PruneTold(r)'
  BY ToldStays, Zenon
<1>2. \A r : PurgeBegun(r) => PurgeBegun(r)'
  BY <1>1, Zenon DEF PurgeBegun, Siblings, Rows
<1>3. \A m : Floored(m) => Floored(m)'
  BY <1>1, Zenon DEF Floored
<1> QED
  BY <1>2, <1>3, Zenon DEF RecordInv, DataInv, BlobOf

\* The other root records after a step that changes no row.
LEMMA RootsKept ==
  ASSUME RecordInv, NEW q, UNCHANGED <<stored, latest>>, tasks \subseteq tasks' \cup settled',
         settled \subseteq settled', settled' \subseteq settled \cup {q}, 
         blobs \subseteq blobs',
         Root(q.rec) /\ q.rec \in Records /\ ~NewerWrite(q.rec)' => RootSound(q.rec)'
  PROVE  RootInv'
<1> SUFFICES ASSUME NEW r \in Records, Root(r), r # q.rec PROVE ~NewerWrite(r)' => RootSound(r)'
  BY Zenon DEF RootInv
<1>1. NewerWrite(r) => NewerWrite(r)'
  BY ToldStays, Zenon
<1>2. Rows(r)' = Rows(r) /\ LatestOf(r)' = LatestOf(r)
  BY Zenon DEF Rows, LatestOf
<1>3. \A m : m.rec = r => (m \in settled' <=> m \in settled)
  BY Zenon
<1> QED
  BY <1>1, <1>2, <1>3, RootUntouched, Zenon DEF RecordInv, RootInv

\* A message is answered without a change.
LEMMA AnswerKeeps ==
  ASSUME RecordInv, NEW m \in Messages, Idle, Settle(m),
         UNCHANGED <<rowVars, blobs, tasks, runVars, job>>,
         Root(m.rec) => HasInitial(m.rec),
         Root(m.rec) /\ ~NewerWrite(m.rec)' => RootSound(m.rec)'
  PROVE  RecordInv'
<1>1. settled' = settled \cup {m} /\ UNCHANGED <<stored, latest, blobs, tasks, job, up, crashes>>
  BY Zenon DEF Settle, rowVars, runVars
<1>2. ControlInv'
  BY <1>1, Zenon DEF RecordInv, ControlInv, TypeOK, Job, BlobOf, runVars
<1>3. WriteInv' /\ CleanInv' /\ TaskInv'
  BY <1>1, JobOver, Zenon DEF Idle
<1>4. RowInv' /\ RootKnown'
  BY <1>1, Zenon DEF RecordInv, RowInv, RootKnown, DeletesOf, WritesOf, Rows, HasInitial
<1>5. RootInv'
  BY <1>1, RootsKept, Zenon
<1>6. DataInv'
  BY <1>1, DataKept, Zenon
<1>7. TreeInv'
  <2>1. job.pc = "idle" /\ job'.pc = "idle"
    BY <1>1, Zenon DEF Idle
  <2>2. crashes = 0 => tasks \subseteq {job.msg}
    BY Zenon DEF RecordInv, TreeInv
  <2> QED
    BY <1>1, <2>1, <2>2, SettledStays, Zenon DEF NothingLeft
<1> QED
  BY <1>2, <1>3, <1>4, <1>5, <1>6, <1>7, Zenon DEF RecordInv

\* A known message: its rows say so already.
LEMMA AnswerDuplicateKeeps ==
  ASSUME RecordInv, NEW m \in Messages, NEW withData \in BOOLEAN, AnswerDuplicate(m, withData)
  PROVE  RecordInv'
<1>1. /\ Idle /\ Settle(m) /\ m \in stored
      /\ UNCHANGED <<rowVars, blobs, tasks, runVars, job>>
  BY Zenon DEF AnswerDuplicate, Arrives
<1>2. Root(m.rec) => HasInitial(m.rec)
  BY <1>1, Zenon DEF RecordInv, RootKnown
<1>3. ASSUME Root(m.rec), ~NewerWrite(m.rec)' PROVE RootSound(m.rec)'
  <2> DEFINE r == m.rec
  <2>1. settled' = settled \cup {m} /\ stored' = stored /\ latest' = latest /\ blobs' = blobs /\ tasks' = tasks
    BY <1>1, Zenon DEF Settle, rowVars
  <2>2. r \in Records /\ m \in Rows(r) /\ m.ts \in Nat
    BY <1>1, Message, Zenon DEF Rows
  <2>3. ~NewerWrite(r)
    BY <1>3, <2>1, ToldStays, Zenon
  <2>4. RootSound(r)
    BY <1>3, <2>2, <2>3, Zenon DEF RecordInv, RootInv
  <2>5. Rows(r)' = Rows(r) /\ LatestOf(r)' = LatestOf(r)
    BY <2>1, Zenon DEF Rows, LatestOf
  <2>6. ASSUME DeletesOf(Rows(r)) = {} PROVE Undeleted(r)'
    <3>1. Undeleted(r) /\ ~m.delete
      BY <2>2, <2>4, <2>6, Zenon DEF RootSound, DeletesOf
    <3>2. \A k \in settled' : k.rec = r => ~k.delete /\ \E n \in Rows(r) : k.ts <= n.ts
      BY <2>1, <2>2, <3>1 DEF Undeleted
    <3>3. ASSUME LatestOf(r) = {}, NEW k \in Rows(r)
          PROVE  SoleRow(k) /\ (k \in settled' => BlobOf(k) \in blobs)
      <4>1. SoleRow(k) /\ SoleRow(m) /\ k = m
        BY <2>2, <3>1, <3>3, Zenon DEF Undeleted, SoleRow, Rows
      <4>2. BlobOf(m) \in blobs
        BY <3>1, <3>3, <4>1, Zenon DEF AnswerDuplicate, Completable, SoleRow
      <4> QED
        BY <4>1, <4>2, Zenon
    <3> QED
      BY <2>1, <2>5, <3>2, <3>3, Zenon DEF Undeleted, SoleRow, Rows, BlobOf
  <2>7. ASSUME NEW d \in DeletesOf(Rows(r)) PROVE Deleted(r, d)'
    <3>1. Deleted(r, d) /\ d \in Messages
      BY <2>4, <2>7, Zenon DEF RootSound, DeletesOf, Rows, RecordInv, ControlInv, TypeOK
    <3>2. m.delete => m = d
      BY <2>2, <2>4, <2>7, <3>1, Zenon DEF RootSound, Deleted, DeletesOf
    <3>3. Beaten(d, d)
      BY <2>7, <3>1, Message DEF Beaten, DeletesOf
    <3> QED
      BY <2>1, <2>5, <3>1, <3>2, <3>3, Zenon DEF Deleted, Beaten
  <2> QED
    BY <2>5, <2>6, <2>7, Zenon DEF RootSound, DeletesOf
<1> QED
  BY <1>1, <1>2, <1>3, AnswerKeeps, Zenon

LEMMA AnswerSupersededKeeps ==
  ASSUME RecordInv, NEW m \in Messages, NEW withData \in BOOLEAN, AnswerSuperseded(m, withData)
  PROVE  RecordInv'
<1> DEFINE r == m.rec
<1>1. /\ Idle /\ Settle(m) /\ m \notin stored
      /\ UNCHANGED <<rowVars, blobs, tasks, runVars, job>>
  BY Zenon DEF AnswerSuperseded, Arrives
<1>2. ASSUME m.delete PROVE \E n \in Rows(r) : Beaten(m, n) /\ n.delete
  BY <1>2, Zenon DEF AnswerSuperseded, NewestRow, Beaten
<1>3. ASSUME Root(r), ~m.delete PROVE \E n \in Rows(r) : m.ts <= n.ts
  <2>1. ~IsNewest(m)
    BY <1>3, Zenon DEF AnswerSuperseded, Root, BelowSquash
  <2>2. PICK n \in Rows(r) : ~(n.ts < m.ts)
    BY <2>1, Zenon DEF IsNewest
  <2>3. n.ts \in Nat /\ m.ts \in Nat
    BY Message, Zenon DEF Rows, RecordInv, ControlInv, TypeOK
  <2> QED
    BY <2>2, <2>3
<1>4. Root(r) => HasInitial(r)
  <2> SUFFICES ASSUME Root(r) PROVE HasInitial(r)
    BY Zenon
  <2>1. m.delete \in BOOLEAN
    BY Message, Zenon
  <2>2. PICK n \in Rows(r) : TRUE
    BY <1>2, <1>3, <2>1, Zenon
  <2> QED
    BY <2>2, Zenon DEF Rows, RecordInv, RootKnown
<1>5. ASSUME Root(r), ~NewerWrite(r)' PROVE RootSound(r)'
  <2>1. settled' = settled \cup {m} /\ stored' = stored /\ latest' = latest /\ blobs' = blobs /\ tasks' = tasks
    BY <1>1, Zenon DEF Settle, rowVars
  <2>2. r \in Records /\ m.ts \in Nat /\ m.delete \in BOOLEAN
    BY Message, Zenon
  <2>3. ~NewerWrite(r)
    BY <1>5, <2>1, ToldStays, Zenon
  <2>4. RootSound(r)
    BY <1>5, <2>2, <2>3, Zenon DEF RecordInv, RootInv
  <2>5. Rows(r)' = Rows(r) /\ LatestOf(r)' = LatestOf(r)
    BY <2>1, Zenon DEF Rows, LatestOf
  <2>6. ASSUME DeletesOf(Rows(r)) = {} PROVE Undeleted(r)'
    <3>1. Undeleted(r) /\ ~m.delete
      BY <1>2, <2>2, <2>4, <2>6, Zenon DEF RootSound, DeletesOf
    <3>2. \A k \in settled' : k.rec = r => ~k.delete /\ \E n \in Rows(r) : k.ts <= n.ts
      BY <1>3, <1>5, <2>1, <3>1, Zenon DEF Undeleted
    <3>3. ASSUME LatestOf(r) = {}, NEW k \in Rows(r)
          PROVE  SoleRow(k) /\ (k \in settled' => BlobOf(k) \in blobs)
      BY <1>1, <2>1, <3>1, <3>3, Zenon DEF Undeleted, Rows
    <3> QED
      BY <2>1, <2>5, <3>2, <3>3, Zenon DEF Undeleted, SoleRow, Rows, BlobOf
  <2>7. ASSUME NEW d \in DeletesOf(Rows(r)) PROVE Deleted(r, d)'
    <3>1. Deleted(r, d)
      BY <2>4, <2>7, Zenon DEF RootSound
    <3>2. m.delete => Beaten(m, d)
      BY <1>2, <2>4, <2>7, <3>1, Zenon DEF RootSound, Deleted, DeletesOf
    <3> QED
      BY <2>1, <2>5, <3>1, <3>2, Zenon DEF Deleted, Beaten
  <2> QED
    BY <2>5, <2>6, <2>7, Zenon DEF RootSound, DeletesOf
<1> QED
  BY <1>1, <1>4, <1>5, AnswerKeeps, Zenon

\* With nothing to purge, the tree is sound whatever the job.
LEMMA TreeAgain ==
  ASSUME TypeOK',
         crashes' = 0 =>
           /\ TreeSettled' /\ up' = "open" /\ tasks' \subseteq {job'.msg}
           /\ (job.pc = "perform" /\ job.msg.delete => HasInitial(job.msg.rec))'
  PROVE  TreeInv'
<1> SUFFICES ASSUME crashes' = 0 PROVE TreeInv'
  BY Zenon DEF TreeInv
<1>1. TreeSettled'
  BY Zenon
<1>2. ASSUME NEW w \in WritesOf(latest)', NEW s \in latest', s.squash, w.rec \in Siblings(s.rec),
             w.ts <= s.ts
      PROVE  FALSE
  <2>1. w \in Messages /\ s \in Messages
    BY Zenon DEF WritesOf, TypeOK
  <2>2. w.ts \in Nat /\ s.ts \in Nat /\ s.ts < w.ts
    BY <1>1, <1>2, <2>1, Message, Zenon DEF TreeSettled
  <2> QED
    BY <1>2, <2>2
<1> QED
  BY <1>1, <1>2, Zenon DEF TreeInv, TreeSettled

\* A write kept below a tombstone: the record has a write newer than one now.
LEMMA StoreBeatenWriteKeeps ==
  ASSUME RecordInv, NEW m \in Messages, NEW withData \in BOOLEAN, StoreBeatenWrite(m, withData)
  PROVE  RecordInv'
<1> DEFINE r == m.rec
<1>1. /\ Idle /\ m \notin stored /\ ~m.delete /\ HasInitial(r) /\ ParentFound(r)
      /\ IsNewest(m) /\ AfterDelete(m)
      /\ stored' = stored \cup {m} /\ settled' = settled \cup {m}
      /\ UNCHANGED <<latest, blobs, tasks, up, resuming, crashes, job>>
  BY Zenon DEF StoreBeatenWrite, Arrives, WriteInPlace, Settle, runVars
<1>2. PICK d \in Rows(r) : d.delete /\ d \in stored /\ d.rec = r /\ \A n \in Rows(r) : n.ts <= d.ts
  BY <1>1, Zenon DEF AfterDelete, NewestRow, Rows
<1>3. stored \subseteq Messages /\ latest \subseteq stored /\ r \in Records
  BY Message, Zenon DEF RecordInv, ControlInv, TypeOK
<1>4. d.ts < m.ts
  BY <1>1, <1>2, Zenon DEF IsNewest
<1>5. ControlInv'
  BY <1>1, Zenon DEF RecordInv, ControlInv, TypeOK, Job, BlobOf
<1>6. WriteInv' /\ CleanInv' /\ TaskInv'
  BY <1>1, JobOver, Zenon DEF Idle
<1>7. ASSUME NEW w \in WritesOf(latest) PROVE w.rec # r
  <2> SUFFICES ASSUME w.rec = r PROVE FALSE
    BY Zenon
  <2>1. w \in Rows(r) /\ w \in Messages /\ d \in Messages /\ ~w.delete
    BY <1>2, <1>3, Zenon DEF WritesOf, Rows
  <2>2. w.ts <= d.ts /\ d.ts <= w.ts
    BY <1>2, <2>1, Zenon DEF RecordInv, RowInv
  <2> QED
    BY <1>2, <2>1, <2>2, Message, Distinct
<1>8. ASSUME NEW q, q # r PROVE Rows(q)' = Rows(q) /\ LatestOf(q)' = LatestOf(q)
  BY <1>1, <1>8, Zenon DEF Rows, LatestOf
<1>9. RowInv'
  BY <1>1, <1>7, <1>8, Zenon DEF RecordInv, RowInv, DeletesOf, WritesOf
<1>10. \A q : HasInitial(q) => HasInitial(q)'
  BY <1>1, Zenon DEF HasInitial, Rows
<1>11. RootKnown'
  BY <1>1, <1>10, Zenon DEF RecordInv, RootKnown
<1>12. \A q : /\ NewerWrite(q) => NewerWrite(q)'
              /\ Pruned(q) => Pruned(q)'
              /\ PruneTold(q) => PruneTold(q)'
  BY <1>1, ToldStays, Zenon
<1>13. NewerWrite(r)'
  <2>1. m \in WritesOf(Known(r))' /\ d \in DeletesOf(Known(r))' /\ m.ts > d.ts
    BY <1>1, <1>2, <1>3, <1>4, Message, Zenon DEF WritesOf, DeletesOf, Known
  <2> QED
    BY <2>1, Zenon DEF NewerWrite
<1>14. RootInv'
  <2> SUFFICES ASSUME NEW q \in Records, Root(q), q # r PROVE ~NewerWrite(q)' => RootSound(q)'
    BY <1>13, Zenon DEF RootInv
  <2>1. \A k : k.rec = q => (k \in settled' <=> k \in settled)
    BY <1>1, Zenon
  <2> QED
    BY <1>1, <1>8, <1>12, <2>1, RootUntouched, Zenon DEF RecordInv, RootInv
<1>15. DataInv'
  <2>1. ASSUME NEW q, q # r, PurgeBegun(q) PROVE PurgeBegun(q)'
    BY <1>1, <1>8, <1>12, <2>1, Zenon DEF PurgeBegun, Siblings
  <2>2. \A k : Floored(k) => Floored(k)'
    BY <1>1, <1>12, Zenon DEF Floored
  <2>3. ASSUME NEW k \in latest PROVE k.delete \/ BlobOf(k) \in blobs' \/ PurgeBegun(k.rec)'
    BY <1>1, <1>7, <2>1, Zenon DEF RecordInv, DataInv, WritesOf
  <2> QED
    BY <1>1, <2>2, <2>3, Zenon DEF RecordInv, DataInv, BlobOf
<1>16. TreeInv'
  <2> SUFFICES ASSUME crashes' = 0 PROVE TreeSettled' /\ up' = "open" /\ tasks' \subseteq {job'.msg}
    BY <1>1, <1>5, TreeAgain, Zenon DEF ControlInv, Idle
  <2>1. TreeSettled /\ up = "open" /\ tasks \subseteq {job.msg}
    BY <1>1, Settled, Zenon DEF Idle, NothingLeft
  <2>2. \A q : Pruned(q)' => Pruned(q)
    BY <1>1, Zenon DEF Pruned, Rows
  <2>3. ~Root(r) => LatestOf(r)' # {} /\ ~Pruned(ParentOf[r])'
    BY <1>1, <1>2, <1>3, <2>1, <2>2, Zenon DEF TreeSettled, ParentFound, Root, LatestOf
  <2>4. ASSUME NEW q \in Records, Rows(q)' # {}
        PROVE  HasInitial(q)' /\ (~Root(q) => LatestOf(q)' # {} /\ ~Pruned(ParentOf[q])')
    BY <1>1, <1>8, <1>10, <2>1, <2>2, <2>3, <2>4, Zenon DEF TreeSettled
  <2> QED
    BY <1>1, <2>1, <2>4, Zenon DEF TreeSettled, WritesOf
<1> QED
  BY <1>5, <1>6, <1>9, <1>11, <1>14, <1>15, <1>16, Zenon DEF RecordInv

-----------------------------------------------------------------------------
(* Steps that only move a job. *)

\* A job begins.
LEMMA Begins ==
  ASSUME NEW m \in Messages, NEW withData \in BOOLEAN,
         NEW pc \in {"put", "commit", "register", "perform"}, Start(m, withData, pc)
  PROVE  /\ job'.pc = pc /\ job'.msg = m /\ job'.data = withData
         /\ job'.todo = {} /\ job'.rows = {} /\ job' \in Job
<1>1. job' = [pc |-> pc, msg |-> m, data |-> withData, todo |-> {}, rows |-> {}]
  BY Zenon DEF Start, NoJob
<1> QED
  BY <1>1, Zenon DEF Job

\* A message is accepted: its handler relies on what was checked.
LEMMA AcceptKeeps ==
  ASSUME RecordInv, Idle, UNCHANGED <<stored, latest, blobs, tasks, settled, up, resuming, crashes>>,
         job' \in Job, job'.msg \in Messages, job'.pc \in {"put", "commit", "register"},
         WriteInv', TaskInv'
  PROVE  RecordInv'
<1>1. ControlInv'
  BY Zenon DEF RecordInv, ControlInv, TypeOK, BlobOf
<1>2. CleanInv'
  BY Zenon DEF CleanInv
<1>3. RowInv' /\ RootKnown' /\ RootInv' /\ DataInv'
  BY StoresKept, Zenon
<1>4. TreeInv'
  <2>1. crashes = 0 => tasks = {}
    BY Message, Zenon DEF RecordInv, ControlInv, TypeOK, TreeInv, Idle
  <2> QED
    BY <2>1, SettledStays, Zenon DEF Idle, NothingLeft
<1> QED
  BY <1>1, <1>2, <1>3, <1>4, Zenon DEF RecordInv

LEMMA ReadyStays ==
  ASSUME NEW m, UNCHANGED <<stored, latest>>
  PROVE  (WriteReady(m) => WriteReady(m)') /\ (SoleRow(m) => SoleRow(m)')
  BY Zenon DEF WriteReady, SoleRow, IsNewest, AfterDelete, NewestRow, WriteInPlace, BelowSquash,
         HasInitial, ParentFound, Pruned, Rows

LEMMA AcceptWriteKeeps ==
  ASSUME RecordInv, NEW m \in Messages, NEW withData \in BOOLEAN, AcceptWrite(m, withData)
  PROVE  RecordInv'
<1>1. /\ Idle /\ WriteReady(m) /\ ~m.delete /\ (withData \/ DataAtHand(m))
      /\ withData \/ ~m.initial \/ m.rec \in Dataless
      /\ Start(m, withData, IF withData THEN "put" ELSE "commit")
      /\ UNCHANGED <<stored, latest, blobs, tasks, settled, up, resuming, crashes>>
  BY Zenon DEF AcceptWrite, Arrives, WriteReady, rowVars, runVars
<1>2. /\ job'.pc = (IF withData THEN "put" ELSE "commit") /\ job'.msg = m
      /\ job'.data = withData /\ job' \in Job
  BY <1>1, Begins, Zenon
<1>3. WriteReady(m)' /\ (BlobOf(m) \in blobs <=> BlobOf(m) \in blobs')
  BY <1>1, ReadyStays, Zenon
<1>4. ~withData => IF m.initial THEN m.rec \in Dataless ELSE BlobOf(m) \in blobs
  BY <1>1, Zenon DEF DataAtHand
<1>5. WriteInv'
  <2>1. withData => WriteInv'
    BY <1>1, <1>2, <1>3, Zenon DEF WriteInv
  <2>2. ~withData => WriteInv'
    BY <1>1, <1>2, <1>3, <1>4, Zenon DEF WriteInv
  <2> QED
    BY <2>1, <2>2, Zenon
<1>6. TaskInv'
  BY <1>2, Zenon DEF TaskInv
<1> QED
  BY <1>1, <1>2, <1>5, <1>6, AcceptKeeps, Zenon

LEMMA AcceptCompletionKeeps ==
  ASSUME RecordInv, NEW m \in Messages, AcceptCompletion(m)
  PROVE  RecordInv'
<1>1. /\ Idle /\ SoleRow(m) /\ Start(m, TRUE, "put")
      /\ UNCHANGED <<stored, latest, blobs, tasks, settled, up, resuming, crashes>>
  BY Zenon DEF AcceptCompletion, Arrives, SoleRow, Completable, rowVars, runVars
<1>2. job'.pc = "put" /\ job'.msg = m /\ job'.data = TRUE /\ job' \in Job
  BY <1>1, Begins, Zenon
<1>3. SoleRow(m)' /\ ~m.delete
  BY <1>1, ReadyStays, Message, Zenon DEF SoleRow
<1>4. WriteInv' /\ TaskInv'
  BY <1>2, <1>3, Zenon DEF WriteInv, TaskInv
<1> QED
  BY <1>1, <1>2, <1>4, AcceptKeeps, Zenon

LEMMA AcceptDeleteKeeps ==
  ASSUME RecordInv, NEW m \in Messages, AcceptDelete(m)
  PROVE  RecordInv'
<1>1. /\ Idle /\ m.delete /\ HasInitial(m.rec) /\ Start(m, FALSE, "register")
      /\ UNCHANGED <<stored, latest, blobs, tasks, settled, up, resuming, crashes>>
  BY Zenon DEF AcceptDelete, Arrives, rowVars, runVars
<1>2. job'.pc = "register" /\ job'.msg = m /\ job'.data = FALSE /\ job' \in Job
  BY <1>1, Begins, Zenon
<1>3. HasInitial(m.rec)'
  BY <1>1, Zenon DEF HasInitial, Rows
<1>4. WriteInv' /\ TaskInv'
  BY <1>1, <1>2, <1>3, Zenon DEF WriteInv, TaskInv
<1> QED
  BY <1>1, <1>2, <1>4, AcceptKeeps, Zenon

LEMMA SkipDeleteKeeps ==
  ASSUME RecordInv, SkipDelete
  PROVE  RecordInv'
<1>1. /\ job.pc = "perform" /\ job.msg.delete /\ job.msg \in Messages
      /\ \A n \in NewestRow(job.msg.rec) : Beaten(job.msg, n)
      /\ UNCHANGED <<stored, latest, blobs, tasks, settled, up, resuming, crashes>>
  BY Zenon DEF SkipDelete, RecordInv, ControlInv, rowVars, runVars
<1>2. job'.pc = "unregister" /\ job'.msg = job.msg /\ job' \in Job
  BY Zenon DEF SkipDelete, Goto, RecordInv, ControlInv, TypeOK, Job
<1>3. ControlInv'
  BY <1>1, <1>2, Zenon DEF RecordInv, ControlInv, TypeOK, BlobOf
<1>4. NewestRow(job.msg.rec)' = NewestRow(job.msg.rec) /\ job.msg \in tasks
  BY <1>1, <1>2, Zenon DEF NewestRow, Rows, RecordInv, TaskInv
<1>5. WriteInv' /\ CleanInv' /\ TaskInv'
  BY <1>1, <1>2, <1>4, Zenon DEF WriteInv, CleanInv, TaskInv, Beaten
<1>6. RowInv' /\ RootKnown' /\ RootInv' /\ DataInv'
  BY <1>1, StoresKept, Zenon
<1>7. TreeInv'
  <2>1. crashes = 0 => tasks' \subseteq {job'.msg}
    BY <1>1, <1>2, Zenon DEF RecordInv, TreeInv
  <2> QED
    BY <1>1, <1>2, <2>1, SettledStays, Zenon DEF NothingLeft
<1> QED
  BY <1>3, <1>5, <1>6, <1>7, Zenon DEF RecordInv

\* The process dies: only the stores and the tasks are left.
LEMMA CrashKeeps ==
  ASSUME RecordInv, Crash
  PROVE  RecordInv'
<1>1. /\ UNCHANGED <<stored, latest, blobs, tasks, settled>>
      /\ up' = "down" /\ resuming' = {} /\ job' = NoJob
      /\ crashes < MaxCrashes /\ crashes' = crashes + 1
  BY Zenon DEF Crash, rowVars
<1>2. crashes \in 0..MaxCrashes /\ MaxCrashes \in Nat
  BY RecordAssumption, Zenon DEF RecordInv, ControlInv, TypeOK
<1>3. crashes' \in 0..MaxCrashes /\ crashes' # 0
  BY <1>1, <1>2
<1>4. WriteInv' /\ CleanInv' /\ TaskInv' /\ job'.pc = "idle" /\ job'.msg = None /\ job' \in Job
  BY <1>1, JobOver, Zenon
<1>5. ControlInv'
  BY <1>1, <1>3, <1>4, Zenon DEF RecordInv, ControlInv, TypeOK, BlobOf
<1>6. RowInv' /\ RootKnown' /\ RootInv' /\ DataInv'
  BY <1>1, StoresKept, Zenon
<1>7. TreeInv'
  BY <1>3, Zenon DEF TreeInv
<1> QED
  BY <1>4, <1>5, <1>6, <1>7, Zenon DEF RecordInv

LEMMA OpenKeeps ==
  ASSUME RecordInv, Open
  PROVE  RecordInv'
<1>1. /\ UNCHANGED <<stored, latest, blobs, tasks, settled, resuming, job, crashes>>
      /\ up = "down" /\ up' = "opening"
  BY Zenon DEF Open, rowVars
<1>2. ControlInv'
  BY <1>1, Zenon DEF RecordInv, ControlInv, TypeOK, Job, BlobOf
<1>3. WriteInv' /\ CleanInv' /\ TaskInv'
  BY <1>1, Zenon
     DEF RecordInv, WriteInv, CleanInv, TaskInv, WriteReady, SoleRow, IsNewest, AfterDelete,
              NewestRow, WriteInPlace, BelowSquash, HasInitial, ParentFound, Pruned, Rows,
              LatestOf, Target, Beaten, BlobOf
<1>4. RowInv' /\ RootKnown' /\ RootInv' /\ DataInv'
  BY <1>1, StoresKept, Zenon
<1>5. TreeInv'
  BY <1>1, Zenon DEF RecordInv, TreeInv
<1> QED
  BY <1>2, <1>3, <1>4, <1>5, Zenon DEF RecordInv

LEMMA GrabTasksKeeps ==
  ASSUME RecordInv, NEW batch \in SUBSET tasks, GrabTasks(batch)
  PROVE  RecordInv'
<1>1. /\ UNCHANGED <<stored, latest, blobs, tasks, settled, job, crashes>>
      /\ up = "opening" /\ Idle /\ resuming' = batch /\ up' \in {"open", "opening"}
  BY Zenon DEF GrabTasks, rowVars
<1>2. ControlInv'
  BY <1>1, Zenon DEF RecordInv, ControlInv, TypeOK, Job, BlobOf
<1>3. WriteInv' /\ CleanInv' /\ TaskInv'
  BY <1>1, JobOver, Zenon DEF Idle
<1>4. RowInv' /\ RootKnown' /\ RootInv' /\ DataInv'
  BY <1>1, StoresKept, Zenon
<1>5. TreeInv'
  BY <1>1, Zenon DEF RecordInv, TreeInv
<1> QED
  BY <1>2, <1>3, <1>4, <1>5, Zenon DEF RecordInv

LEMMA ResumeTaskKeeps ==
  ASSUME RecordInv, NEW m \in resuming, ResumeTask(m)
  PROVE  RecordInv'
<1>1. /\ UNCHANGED <<stored, latest, blobs, tasks, settled, up, resuming, crashes>>
      /\ up = "opening" /\ Start(m, FALSE, "perform")
  BY Zenon DEF ResumeTask, rowVars, runVars
<1>2. m \in tasks /\ m \in Messages
  BY Zenon DEF RecordInv, ControlInv, TypeOK
<1>3. job'.pc = "perform" /\ job'.msg = m /\ job' \in Job
  BY <1>1, <1>2, Begins, Zenon
<1>4. ControlInv'
  BY <1>1, <1>2, <1>3, Zenon DEF RecordInv, ControlInv, TypeOK, BlobOf
<1>5. WriteInv' /\ CleanInv' /\ TaskInv'
  BY <1>1, <1>2, <1>3, Zenon DEF WriteInv, CleanInv, TaskInv
<1>6. RowInv' /\ RootKnown' /\ RootInv' /\ DataInv'
  BY <1>1, StoresKept, Zenon
<1>7. TreeInv'
  BY <1>1, Zenon DEF RecordInv, TreeInv
<1> QED
  BY <1>4, <1>5, <1>6, <1>7, Zenon DEF RecordInv

\* A task throws only after a crash.
LEMMA TaskThrowsKeeps ==
  ASSUME RecordInv, TaskThrows
  PROVE  RecordInv'
<1>1. /\ UNCHANGED <<stored, latest, blobs, tasks, settled, up, resuming, crashes>>
      /\ job' = NoJob
  BY Zenon DEF TaskThrows, rowVars, runVars
<1>2. WriteInv' /\ CleanInv' /\ TaskInv' /\ job'.pc = "idle" /\ job'.msg = None /\ job' \in Job
  BY <1>1, JobOver, Zenon
<1>3. ControlInv'
  BY <1>1, <1>2, Zenon DEF RecordInv, ControlInv, TypeOK, BlobOf
<1>4. RowInv' /\ RootKnown' /\ RootInv' /\ DataInv'
  BY <1>1, StoresKept, Zenon
<1>5. crashes # 0
  <2> SUFFICES ASSUME crashes = 0 PROVE FALSE
    BY Zenon
  <2>1. job.pc = "purge" /\ \E r \in job.todo : WritesOf(Rows(r)) = {}
    BY Zenon DEF TaskThrows, RecordInv, TreeInv
  <2>2. PICK r \in job.todo : WritesOf(Rows(r)) = {}
    BY <2>1, Zenon
  <2>3. r \in Records /\ Rows(r) # {} /\ ~Purging(r)
    BY <2>1, Zenon DEF RecordInv, TaskInv, Purging
  <2>4. HasInitial(r)
    BY <2>3, Zenon DEF RecordInv, TreeInv
  <2> QED
    BY <2>2, <2>4, Message, Zenon DEF HasInitial, WritesOf, Rows, RecordInv, ControlInv, TypeOK
<1>6. TreeInv'
  BY <1>1, <1>5, Zenon DEF TreeInv
<1> QED
  BY <1>2, <1>3, <1>4, <1>6, Zenon DEF RecordInv

-----------------------------------------------------------------------------
(* A purge begins. *)

\* What is left to purge is what the purge takes on.
LEMMA PurgeBegins ==
  ASSUME RecordInv, UNCHANGED <<stored, latest, blobs, tasks, settled, up, resuming, crashes>>,
         job.pc \in {"clean", "perform"}, job.msg \in tasks, job.msg.delete => job.msg \in latest,
         job.pc = "clean" <=> job.msg.delete,
         NEW todo \in SUBSET Records, job' = [job EXCEPT !.pc = "purge", !.todo = todo],
         \A r \in todo : Target(job.msg, r) /\ Rows(r) # {},
         \A r \in Records : Rows(r) # {} /\ job.msg.delete /\ job.msg.prune
                              /\ job.msg.rec = ParentOf[r] => r \in todo,
         \A w \in WritesOf(latest) :
           job.msg.squash /\ w.rec \in Siblings(job.msg.rec) /\ w.ts <= job.msg.ts
             => w.rec \in todo
  PROVE  RecordInv'
<1>1. job \in Job /\ job.msg \in Messages
  BY Zenon DEF RecordInv, ControlInv, TypeOK
<1>2. job'.pc = "purge" /\ job'.msg = job.msg /\ job'.todo = todo
  BY <1>1, Zenon DEF Job
<1>3. job' \in Job
  BY <1>1, Zenon DEF Job
<1>4. ControlInv'
  BY <1>1, <1>2, <1>3, Zenon DEF RecordInv, ControlInv, TypeOK, BlobOf
<1>5. \A r : Rows(r)' = Rows(r)
  BY Zenon DEF Rows
<1>6. TaskInv'
  BY <1>2, <1>5 DEF TaskInv, Target
<1>7. WriteInv' /\ CleanInv'
  BY <1>2, Zenon DEF WriteInv, CleanInv
<1>8. RowInv' /\ RootKnown' /\ RootInv' /\ DataInv'
  BY StoresKept, Zenon
<1>9. TreeInv'
  <2> SUFFICES ASSUME crashes = 0 PROVE TreeInv'
    BY Zenon DEF TreeInv
  <2>1. \A r : ~Purging(r) /\ ~StillToPurge(r) /\ (StillToPurge(r)' <=> r \in todo)
    BY <1>2, Zenon DEF Purging, StillToPurge
  <2>2. ASSUME NEW r \in Records, Rows(r)' # {}
        PROVE  /\ HasInitial(r)' /\ (~Root(r) => LatestOf(r)' # {})
               /\ ~Root(r) /\ Pruned(ParentOf[r])' =>
                    job.msg.delete /\ job.msg.prune /\ job.msg.rec = ParentOf[r] /\ r \in todo
    <3>1. /\ HasInitial(r) /\ (~Root(r) => LatestOf(r) # {})
          /\ ~Root(r) /\ Pruned(ParentOf[r]) =>
               job.msg.delete /\ job.msg.prune /\ job.msg.rec = ParentOf[r]
      BY <1>5, <2>1, <2>2, Zenon DEF RecordInv, TreeInv
    <3> QED
      BY <1>5, <2>2, <3>1, Zenon DEF HasInitial, LatestOf, Pruned
  <2>3. ASSUME NEW w \in WritesOf(latest), NEW s \in latest, s.squash, w.rec \in Siblings(s.rec),
               w.ts <= s.ts
        PROVE  job.msg = s /\ w.rec \in todo
    BY <2>1, <2>3, Zenon DEF RecordInv, TreeInv
  <2>4. up' = "open" /\ tasks' \subseteq {job'.msg}
    BY <1>2, Zenon DEF RecordInv, TreeInv
  <2> QED
    BY <1>2, <2>1, <2>2, <2>3, <2>4, Zenon DEF TreeInv, WritesOf
<1> QED
  BY <1>4, <1>6, <1>7, <1>8, <1>9, Zenon DEF RecordInv

LEMMA PurgeDescendantsKeeps ==
  ASSUME RecordInv, PurgeDescendants
  PROVE  RecordInv'
<1> DEFINE todo == IF job.msg.prune
                   THEN {r \in Records : ParentOf[r] = job.msg.rec /\ Rows(r) # {}} ELSE {}
<1>1. /\ UNCHANGED <<stored, latest, blobs, tasks, settled, up, resuming, crashes>>
      /\ job.pc = "clean" /\ job.msg.delete
      /\ job' = [job EXCEPT !.pc = "purge", !.todo = todo]
  BY Zenon DEF PurgeDescendants, rowVars, runVars
<1>2. job.msg \in Messages /\ job.msg \in tasks /\ job.msg \in latest
  BY <1>1, Zenon DEF RecordInv, ControlInv, CleanInv
<1>3. job.msg.rec \in Records /\ None \notin Records /\ ~job.msg.squash
  BY <1>1, <1>2, Message, RecordAssumption, Zenon
<1>4. \A r \in todo : Target(job.msg, r) /\ Rows(r) # {}
  BY <1>1, <1>3, Zenon DEF Target, Root
<1>5. \A r \in Records : Rows(r) # {} /\ job.msg.prune /\ job.msg.rec = ParentOf[r] => r \in todo
  BY Zenon
<1>6. todo \in SUBSET Records
  BY Zenon
<1> HIDE DEF todo
<1> QED
  BY <1>1, <1>2, <1>3, <1>4, <1>5, <1>6, PurgeBegins, Zenon

LEMMA PerformSquashKeeps ==
  ASSUME RecordInv, PerformSquash
  PROVE  RecordInv'
<1> DEFINE m == job.msg
           todo == SquashTargets(m)
<1>1. /\ UNCHANGED <<stored, latest, blobs, tasks, settled, up, resuming, crashes>>
      /\ job.pc = "perform" /\ m.squash
      /\ job' = [job EXCEPT !.pc = "purge", !.todo = todo]
  BY Zenon DEF PerformSquash, rowVars, runVars
<1>2. m \in Messages /\ m \in tasks
  BY <1>1, Zenon DEF RecordInv, ControlInv, TaskInv
<1>3. m.ts \in Nat /\ ~m.delete /\ ~Root(m.rec)
  BY <1>1, <1>2, Message, Zenon
<1>4. \A r : Rows(r) \subseteq Messages /\ Rows(r) \subseteq stored
  BY Zenon DEF Rows, RecordInv, ControlInv, TypeOK
<1>5. ASSUME NEW r \in todo PROVE r \in Records /\ Target(m, r) /\ Rows(r) # {}
  <2>1. r \in Siblings(m.rec) /\ Rows(r) # {} /\ Newest(Rows(r)).ts < m.ts
    BY Zenon DEF SquashTargets
  <2>2. r \in Records /\ ~Root(r)
    BY <1>3, <2>1, Zenon DEF Siblings, Root
  <2>3. Newest(Rows(r)) \in Rows(r) /\ \A n \in Rows(r) : n.ts <= Newest(Rows(r)).ts
    BY <1>4, <2>1, NewestIs, Zenon
  <2>4. \A n \in Rows(r) : n.ts < m.ts
    BY <1>3, <1>4, <2>1, <2>3, Message
  <2> QED
    BY <1>3, <2>1, <2>2, <2>4, Zenon DEF Target
<1>6. ASSUME NEW w \in WritesOf(latest), w.rec \in Siblings(m.rec), w.ts <= m.ts
      PROVE  w.rec \in todo
  <2>1. w \in Rows(w.rec) /\ \A n \in Rows(w.rec) : n.ts <= w.ts
    BY Zenon DEF RecordInv, RowInv, ControlInv, TypeOK, Rows, WritesOf
  <2>2. Newest(Rows(w.rec)) \in Rows(w.rec)
    BY <1>4, <2>1, NewestIs, Zenon
  <2>3. Newest(Rows(w.rec)) # m /\ w \in Messages /\ Newest(Rows(w.rec)) \in Messages
    BY <1>4, <1>6, <2>1, <2>2, Zenon DEF Siblings, Rows
  <2>4. Newest(Rows(w.rec)).ts < m.ts
    BY <1>2, <1>6, <2>1, <2>2, <2>3, Message, Distinct
  <2> QED
    BY <1>6, <2>1, <2>4, Zenon DEF SquashTargets
<1>7. todo \in SUBSET Records
  BY <1>5, Zenon
<1> HIDE DEF todo
<1> QED
  BY <1>1, <1>2, <1>3, <1>5, <1>6, <1>7, PurgeBegins, Zenon

-----------------------------------------------------------------------------
(* Data, answers and tasks: the rows stay. *)

\* Root records after a step that answers nothing and changes no row.
LEMMA RootsStay ==
  ASSUME RecordInv, UNCHANGED <<stored, latest, settled>>, tasks \subseteq tasks',
         \A m \in stored : SoleRow(m) /\ BlobOf(m) \in blobs => BlobOf(m) \in blobs'
  PROVE  RootInv'
<1> SUFFICES ASSUME NEW r \in Records, Root(r) PROVE ~NewerWrite(r)' => RootSound(r)'
  BY Zenon DEF RootInv
<1>1. NewerWrite(r) => NewerWrite(r)'
  BY ToldStays, Zenon
<1>2. Rows(r)' = Rows(r) /\ LatestOf(r)' = LatestOf(r) /\ Rows(r) \subseteq stored
  BY Zenon DEF Rows, LatestOf
<1> QED
  BY <1>1, <1>2, RootUntouched, Zenon DEF RecordInv, RootInv

LEMMA PutDataKeeps ==
  ASSUME RecordInv, PutData
  PROVE  RecordInv'
<1> DEFINE m == job.msg
           pc == IF m \in stored THEN "complete" ELSE "commit"
<1>1. /\ UNCHANGED <<stored, latest, tasks, settled, up, resuming, crashes>>
      /\ job.pc = "put" /\ blobs' = blobs \cup {BlobOf(m)} /\ job' = [job EXCEPT !.pc = pc]
  BY Zenon DEF PutData, Goto, rowVars, runVars
<1>2. m \in Messages /\ job.data /\ ~m.delete /\ (WriteReady(m) \/ SoleRow(m)) /\ job \in Job
  BY <1>1, Zenon DEF RecordInv, ControlInv, TypeOK, WriteInv
<1>3. job'.pc = pc /\ job'.msg = m /\ job'.data = job.data
  BY <1>1, <1>2, Zenon DEF Job
<1>4. job' \in Job
  BY <1>1, <1>2, Zenon DEF Job
<1>5. ControlInv'
  BY <1>1, <1>2, <1>3, <1>4 DEF RecordInv, ControlInv, TypeOK, BlobOf
<1>6. WriteInv'
  <2>1. m \in stored => SoleRow(m)'
    BY <1>1, <1>2, ReadyStays DEF WriteReady
  <2>2. m \notin stored => WriteReady(m)'
    BY <1>1, <1>2, ReadyStays DEF SoleRow, Rows
  <2>3. BlobOf(m) \in blobs'
    BY <1>1, Zenon
  <2> QED
    BY <1>2, <1>3, <2>1, <2>2, <2>3, Zenon DEF WriteInv
<1>7. CleanInv' /\ TaskInv'
  BY <1>3, Zenon DEF CleanInv, TaskInv
<1>8. RowInv' /\ RootKnown'
  BY <1>1, Zenon DEF RecordInv, RowInv, RootKnown, DeletesOf, WritesOf, Rows, HasInitial
<1>9. RootInv' /\ DataInv'
  BY <1>1, RootsStay, DataKept, Zenon
<1>10. TreeInv'
  <2>1. crashes = 0 => tasks' \subseteq {job'.msg}
    BY <1>1, <1>3, Zenon DEF RecordInv, TreeInv
  <2> QED
    BY <1>1, <1>3, <2>1, SettledStays DEF NothingLeft
<1> QED
  BY <1>5, <1>6, <1>7, <1>8, <1>9, <1>10, Zenon DEF RecordInv

\* The data of a displaced write goes; that of the row that displaced it stays.
LEMMA DeleteDisplacedDataKeeps ==
  ASSUME RecordInv, DeleteDisplacedData
  PROVE  RecordInv'
<1> DEFINE m == job.msg
<1>1. PICK b \in job.todo : blobs' = blobs \ {b} /\ job' = [job EXCEPT !.todo = @ \ {b}]
  BY Zenon DEF DeleteDisplacedData
<1>2. /\ UNCHANGED <<stored, latest, tasks, settled, up, resuming, crashes>>
      /\ job.pc = "clean" /\ job \in Job /\ m \in Messages
  BY Zenon DEF DeleteDisplacedData, RecordInv, ControlInv, TypeOK, rowVars, runVars
<1>3. job'.pc = "clean" /\ job'.msg = m /\ job'.data = job.data /\ job'.todo = job.todo \ {b}
  BY <1>1, <1>2, Zenon DEF Job
<1>4. job' \in Job
  BY <1>1, <1>2, Zenon DEF Job
<1>5. ControlInv'
  BY <1>1, <1>2, <1>3, <1>4, Zenon DEF RecordInv, ControlInv, TypeOK, BlobOf
<1>6. CleanInv
  BY Zenon DEF RecordInv
<1>7. CleanInv'
  <2>1. \A k \in job.todo \ {b} :
          \E n \in Messages : k = BlobOf(n) /\ n.rec = m.rec /\ n.data # m.data
    BY <1>2, <1>6, Zenon DEF CleanInv
  <2>2. \A r : LatestOf(r)' = LatestOf(r)
    BY <1>2, Zenon DEF LatestOf
  <2>3. /\ m \in stored /\ LatestOf(m.rec) \subseteq {m} /\ (m.delete => m \in tasks)
        /\ m.delete \/ job.data \/ ~m.initial => m \in latest
    BY <1>2, <1>6, Zenon DEF CleanInv
  <2> QED
    BY <1>2, <1>3, <2>1, <2>2, <2>3, Zenon DEF CleanInv, BlobOf
<1>8. WriteInv' /\ TaskInv'
  BY <1>3, Zenon DEF WriteInv, TaskInv
<1>9. RowInv' /\ RootKnown'
  BY <1>2, Zenon DEF RecordInv, RowInv, RootKnown, DeletesOf, WritesOf, Rows, HasInitial
<1>10. PICK n \in Messages : b = BlobOf(n) /\ n.rec = m.rec /\ n.data # m.data
  BY <1>2, <1>6, Zenon DEF CleanInv
<1>11. \A k : BlobOf(k) = b => k.rec = m.rec /\ k # m
  BY <1>10, Zenon DEF BlobOf
<1>12. RootInv'
  <2>1. ASSUME NEW k \in stored, SoleRow(k), BlobOf(k) = b PROVE FALSE
    <3>1. m \in Rows(k.rec)
      BY <1>2, <1>6, <1>11, <2>1, Zenon DEF CleanInv, Rows
    <3> QED
      BY <1>11, <2>1, <3>1, Zenon DEF SoleRow
  <2> QED
    BY <1>1, <1>2, <2>1, RootsStay, Zenon
<1>13. DataInv'
  <2>1. \A k \in latest : BlobOf(k) # b
    BY <1>2, <1>6, <1>11, Zenon DEF CleanInv, LatestOf
  <2>2. \A r : PruneTold(r) => PruneTold(r)'
    BY <1>2, ToldStays, Zenon
  <2>3. \A r : PurgeBegun(r) => PurgeBegun(r)'
    BY <1>2, <2>2, Zenon DEF PurgeBegun, Siblings, Rows
  <2>4. \A k : Floored(k) => Floored(k)'
    BY <1>2, <2>2, Zenon DEF Floored
  <2>5. \A k \in latest : k.delete \/ BlobOf(k) \in blobs' \/ PurgeBegun(k.rec)'
    BY <1>1, <2>1, <2>3, Zenon DEF RecordInv, DataInv
  <2> QED
    BY <1>2, <2>4, <2>5, Zenon DEF RecordInv, DataInv, BlobOf
<1>14. TreeInv'
  <2>1. \A r : ~Purging(r) /\ ~Purging(r)' /\ ~StillToPurge(r)
    BY <1>2, <1>3, Zenon DEF Purging, StillToPurge
  <2> QED
    BY <1>2, <1>3, <2>1, Zenon
       DEF RecordInv, TreeInv, Rows, HasInitial, LatestOf, Pruned, WritesOf
<1> QED
  BY <1>5, <1>7, <1>8, <1>9, <1>12, <1>13, <1>14, Zenon DEF RecordInv

LEMMA FinishWriteKeeps ==
  ASSUME RecordInv, FinishWrite
  PROVE  RecordInv'
<1>0. PICK m : m = job.msg
  BY Zenon
<1> DEFINE r == m.rec
<1>1. /\ UNCHANGED <<stored, latest, blobs, tasks, up, resuming, crashes>> /\ job' = NoJob
      /\ job.pc = "clean" /\ ~m.delete /\ ~m.squash /\ m \in Messages
      /\ settled' = IF job.data \/ ~m.initial THEN settled \cup {m} ELSE settled
  BY <1>0, Zenon DEF FinishWrite, RecordInv, ControlInv, rowVars, runVars
<1>2. m \in stored /\ (m \in settled' \ settled => m \in latest)
  BY <1>0, <1>1, Zenon DEF RecordInv, CleanInv
<1>3. settled \subseteq settled' /\ settled' \subseteq settled \cup {m}
  BY <1>1, Zenon
<1>4. WriteInv' /\ CleanInv' /\ TaskInv' /\ job'.pc = "idle" /\ job'.msg = None /\ job' \in Job
  BY <1>1, JobOver, Zenon
<1>5. ControlInv'
  BY <1>1, <1>3, <1>4, Zenon DEF RecordInv, ControlInv, TypeOK, BlobOf
<1>6. RowInv' /\ RootKnown'
  BY <1>1, <1>2, <1>3, Zenon
     DEF RecordInv, RowInv, RootKnown, DeletesOf, WritesOf, Rows, HasInitial
<1>7. DataInv'
  BY <1>1, <1>3, DataKept, Zenon
<1>8. ASSUME Root(r), r \in Records, ~NewerWrite(r)' PROVE RootSound(r)'
  <2>1. ~NewerWrite(r) /\ RootSound(r)
    BY <1>1, <1>3, <1>8, ToldStays, Zenon DEF RecordInv, RootInv
  <2>2. Rows(r)' = Rows(r) /\ LatestOf(r)' = LatestOf(r) /\ m \in Rows(r) /\ m.ts \in Nat
    BY <1>1, <1>2, Message, Zenon DEF Rows, LatestOf
  <2>3. ASSUME DeletesOf(Rows(r)) = {} PROVE Undeleted(r)'
    <3>1. Undeleted(r)
      BY <2>1, <2>3, Zenon DEF RootSound
    <3>2. \A k \in settled' : k.rec = r => ~k.delete /\ \E n \in Rows(r) : k.ts <= n.ts
      BY <1>1, <1>3, <2>2, <3>1 DEF Undeleted
    <3>3. ASSUME LatestOf(r) = {}, NEW k \in Rows(r)
          PROVE  SoleRow(k) /\ (k \in settled' => BlobOf(k) \in blobs)
      <4>1. m \notin latest
        BY <3>3, Zenon DEF LatestOf
      <4> QED
        BY <1>2, <1>3, <3>1, <3>3, <4>1, Zenon DEF Undeleted
    <3> QED
      BY <1>1, <2>2, <3>2, <3>3, Zenon DEF Undeleted, SoleRow, Rows, BlobOf
  <2>4. ASSUME NEW d \in DeletesOf(Rows(r)) PROVE Deleted(r, d)'
    <3>1. Deleted(r, d)
      BY <2>1, <2>4, Zenon DEF RootSound
    <3> QED
      BY <1>1, <1>3, <2>2, <3>1, Zenon DEF Deleted, Beaten
  <2> QED
    BY <2>2, <2>3, <2>4, Zenon DEF RootSound, DeletesOf
<1>9. RootInv'
  BY <1>1, <1>3, <1>8, RootsKept, Zenon
<1>10. TreeInv'
  <2>1. crashes = 0 => tasks = {}
    BY <1>0, <1>1, Zenon DEF RecordInv, ControlInv, TypeOK, TreeInv
  <2> QED
    BY <1>0, <1>1, <1>4, <2>1, SettledStays, Zenon DEF NothingLeft
<1> QED
  BY <1>4, <1>5, <1>6, <1>7, <1>9, <1>10, Zenon DEF RecordInv

LEMMA RegisterTaskKeeps ==
  ASSUME RecordInv, RegisterTask
  PROVE  RecordInv'
<1> DEFINE m == job.msg
<1>1. /\ UNCHANGED <<stored, latest, blobs, settled, up, resuming, crashes>>
      /\ job.pc \in {"register", "clean"} /\ m \in Messages /\ job \in Job
      /\ job.pc = "clean" => m.squash
      /\ tasks' = tasks \cup {m} /\ job' = [job EXCEPT !.pc = "perform"]
  BY Zenon DEF RegisterTask, Goto, RecordInv, ControlInv, TypeOK, rowVars, runVars
<1>2. /\ job.pc = "register" => m.delete /\ HasInitial(m.rec)
      /\ job.pc = "clean" => m \in stored
  BY Zenon DEF RecordInv, TaskInv, CleanInv
<1>3. job'.pc = "perform" /\ job'.msg = m
  BY <1>1, Zenon DEF Job
<1>4. job' \in Job
  BY <1>1, Zenon DEF Job
<1>5. ControlInv'
  BY <1>1, <1>2, <1>3, <1>4, Zenon DEF RecordInv, ControlInv, TypeOK, BlobOf
<1>6. WriteInv' /\ CleanInv' /\ TaskInv'
  BY <1>1, <1>3 DEF WriteInv, CleanInv, TaskInv
<1>7. Root(m.rec) => HasInitial(m.rec)
  BY <1>1, <1>2, Message, Zenon
<1>8. RowInv' /\ RootKnown'
  BY <1>1, <1>7, Zenon DEF RecordInv, RowInv, RootKnown, DeletesOf, WritesOf, Rows, HasInitial
<1>9. RootInv'
  BY <1>1, RootsStay, Zenon
<1>10. DataInv'
  <2>1. m.squash => Floored(m)
    BY <1>1, <1>2, Message DEF Floored
  <2> QED
    BY <1>1, <2>1, DataKept, Zenon
<1>11. TreeInv'
  <2>1. crashes = 0 => tasks' \subseteq {job'.msg}
    BY <1>1, <1>3, Zenon DEF RecordInv, TreeInv
  <2>2. CASE job.pc = "register"
    <3>1. HasInitial(m.rec)'
      BY <1>1, <1>2, <2>2 DEF HasInitial, Rows
    <3>2. (job.pc = "perform" /\ job.msg.delete => HasInitial(job.msg.rec))'
      BY <1>3, <3>1, Zenon
    <3> QED
      BY <1>1, <2>1, <2>2, <3>2, SettledStays, Zenon DEF NothingLeft
  <2>3. CASE job.pc = "clean"
    <3>1. \A r : ~Purging(r) /\ ~Purging(r)' /\ ~StillToPurge(r)
      BY <1>3, <2>3, Zenon DEF Purging, StillToPurge
    <3>2. ~m.delete
      BY <1>1, <2>3, Message, Zenon
    <3> QED
      BY <1>1, <1>3, <2>1, <2>3, <3>1, <3>2, Zenon
      DEF RecordInv, TreeInv, Rows, HasInitial, LatestOf, Pruned, WritesOf
  <2> QED
    BY <1>1, <2>2, <2>3, Zenon
<1> QED
  BY <1>5, <1>6, <1>8, <1>9, <1>10, <1>11, Zenon DEF RecordInv

\* Without a write newer than it, a stored tombstone of a sound root is its
\* newest row.
LEMMA TombstoneIsNewest ==
  ASSUME ControlInv, NEW r \in Records, ~NewerWrite(r), NEW d \in DeletesOf(Rows(r)),
         \A e \in DeletesOf(Rows(r)) : LatestOf(r) = {e}
  PROVE  NewestRow(r) = {d} /\ \A n \in Rows(r) : n.ts <= d.ts
<1>1. d \in stored /\ d.rec = r /\ d.delete /\ stored \subseteq Messages
  BY Zenon DEF DeletesOf, Rows, ControlInv, TypeOK
<1>2. ASSUME NEW n \in Rows(r) PROVE n.ts <= d.ts
  <2>1. n \in Messages /\ d \in Messages /\ n \in stored /\ n.rec = r
    BY <1>1, Zenon DEF Rows
  <2>2. CASE n.delete
    BY <2>1, <2>2, Message DEF DeletesOf
  <2>3. CASE ~n.delete
    <3>1. ~(n.ts > d.ts)
      BY <1>1, <2>1, <2>3, Zenon DEF NewerWrite, WritesOf, DeletesOf, Known
    <3> QED
      BY <2>1, <3>1, Message
  <2> QED
    BY <2>2, <2>3, Zenon
<1> QED
  BY <1>1, <1>2, NewestRowIs, Zenon

\* A task is done: its message is settled, and beaten if it is not in the rows.
LEMMA UnregisterTaskKeeps ==
  ASSUME RecordInv, UnregisterTask
  PROVE  RecordInv'
<1>0. PICK m : m = job.msg
  BY Zenon
<1> DEFINE r == m.rec
<1>1. /\ UNCHANGED <<stored, latest, blobs, up, crashes>> /\ job' = NoJob
      /\ job.pc = "unregister" \/ (job.pc = "purge" /\ job.todo = {})
      /\ tasks' = tasks \ {m} /\ settled' = settled \cup {m} /\ resuming' = resuming \ {m}
  BY <1>0, Zenon DEF UnregisterTask, Settle, rowVars
<1>2. m \in tasks /\ m \in Messages /\ (m.delete \/ m.squash)
  BY <1>0, <1>1, Zenon DEF RecordInv, ControlInv, TypeOK, TaskInv
<1>3. /\ job.pc = "unregister" => m.delete /\ \A n \in NewestRow(r) : Beaten(m, n)
      /\ job.pc = "purge" /\ m.delete => m \in latest
  BY <1>0, Zenon DEF RecordInv, TaskInv
<1>4. WriteInv' /\ CleanInv' /\ TaskInv' /\ job'.pc = "idle" /\ job'.msg = None /\ job' \in Job
  BY <1>1, JobOver, Zenon
<1>5. ControlInv'
  BY <1>1, <1>2, <1>4, Zenon DEF RecordInv, ControlInv, TypeOK, BlobOf
<1>6. RowInv' /\ RootKnown'
  BY <1>1, <1>2, Zenon DEF RecordInv, RowInv, RootKnown, DeletesOf, WritesOf, Rows, HasInitial
<1>7. DataInv'
  BY <1>1, DataKept, Zenon
<1>8. ASSUME Root(r), r \in Records, ~NewerWrite(r)' PROVE RootSound(r)'
  <2>1. ~NewerWrite(r) /\ RootSound(r)
    BY <1>1, <1>8, ToldStays, Zenon DEF RecordInv, RootInv
  <2>2. Rows(r)' = Rows(r) /\ LatestOf(r)' = LatestOf(r) /\ Rows(r) \subseteq Messages
    BY <1>1, Zenon DEF Rows, LatestOf, RecordInv, ControlInv, TypeOK
  <2>3. m.delete
    BY <1>2, <1>8, Message, Zenon
  <2>4. ASSUME DeletesOf(Rows(r)) = {} PROVE FALSE
    <3>1. Rows(r) # {}
      BY <1>2, <1>8, Zenon DEF RecordInv, RootKnown, HasInitial
    <3>2. Newest(Rows(r)) \in NewestRow(r) /\ Newest(Rows(r)) \in Rows(r)
      BY <2>2, <3>1, NewestIs, Zenon DEF NewestRow
    <3>3. job.pc # "unregister"
      BY <1>3, <2>4, <3>2, Zenon DEF Beaten, DeletesOf
    <3>4. m \in Rows(r)
      BY <1>1, <1>3, <2>3, <3>3, Zenon DEF Rows, RecordInv, ControlInv, TypeOK
    <3> QED
      BY <2>3, <2>4, <3>4, Zenon DEF DeletesOf
  <2>5. ASSUME NEW d \in DeletesOf(Rows(r)) PROVE Deleted(r, d)'
    <3>1. \A e \in DeletesOf(Rows(r)) : Deleted(r, e)
      BY <2>1, <2>5, Zenon DEF RootSound
    <3>2. \A e \in DeletesOf(Rows(r)) : LatestOf(r) = {e}
      BY <3>1, Zenon DEF Deleted
    <3>3. NewestRow(r) = {d} /\ d \in Messages /\ d.delete
      BY <1>8, <2>1, <2>2, <3>2, TombstoneIsNewest, Zenon DEF RecordInv, DeletesOf
    <3>4. Beaten(d, d)
      BY <3>3, Message DEF Beaten
    <3>5. Beaten(m, d)
      BY <1>1, <1>3, <2>3, <3>2, <3>3, <3>4, Zenon DEF LatestOf
    <3> QED
      BY <1>1, <2>2, <3>1, <3>5, Zenon DEF Deleted, Beaten
  <2> QED
    BY <2>2, <2>4, <2>5, Zenon DEF RootSound, DeletesOf
<1>9. RootInv'
  BY <1>1, <1>8, RootsKept, Zenon
<1>10. TreeInv'
  <2>1. crashes = 0 => tasks' = {}
    BY <1>0, <1>1, Zenon DEF RecordInv, TreeInv
  <2> QED
    BY <1>1, <1>4, <2>1, SettledStays, Zenon DEF NothingLeft
<1> QED
  BY <1>4, <1>5, <1>6, <1>7, <1>9, <1>10, Zenon DEF RecordInv

\* The data of ancestry is here: its row becomes the latest state.
LEMMA CompleteDataKeeps ==
  ASSUME RecordInv, CompleteData
  PROVE  RecordInv'
<1>0. PICK m : m = job.msg
  BY Zenon
<1> DEFINE r == m.rec
<1>1. /\ UNCHANGED <<stored, blobs, tasks, up, resuming, crashes>> /\ job' = NoJob
      /\ job.pc = "complete" /\ latest' = latest \cup {m} /\ settled' = settled \cup {m}
  BY <1>0, Zenon DEF CompleteData, Settle, runVars
<1>2. /\ m \in Messages /\ SoleRow(m) /\ BlobOf(m) \in blobs /\ ~m.delete
      /\ stored \subseteq Messages /\ latest \subseteq stored
  BY <1>0, <1>1, Zenon DEF RecordInv, ControlInv, TypeOK, WriteInv
<1>3. m \in stored /\ Rows(r) = {m} /\ m \notin latest /\ m.initial /\ LatestOf(r) = {} /\ r \in Records
  BY <1>2, Message, Zenon DEF SoleRow, Rows, LatestOf
<1>4. WriteInv' /\ CleanInv' /\ TaskInv' /\ job'.pc = "idle" /\ job'.msg = None /\ job' \in Job
  BY <1>1, JobOver, Zenon
<1>5. ControlInv'
  BY <1>1, <1>2, <1>3, <1>4, Zenon DEF RecordInv, ControlInv, TypeOK, BlobOf
<1>6. \A q : Rows(q)' = Rows(q) /\ (q # r => LatestOf(q)' = LatestOf(q)) /\ LatestOf(r)' = {m}
  BY <1>1, <1>3, Zenon DEF Rows, LatestOf
<1>7. RowInv'
  <2>1. \A d \in DeletesOf(stored)' : d \in (tasks \cup settled)'
    BY <1>1, Zenon DEF RecordInv, RowInv, DeletesOf
  <2>2. \A k, n \in latest' : k.rec = n.rec => k = n
    BY <1>1, <1>3, Zenon DEF RecordInv, RowInv, LatestOf
  <2>3. \A w \in WritesOf(latest)' : \A n \in Rows(w.rec)' : n.ts <= w.ts
    BY <1>1, <1>2, <1>3, <1>6, Message DEF RecordInv, RowInv, WritesOf
  <2> QED
    BY <2>1, <2>2, <2>3, Zenon DEF RowInv
<1>8. RootKnown'
  BY <1>1, <1>3, Zenon DEF RecordInv, RootKnown, HasInitial, Rows
<1>9. \A q : /\ NewerWrite(q) => NewerWrite(q)'
             /\ PruneTold(q) => PruneTold(q)'
  BY <1>1, ToldStays, Zenon
<1>10. RootInv'
  <2> SUFFICES ASSUME NEW q \in Records, Root(q), ~NewerWrite(q)' PROVE RootSound(q)'
    BY Zenon DEF RootInv
  <2>1. ~NewerWrite(q) /\ RootSound(q)
    BY <1>9, Zenon DEF RecordInv, RootInv
  <2>2. CASE q # r
    <3>1. \A k : k.rec = q => (k \in settled' <=> k \in settled)
      BY <1>1, <2>2, Zenon
    <3> QED
      BY <1>1, <1>6, <1>9, <2>1, <2>2, <3>1, RootUntouched, Zenon
  <2>3. CASE q = r
    <3>1. DeletesOf(Rows(r)) = {} /\ m.ts \in Nat
      BY <1>2, <1>3, Message, Zenon DEF DeletesOf
    <3>2. Undeleted(r)
      BY <2>1, <2>3, <3>1, Zenon DEF RootSound
    <3>3. Undeleted(r)'
      BY <1>1, <1>2, <1>3, <1>6, <3>1, <3>2 DEF Undeleted
    <3> QED
      BY <1>6, <2>3, <3>1, <3>3, Zenon DEF RootSound, DeletesOf
  <2> QED
    BY <2>2, <2>3, Zenon
<1>11. DataInv'
  <2>1. \A q : PurgeBegun(q) => PurgeBegun(q)'
    BY <1>1, <1>6, <1>9, Zenon DEF PurgeBegun, Siblings
  <2>2. \A k : Floored(k) => Floored(k)'
    BY <1>1, <1>9, Zenon DEF Floored
  <2> QED
    BY <1>1, <1>2, <2>1, <2>2, Zenon DEF RecordInv, DataInv, BlobOf
<1>12. TreeInv'
  <2> SUFFICES ASSUME crashes' = 0 PROVE TreeSettled' /\ up' = "open" /\ tasks' \subseteq {job'.msg}
    BY <1>4, <1>5, TreeAgain, Zenon DEF ControlInv
  <2>1. TreeSettled /\ up = "open" /\ tasks \subseteq {m}
    BY <1>0, <1>1, Settled, Zenon DEF NothingLeft
  <2>2. Root(r)
    BY <1>3, <2>1, Zenon DEF TreeSettled
  <2>3. tasks = {}
    BY <1>2, <2>1, <2>2, Message, Zenon DEF RecordInv, ControlInv, TypeOK
  <2>4. ASSUME NEW q \in Records, Rows(q)' # {}
        PROVE  HasInitial(q)' /\ (~Root(q) => LatestOf(q)' # {} /\ ~Pruned(ParentOf[q])')
    BY <1>6, <2>1, <2>2, <2>4, Zenon DEF TreeSettled, HasInitial, Pruned
  <2>5. ASSUME NEW w \in WritesOf(latest)', NEW s \in latest', s.squash, w.rec \in Siblings(s.rec)
        PROVE  s.ts < w.ts
    <3>1. s \in Messages
      BY <1>1, <1>2, Zenon
    <3>2. ~Root(s.rec) /\ ~Root(w.rec)
      BY <2>5, <3>1, Message, Zenon DEF Siblings, Root
    <3>3. w \in WritesOf(latest) /\ s \in latest
      BY <1>1, <2>2, <3>2, Zenon DEF WritesOf
    <3> QED
      BY <2>1, <2>5, <3>3, Zenon DEF TreeSettled
  <2> QED
    BY <1>1, <2>1, <2>3, <2>4, <2>5, Zenon DEF TreeSettled
<1> QED
  BY <1>4, <1>5, <1>7, <1>8, <1>10, <1>11, <1>12, Zenon DEF RecordInv

-----------------------------------------------------------------------------
(* A message takes the latest state of its record. *)

\* The stores and the job after commitLatestStateTransition.
Committed(m, retained, isLatest) ==
  /\ Rows(m.rec)' = retained \cup {m}
  /\ LatestOf(m.rec)' \subseteq {m} /\ (isLatest => m \in latest')
  /\ \A q : q # m.rec => Rows(q)' = Rows(q) /\ LatestOf(q)' = LatestOf(q)
  /\ \A k : k # m /\ k.rec # m.rec =>
       /\ k \in stored' <=> k \in stored
       /\ k \in latest' <=> k \in latest
  /\ m \in stored' /\ stored' \subseteq stored \cup {m} /\ latest' \subseteq latest \cup {m}
  /\ stored' \subseteq Messages /\ latest' \subseteq stored'
  /\ job'.pc = "clean" /\ job'.msg = m /\ job'.data = job.data /\ job' \in Job
  /\ \A b \in job'.todo :
       \E k \in Messages : b = BlobOf(k) /\ k.rec = m.rec /\ k.data # m.data

LEMMA CommitShape ==
  ASSUME ControlInv, NEW m \in Messages, m = job.msg, NEW retained, retained \subseteq Rows(m.rec),
         NEW isLatest \in BOOLEAN, CommitLatest(m, retained, isLatest)
  PROVE  Committed(m, retained, isLatest)
<1> DEFINE displaced == Rows(m.rec) \ {m}
           todo == Unshared(m, displaced)
<1>1. /\ stored' = (stored \ (displaced \ retained)) \cup {m}
      /\ latest' = (latest \ displaced) \cup (IF isLatest THEN {m} ELSE {})
      /\ job' = [job EXCEPT !.pc = "clean", !.todo = todo]
  BY Zenon DEF CommitLatest
<1>2. stored \subseteq Messages /\ latest \subseteq stored /\ job \in Job
  BY Zenon DEF ControlInv, TypeOK
<1>3. job'.pc = "clean" /\ job'.msg = m /\ job'.data = job.data /\ job'.todo = todo
  BY <1>1, <1>2, Zenon DEF Job
<1>4. \A b \in todo : \E k \in Messages : b = BlobOf(k) /\ k.rec = m.rec /\ k.data # m.data
  BY <1>2, Zenon DEF Unshared, WritesOf, Rows
<1>5. job' \in Job
  <2>1. todo \in SUBSET (Records \cup {BlobOf(k) : k \in Messages})
    BY <1>4, Zenon
  <2> HIDE DEF todo
  <2> QED
    BY <1>1, <1>2, <2>1, Zenon DEF Job
<1>6. Rows(m.rec)' = retained \cup {m}
  BY <1>1, Zenon DEF Rows
<1>7. LatestOf(m.rec)' \subseteq {m} /\ (isLatest => m \in latest')
  BY <1>1, <1>2, Zenon DEF LatestOf, Rows
<1>8. \A q : q # m.rec => Rows(q)' = Rows(q) /\ LatestOf(q)' = LatestOf(q)
  BY <1>1, <1>2, Zenon DEF LatestOf, Rows
<1>9. \A k : k # m /\ k.rec # m.rec =>
        /\ k \in stored' <=> k \in stored
        /\ k \in latest' <=> k \in latest
  BY <1>1, Zenon DEF Rows
<1>10. /\ m \in stored' /\ stored' \subseteq stored \cup {m} /\ latest' \subseteq latest \cup {m}
       /\ stored' \subseteq Messages /\ latest' \subseteq stored'
  BY <1>1, <1>2, Zenon DEF Rows
<1> QED
  BY <1>3, <1>4, <1>5, <1>6, <1>7, <1>8, <1>9, <1>10, Zenon DEF Committed

\* Without a crash, only what the message itself is to purge is left.
LEMMA CommitTree ==
  ASSUME RecordInv, NEW m \in Messages, m = job.msg, NEW retained, retained \subseteq Rows(m.rec),
         NEW isLatest \in BOOLEAN, CommitLatest(m, retained, isLatest), NothingLeft,
         UNCHANGED <<tasks, up, crashes>>, HasInitial(m.rec)',
         \A k \in retained : ~k.delete,
         ~Root(m.rec) => isLatest,
         crashes = 0 /\ ~Root(m.rec) => ~Pruned(ParentOf[m.rec]),
         \A s \in latest : ~m.delete /\ s.squash /\ m.rec \in Siblings(s.rec) => ~(m.ts <= s.ts)
  PROVE  TreeInv'
<1> DEFINE r == m.rec
<1> SUFFICES ASSUME crashes = 0 PROVE TreeInv'
  BY Zenon DEF TreeInv
<1>1. TreeSettled /\ up = "open" /\ tasks \subseteq {m} /\ ControlInv
  BY Settled, Zenon DEF RecordInv
<1>2. /\ Rows(r)' = retained \cup {m}
      /\ LatestOf(r)' \subseteq {m} /\ (isLatest => m \in latest')
      /\ \A q : q # r => Rows(q)' = Rows(q) /\ LatestOf(q)' = LatestOf(q)
      /\ latest' \subseteq latest \cup {m}
      /\ stored' \subseteq Messages /\ latest' \subseteq stored'
      /\ job'.pc = "clean" /\ job'.msg = m
  <2>1. Committed(m, retained, isLatest)
    BY <1>1, CommitShape, Zenon
  <2> QED
    BY <2>1, Zenon DEF Committed
<1>3. \A q : ~Purging(q)'
  BY <1>2, Zenon DEF Purging
<1>4. ASSUME NEW q \in Records, Rows(q)' # {} PROVE HasInitial(q)'
  BY <1>1, <1>2, <1>4, Zenon DEF TreeSettled, HasInitial
<1>5. ASSUME NEW q \in Records, Rows(q)' # {}, ~Root(q) PROVE LatestOf(q)' # {}
  BY <1>1, <1>2, <1>5, Zenon DEF TreeSettled, LatestOf
<1>6. ASSUME NEW q \in Records, Rows(q)' # {}, ~Root(q), Pruned(ParentOf[q])'
      PROVE  m.delete /\ m.prune /\ r = ParentOf[q]
  <2>1. CASE ParentOf[q] # r
    <3>1. Pruned(ParentOf[q])
      BY <1>2, <1>6, <2>1, Zenon DEF Pruned
    <3>2. q # r
      BY <1>6, <3>1, Zenon
    <3> QED
      BY <1>1, <1>2, <1>6, <3>1, <3>2, Zenon DEF TreeSettled
  <2>2. CASE ParentOf[q] = r
    BY <1>2, <1>6, <2>2, Zenon DEF Pruned
  <2> QED
    BY <2>1, <2>2, Zenon
<1>7. ASSUME NEW w \in WritesOf(latest)', NEW s \in latest', s.squash, w.rec \in Siblings(s.rec),
             w.ts <= s.ts
      PROVE  m = s
  <2> SUFFICES ASSUME m # s PROVE FALSE
    BY Zenon
  <2>1. s \in latest /\ w \in latest' /\ ~w.delete /\ w \in Messages /\ s \in Messages
    BY <1>2, Zenon DEF WritesOf
  <2>2. w # m
    BY <1>7, <2>1, Zenon
  <2>3. w \in WritesOf(latest)
    BY <1>2, <2>1, <2>2, Zenon DEF WritesOf
  <2>4. s.ts < w.ts /\ s.ts \in Nat /\ w.ts \in Nat
    BY <1>1, <1>7, <2>1, <2>3, Message, Zenon DEF TreeSettled
  <2> QED
    BY <1>7, <2>4
<1> QED
  BY <1>1, <1>2, <1>3, <1>4, <1>5, <1>6, <1>7, Zenon DEF TreeInv

\* The rest of the invariant, for both kinds of message.
LEMMA CommitKeeps ==
  ASSUME RecordInv, NEW m \in Messages, m = job.msg, NEW retained, retained \subseteq Rows(m.rec),
         NEW isLatest \in BOOLEAN, CommitLatest(m, retained, isLatest),
         UNCHANGED <<blobs, tasks, up, resuming, settled, crashes>>, HasInitial(m.rec)',
         \A k \in retained : ~k.delete,
         \A k \in Rows(m.rec) : k.initial => k \in retained,
         isLatest <=> m.delete \/ job.data \/ ~m.initial,
         m.delete => m \in tasks,
         m \in latest => m.delete,
         ~m.delete => \A n \in retained : n.ts <= m.ts,
         isLatest /\ ~m.delete => BlobOf(m) \in blobs,
         NewerWrite(m.rec) => NewerWrite(m.rec)',
         Root(m.rec) /\ ~NewerWrite(m.rec)' => RootSound(m.rec)',
         Root(m.rec) /\ ~NewerWrite(m.rec)' /\ Pruned(m.rec) => m.delete /\ m.prune,
         TreeInv'
  PROVE  RecordInv'
<1> DEFINE r == m.rec
<1>1. /\ Rows(r)' = retained \cup {m}
      /\ LatestOf(r)' \subseteq {m} /\ (isLatest => m \in latest')
      /\ \A q : q # r => Rows(q)' = Rows(q) /\ LatestOf(q)' = LatestOf(q)
      /\ \A k : k # m /\ k.rec # r =>
           /\ k \in stored' <=> k \in stored
           /\ k \in latest' <=> k \in latest
      /\ m \in stored' /\ stored' \subseteq stored \cup {m} /\ latest' \subseteq latest \cup {m}
      /\ stored' \subseteq Messages /\ latest' \subseteq stored'
      /\ job'.pc = "clean" /\ job'.msg = m /\ job'.data = job.data /\ job' \in Job
      /\ \A b \in job'.todo :
           \E k \in Messages : b = BlobOf(k) /\ k.rec = r /\ k.data # m.data
  <2>1. Committed(m, retained, isLatest)
    BY CommitShape, Zenon DEF RecordInv
  <2> QED
    BY <2>1, Zenon DEF Committed
<1>2. r \in Records /\ m.ts \in Nat
  BY Message, Zenon
<1>3. ControlInv'
  BY <1>1, Zenon DEF RecordInv, ControlInv, TypeOK, BlobOf
<1>4. WriteInv' /\ TaskInv'
  BY <1>1, Zenon DEF WriteInv, TaskInv
<1>5. CleanInv'
  BY <1>1, Zenon DEF CleanInv, BlobOf
<1>6. RowInv'
  <2>1. \A d \in DeletesOf(stored)' : d \in (tasks \cup settled)'
    BY <1>1, Zenon DEF RecordInv, RowInv, DeletesOf
  <2>0. /\ LatestOf(r)' \subseteq {m} /\ latest' \subseteq latest \cup {m}
        /\ \A k \in latest' : k.rec = r => k = m
    BY <1>1, Zenon DEF LatestOf
  <2>2. ASSUME NEW k \in latest', NEW n \in latest', k.rec = n.rec PROVE k = n
    <3>1. CASE k.rec = r
      BY <2>0, <2>2, <3>1, Zenon
    <3>2. CASE k.rec # r
      BY <2>0, <2>2, <3>2, Zenon DEF RecordInv, RowInv
    <3> QED
      BY <3>1, <3>2, Zenon
  <2>3. ASSUME NEW w \in WritesOf(latest)', NEW n \in Rows(w.rec)' PROVE n.ts <= w.ts
    <3>1. CASE w = m
      <4>1. ~m.delete /\ n \in retained \cup {m}
        BY <1>1, <2>3, <3>1, Zenon DEF WritesOf
      <4> QED
        BY <1>2, <3>1, <4>1
    <3>2. CASE w # m
      <4>1. w.rec # r /\ w \in WritesOf(latest)
        BY <2>0, <3>2, Zenon DEF WritesOf
      <4> QED
        BY <1>1, <2>3, <4>1, Zenon DEF RecordInv, RowInv
    <3> QED
      BY <3>1, <3>2, Zenon
  <2> QED
    BY <2>1, <2>2, <2>3, Zenon DEF RowInv
<1>7. RootKnown'
  <2> SUFFICES ASSUME NEW k \in (settled \cup tasks \cup stored)', Root(k.rec) PROVE HasInitial(k.rec)'
    BY Zenon DEF RootKnown
  <2>1. CASE k.rec = r
    BY <2>1, Zenon
  <2>2. CASE k.rec # r
    <3>1. HasInitial(k.rec)
      BY <1>1, <2>2, Zenon DEF RecordInv, RootKnown
    <3> QED
      BY <1>1, <2>2, <3>1, Zenon DEF HasInitial
  <2> QED
    BY <2>1, <2>2, Zenon
<1>8. \A q : q # r => Known(q)' = Known(q)
  BY <1>1, Zenon DEF Known
<1>9. \A q : NewerWrite(q) => NewerWrite(q)'
  BY <1>8, Zenon DEF NewerWrite, WritesOf, DeletesOf
<1>10. RootInv'
  <2> SUFFICES ASSUME NEW q \in Records, Root(q), q # r PROVE ~NewerWrite(q)' => RootSound(q)'
    BY Zenon DEF RootInv
  <2> QED
    BY <1>1, <1>9, RootUntouched, Zenon DEF RecordInv, RootInv
<1>11. ASSUME NEW q \in Records, Root(q), PruneTold(q) PROVE PruneTold(q)'
  <2>1. CASE q # r
    BY <1>1, <1>8, <1>9, <1>11, <2>1, Zenon DEF PruneTold, Pruned
  <2>2. CASE q = r
    <3>1. \A d \in DeletesOf(Known(r)) : d \in DeletesOf(Known(r))'
      BY <1>1, Zenon DEF RecordInv, RowInv, DeletesOf, Known
    <3>2. \A d \in Rows(r) : d.delete => d \in DeletesOf(Known(r))
      BY Zenon DEF DeletesOf, Known, Rows
    <3>3. CASE NewerWrite(r)'
      BY <1>11, <2>2, <3>1, <3>2, <3>3, Zenon DEF PruneTold, Pruned
    <3>4. CASE ~NewerWrite(r)'
      <4>1. m.delete /\ m.prune
        BY <1>9, <1>11, <2>2, <3>4, Zenon DEF PruneTold
      <4> QED
        BY <1>1, <2>2, <4>1, Zenon DEF PruneTold, Pruned
    <3> QED
      BY <3>3, <3>4, Zenon
  <2> QED
    BY <2>1, <2>2, Zenon
<1>12. ASSUME NEW s \in stored, s.squash PROVE s \in stored'
  <2>1. s.initial
    BY <1>12, Message, Zenon DEF RecordInv, ControlInv, TypeOK
  <2>2. CASE s.rec = r
    BY <1>1, <2>1, <2>2, Zenon DEF Rows
  <2>3. CASE s.rec # r
    BY <1>1, <2>3, Zenon
  <2> QED
    BY <2>2, <2>3, Zenon
<1>13. ASSUME NEW q \in Records, q # r, PurgeBegun(q) PROVE PurgeBegun(q)'
  <2>1. CASE ParentOf[q] # None /\ PruneTold(ParentOf[q])
    BY <1>11, <2>1, Parents, Zenon DEF PurgeBegun, Root
  <2>2. CASE \E s \in stored : s.squash /\ q \in Siblings(s.rec) /\ \A n \in Rows(q) : n.ts < s.ts
    BY <1>1, <1>12, <1>13, <2>2, Zenon DEF PurgeBegun, Siblings
  <2> QED
    BY <1>13, <2>1, <2>2, Zenon DEF PurgeBegun
<1>14. ASSUME NEW k \in tasks, k.squash PROVE Floored(k)'
  <2>1. k \in Messages /\ Floored(k)
    BY <1>14, Zenon DEF RecordInv, DataInv, ControlInv, TypeOK
  <2>2. ParentOf[k.rec] \in Records /\ Root(ParentOf[k.rec])
    BY <1>14, <2>1, Message, Parents, Zenon
  <2> QED
    BY <1>11, <1>12, <2>1, <2>2, Zenon DEF Floored
<1>15. ASSUME NEW k \in latest' PROVE k.delete \/ BlobOf(k) \in blobs' \/ PurgeBegun(k.rec)'
  <2>1. CASE k = m
    <3>1. isLatest \/ m.delete
      BY <2>1, Zenon DEF CommitLatest
    <3> QED
      BY <2>1, <3>1, Zenon
  <2>2. CASE k # m
    <3>1. k.rec # r /\ k \in latest /\ k.rec \in Records
      BY <1>1, <2>2, Message, Zenon DEF LatestOf
    <3> QED
      BY <1>13, <3>1, Zenon DEF RecordInv, DataInv
  <2> QED
    BY <2>1, <2>2, Zenon
<1>16. DataInv'
  BY <1>14, <1>15, Zenon DEF DataInv
<1> QED
  BY <1>3, <1>4, <1>5, <1>6, <1>7, <1>10, <1>16, Zenon DEF RecordInv

\* Of two tombstones one beats the other.
LEMMA BeatenTotal ==
  ASSUME NEW m \in Messages, NEW n \in Messages, m.delete, n.delete, ~Beaten(m, n)
  PROVE  Beaten(n, m)
  BY Message DEF Beaten

\* A write that is newer than the rows of its record, with no tombstone on top.
LEMMA CommitWriteKeeps ==
  ASSUME RecordInv, CommitWrite
  PROVE  RecordInv'
<1>0. PICK m : m = job.msg
  BY Zenon
<1>1. PICK retained : retained = {k \in Rows(m.rec) : k.initial}
  BY Zenon
<1>2. PICK isLatest : isLatest = (job.data \/ ~m.initial)
  BY Zenon
<1> DEFINE r == m.rec
<1>3. /\ job.pc = "commit" /\ UNCHANGED <<blobs, tasks, up, resuming, settled, crashes>>
      /\ CommitLatest(m, retained, isLatest)
  BY <1>0, <1>1, <1>2, Zenon DEF CommitWrite, runVars
<1>4. /\ m \in Messages /\ ~m.delete /\ WriteReady(m) /\ ControlInv
      /\ IF m.initial /\ ~job.data THEN r \in Dataless ELSE BlobOf(m) \in blobs
  BY <1>0, <1>3, Zenon DEF RecordInv, ControlInv, WriteInv
<1>5. /\ m \notin stored /\ IsNewest(m) /\ ~AfterDelete(m) /\ WriteInPlace(m) /\ ~BelowSquash(m)
      /\ stored \subseteq Messages /\ latest \subseteq stored
  BY <1>4, Zenon DEF WriteReady, ControlInv, TypeOK
<1>6. r \in Records /\ m.ts \in Nat /\ Rows(r) \subseteq Messages /\ m.initial \in BOOLEAN
  BY <1>4, <1>5, Message, Zenon DEF Rows
<1>7. isLatest \in BOOLEAN /\ job.data \in BOOLEAN /\ retained \subseteq Rows(r)
  BY <1>1, <1>2, <1>4, <1>6, Zenon DEF ControlInv, TypeOK, Job
<1>8. /\ Rows(r)' = retained \cup {m} /\ LatestOf(r)' \subseteq {m}
      /\ isLatest => m \in latest'
      /\ m \in stored' /\ stored' \subseteq stored \cup {m}
  <2>1. Committed(m, retained, isLatest)
    BY <1>0, <1>3, <1>4, <1>7, CommitShape, Zenon
  <2> QED
    BY <2>1, Zenon DEF Committed
<1>9. \A n \in Rows(r) : n.ts < m.ts
  BY <1>5, Zenon DEF IsNewest
<1>10. \A k \in retained : ~k.delete
  BY <1>1, <1>6, Message, Zenon
<1>11. HasInitial(r)'
  BY <1>1, <1>5, <1>8, Zenon DEF HasInitial, WriteInPlace
<1>12. ASSUME NewerWrite(r) PROVE NewerWrite(r)'
  <2>1. PICK w \in WritesOf(Known(r)), d \in DeletesOf(Known(r)) : w.ts > d.ts
    BY <1>12, Zenon DEF NewerWrite
  <2>2. d \in DeletesOf(Known(r))'
    BY <1>3, Zenon DEF RecordInv, RowInv, DeletesOf, Known
  <2>3. m \in WritesOf(Known(r))'
    BY <1>4, <1>8, Zenon DEF WritesOf, Known
  <2>4. CASE w \in WritesOf(Known(r))'
    BY <2>1, <2>2, <2>4, Zenon DEF NewerWrite
  <2>5. CASE w \notin WritesOf(Known(r))'
    <3>1. w \in Rows(r)
      BY <1>3, <2>5, Zenon DEF WritesOf, Known, Rows
    <3>2. w.ts < m.ts /\ w.ts \in Nat /\ d.ts \in Nat
      BY <1>6, <1>9, <3>1, Message, Zenon DEF DeletesOf, Known, RecordInv, ControlInv, TypeOK
    <3>3. m.ts > d.ts
      BY <1>6, <2>1, <3>2
    <3> QED
      BY <2>2, <2>3, <3>3, Zenon DEF NewerWrite
  <2> QED
    BY <2>4, <2>5, Zenon
<1>13. ASSUME Root(r), ~NewerWrite(r)' PROVE DeletesOf(Rows(r)) = {} /\ Undeleted(r)
  <2>1. ~NewerWrite(r) /\ RootSound(r)
    BY <1>6, <1>12, <1>13, Zenon DEF RecordInv, RootInv
  <2>2. ASSUME NEW d \in DeletesOf(Rows(r)) PROVE FALSE
    <3>1. \A e \in DeletesOf(Rows(r)) : LatestOf(r) = {e}
      BY <2>1, <2>2, Zenon DEF RootSound, Deleted
    <3>2. NewestRow(r) = {d} /\ d.delete
      BY <1>4, <1>6, <2>1, <3>1, TombstoneIsNewest, Zenon DEF DeletesOf
    <3> QED
      BY <1>5, <3>2, Zenon DEF AfterDelete
  <2> QED
    BY <2>1, <2>2, Zenon DEF RootSound
<1>14. ASSUME Root(r), ~NewerWrite(r)' PROVE RootSound(r)'
  <2>1. Undeleted(r)
    BY <1>13, <1>14, Zenon
  <2>2. \A k \in settled : k.rec = r => ~k.delete /\ \E n \in Rows(r) : k.ts <= n.ts
    BY <2>1, Zenon DEF Undeleted
  <2>3. ASSUME NEW k \in settled', k.rec = r PROVE ~k.delete /\ \E n \in Rows(r)' : k.ts <= n.ts
    <3>1. PICK n \in Rows(r) : k.ts <= n.ts /\ ~k.delete
      BY <1>3, <2>2, <2>3, Zenon
    <3>2. k.ts \in Nat /\ n.ts \in Nat /\ n.ts < m.ts
      BY <1>3, <1>6, <1>9, Message, Zenon DEF RecordInv, ControlInv, TypeOK
    <3>3. k.ts <= m.ts
      BY <1>6, <3>1, <3>2
    <3> QED
      BY <1>8, <3>1, <3>3, Zenon
  <2>4. ASSUME LatestOf(r)' = {}, NEW k \in Rows(r)'
        PROVE  SoleRow(k)' /\ (k \in settled' => BlobOf(k) \in blobs')
    <3>1. m.initial /\ m \notin latest'
      BY <1>2, <1>8, <2>4, Zenon DEF LatestOf
    <3>2. retained = {}
      BY <1>1, <1>4, <1>5, <1>6, <3>1, Distinct, Zenon DEF Rows
    <3>3. k = m /\ SoleRow(m)'
      BY <1>8, <2>4, <3>1, <3>2, Zenon DEF SoleRow
    <3>4. m \notin settled
      <4> SUFFICES ASSUME m \in settled PROVE FALSE
        BY Zenon
      <4>1. PICK n \in Rows(r) : m.ts <= n.ts
        BY <2>2, Zenon
      <4>2. n.ts \in Nat /\ n.ts < m.ts
        BY <1>6, <1>9, Message, Zenon
      <4> QED
        BY <1>6, <4>1, <4>2
    <3> QED
      BY <1>3, <3>3, <3>4, Zenon
  <2>5. Undeleted(r)'
    BY <2>3, <2>4, Zenon DEF Undeleted
  <2>6. DeletesOf(Rows(r))' = {}
    BY <1>4, <1>8, <1>10, Zenon DEF DeletesOf
  <2> QED
    BY <2>5, <2>6, Zenon DEF RootSound
<1>15. Root(r) /\ ~NewerWrite(r)' => ~Pruned(r)
  BY <1>13, Zenon DEF Pruned, DeletesOf
<1>16. ~Root(r) => isLatest
  BY <1>2, <1>4, <1>6, RecordAssumption, Zenon DEF Root
<1>17. TreeInv'
  <2>1. ~Root(r) => ~Pruned(ParentOf[r])
    BY <1>5, Zenon DEF WriteInPlace, ParentFound, Root
  <2>2. ASSUME NEW s \in latest, s.squash, r \in Siblings(s.rec) PROVE ~(m.ts <= s.ts)
    <3>1. s \in Messages
      BY <1>5, Zenon
    <3>2. s.rec \in Siblings(r) /\ ParentOf[r] # None
      BY <1>6, <2>2, <3>1, Message, Zenon DEF Siblings, Root
    <3> QED
      BY <1>5, <2>2, <3>2, Zenon DEF BelowSquash
  <2>3. NothingLeft
    BY <1>3, Zenon DEF NothingLeft
  <2> QED
    BY <1>0, <1>3, <1>4, <1>7, <1>10, <1>11, <1>16, <2>1, <2>2, <2>3, CommitTree, Zenon
<1>18. /\ \A k \in Rows(r) : k.initial => k \in retained
       /\ isLatest <=> m.delete \/ job.data \/ ~m.initial
       /\ isLatest => BlobOf(m) \in blobs
       /\ m \notin latest
  BY <1>1, <1>2, <1>4, <1>5, <1>6, <1>7, Zenon
<1>19. \A n \in retained : n.ts <= m.ts
  BY <1>6, <1>7, <1>9, Message
<1> QED
  BY <1>0, <1>3, <1>4, <1>7, <1>10, <1>11, <1>12, <1>14, <1>15, <1>17, <1>18, <1>19, CommitKeeps, Zenon

\* A tombstone that the newest row does not beat.
LEMMA CommitDeleteKeeps ==
  ASSUME RecordInv, CommitDelete
  PROVE  RecordInv'
<1>0. PICK m : m = job.msg
  BY Zenon
<1> DEFINE r == m.rec
           writes == WritesOf(Rows(r))
<1>1. PICK retained : retained = {k \in writes : k.initial \/ k = Newest(writes)}
  BY Zenon
<1>2. /\ job.pc = "perform" /\ m.delete /\ (\E n \in NewestRow(r) : ~Beaten(m, n)) /\ HasInitial(r)
      /\ CommitLatest(m, retained, TRUE) /\ UNCHANGED <<blobs, tasks, up, resuming, settled, crashes>>
  BY <1>0, <1>1, Zenon DEF CommitDelete, runVars
<1>3. m \in Messages /\ m \in tasks /\ ControlInv /\ stored \subseteq Messages
  BY <1>0, <1>2, Zenon DEF RecordInv, ControlInv, TypeOK, TaskInv
<1>4. r \in Records /\ m.ts \in Nat /\ Rows(r) \subseteq Messages /\ retained \subseteq Rows(r)
  BY <1>1, <1>3, Message, Zenon DEF Rows, WritesOf
<1>5. /\ Rows(r)' = retained \cup {m} /\ LatestOf(r)' \subseteq {m} /\ m \in latest'
      /\ m \in stored' /\ stored' \subseteq stored \cup {m}
  <2>1. Committed(m, retained, TRUE)
    BY <1>0, <1>2, <1>3, <1>4, CommitShape, Zenon
  <2> QED
    BY <2>1, Zenon DEF Committed
<1>6. \A k \in retained : ~k.delete
  BY <1>1, Zenon DEF WritesOf
<1>7. \A k \in Rows(r) : k.initial => k \in retained
  BY <1>1, <1>4, Message, Zenon DEF WritesOf
<1>8. HasInitial(r)'
  BY <1>2, <1>5, <1>7, Zenon DEF HasInitial
<1>9. ASSUME NewerWrite(r) PROVE NewerWrite(r)'
  <2>1. PICK w \in WritesOf(Known(r)), d \in DeletesOf(Known(r)) : w.ts > d.ts
    BY <1>9, Zenon DEF NewerWrite
  <2>2. d \in DeletesOf(Known(r))'
    BY <1>2, Zenon DEF RecordInv, RowInv, DeletesOf, Known
  <2>3. CASE w \in WritesOf(Known(r))'
    BY <2>1, <2>2, <2>3, Zenon DEF NewerWrite
  <2>4. CASE w \notin WritesOf(Known(r))'
    <3> DEFINE n == Newest(writes)
    <3>1. w \in writes /\ writes \subseteq Messages
      BY <1>2, <1>4, <2>4, Zenon DEF WritesOf, Known, Rows
    <3>2. n \in writes /\ w.ts <= n.ts
      BY <3>1, NewestIs, Zenon
    <3>3. n \in retained
      BY <1>1, <3>2, Zenon
    <3> HIDE DEF n
    <3>4. n \in stored' /\ n.rec = r /\ ~n.delete
      BY <1>5, <3>2, <3>3, Zenon DEF Rows, WritesOf
    <3>5. n \in WritesOf(Known(r))'
      BY <3>4, Zenon DEF WritesOf, Known
    <3>6. w.ts \in Nat /\ n.ts \in Nat /\ d.ts \in Nat
      BY <3>1, <3>2, Message, Zenon DEF DeletesOf, Known, RecordInv, ControlInv, TypeOK
    <3>7. n.ts > d.ts
      BY <2>1, <3>2, <3>6
    <3> QED
      BY <2>2, <3>5, <3>7, Zenon DEF NewerWrite
  <2> QED
    BY <2>3, <2>4, Zenon
<1>10. ASSUME Root(r), ~NewerWrite(r)', NEW d \in DeletesOf(Rows(r))
       PROVE  Deleted(r, d) /\ d \in Messages /\ d.delete /\ ~Beaten(m, d)
  <2>1. ~NewerWrite(r) /\ RootSound(r)
    BY <1>4, <1>9, <1>10, Zenon DEF RecordInv, RootInv
  <2>2. \A e \in DeletesOf(Rows(r)) : Deleted(r, e)
    BY <1>10, <2>1, Zenon DEF RootSound
  <2>3. NewestRow(r) = {d}
    BY <1>3, <1>4, <2>1, <2>2, TombstoneIsNewest, Zenon DEF Deleted
  <2> QED
    BY <1>2, <1>4, <2>2, <2>3, Zenon DEF DeletesOf
<1>11. ASSUME Root(r), ~NewerWrite(r)' PROVE RootSound(r)'
  <2>1. DeletesOf(Rows(r))' = {m}
    BY <1>2, <1>5, <1>6, Zenon DEF DeletesOf
  <2>2. LatestOf(r)' = {m}
    BY <1>5, Zenon DEF LatestOf
  <2>3. ASSUME NEW e \in settled, e.rec = r, e.delete PROVE Beaten(e, m)
    <3>1. CASE DeletesOf(Rows(r)) = {}
      <4>1. Undeleted(r)
        BY <1>4, <1>9, <1>11, <3>1, Zenon DEF RecordInv, RootInv, RootSound
      <4> QED
        BY <2>3, <4>1, Zenon DEF Undeleted
    <3>2. ASSUME NEW d \in DeletesOf(Rows(r)) PROVE Beaten(e, m)
      <4>1. Deleted(r, d) /\ d \in Messages /\ d.delete /\ ~Beaten(m, d)
        BY <1>10, <1>11, <3>2, Zenon
      <4>2. Beaten(e, d) /\ e \in Messages
        BY <2>3, <4>1, Zenon DEF Deleted, RecordInv, ControlInv, TypeOK
      <4>3. Beaten(d, m)
        BY <1>2, <1>3, <4>1, BeatenTotal, Zenon
      <4> QED
        BY <1>3, <4>1, <4>2, <4>3, BeatenTransitive, Zenon
    <3> QED
      BY <3>1, <3>2, Zenon
  <2>4. Deleted(r, m)'
    BY <1>2, <2>2, <2>3, Zenon DEF Deleted, Beaten
  <2> QED
    BY <2>1, <2>4, Zenon DEF RootSound
<1>12. ASSUME Root(r), ~NewerWrite(r)', Pruned(r) PROVE m.prune
  <2>1. PICK d \in DeletesOf(Rows(r)) : d.prune
    BY <1>12, Zenon DEF Pruned, DeletesOf
  <2>2. d \in Messages /\ d.delete /\ ~Beaten(m, d)
    BY <1>10, <1>12, Zenon
  <2> QED
    BY <1>3, <2>1, <2>2, Message, Zenon DEF Beaten
<1>13. TreeInv'
  <2>1. NothingLeft
    BY <1>0, <1>2, Zenon DEF NothingLeft
  <2>2. Rows(r) # {}
    BY <1>2, Zenon DEF HasInitial
  <2>3. crashes = 0 /\ ~Root(r) => ~Pruned(ParentOf[r])
    BY <1>4, <2>1, <2>2, Settled, Zenon DEF TreeSettled
  <2> QED
    BY <1>0, <1>2, <1>3, <1>4, <1>6, <1>8, <2>1, <2>3, CommitTree, Zenon
<1> QED
  BY <1>0, <1>2, <1>3, <1>4, <1>6, <1>7, <1>8, <1>9, <1>11, <1>12, <1>13, CommitKeeps, Zenon

-----------------------------------------------------------------------------
(* A record is purged: a child of a pruned record, or a sibling of a squash. *)

\* The purge of the record is under way.
LEMMA TargetIsPurged ==
  ASSUME RecordInv, job.pc \in {"purge", "rows"}, NEW r, Target(job.msg, r)
  PROVE  /\ job.msg \in Messages /\ job.msg \in tasks /\ ~Root(r)
         /\ job.msg.delete => Pruned(ParentOf[r])
         /\ ~job.msg.delete => job.msg.squash
<1>1. job.msg \in Messages /\ job.msg \in tasks /\ (job.msg.delete \/ job.msg.squash)
  BY Zenon DEF RecordInv, ControlInv, TypeOK, TaskInv
<1>2. job.msg.delete => job.msg \in stored /\ job.msg.prune /\ ParentOf[r] = job.msg.rec
  BY Zenon DEF RecordInv, ControlInv, TypeOK, TaskInv, Target
<1>3. job.msg.delete => job.msg \in Rows(ParentOf[r])
  BY <1>2, Zenon DEF Rows
<1> QED
  BY <1>1, <1>2, <1>3, Zenon DEF Target, Pruned

\* It has begun in the sense of the data invariant.
LEMMA TargetBegun ==
  ASSUME RecordInv, job.pc \in {"purge", "rows"}, NEW r \in Records, Target(job.msg, r)
  PROVE  PurgeBegun(r)
<1> DEFINE m == job.msg
<1>1. /\ m \in Messages /\ m \in tasks /\ ~Root(r)
      /\ m.delete => Pruned(ParentOf[r])
      /\ ~m.delete => m.squash
  BY TargetIsPurged, Zenon
<1>2. CASE m.delete
  BY <1>1, <1>2, Zenon DEF PurgeBegun, PruneTold, Root
<1>3. CASE ~m.delete
  <2>1. Floored(m) /\ r \in Siblings(m.rec) /\ \A n \in Rows(r) : n.ts < m.ts
    BY <1>1, <1>3, Zenon DEF RecordInv, DataInv, Target
  <2>2. CASE PruneTold(ParentOf[m.rec])
    BY <1>1, <2>1, <2>2, Zenon DEF PurgeBegun, Siblings, Root
  <2>3. ASSUME NEW s \in stored, s.squash, ParentOf[s.rec] = ParentOf[m.rec], m.ts <= s.ts
        PROVE  PurgeBegun(r)
    <3>1. stored \subseteq Messages /\ Rows(r) \subseteq Messages
      BY Zenon DEF Rows, RecordInv, ControlInv, TypeOK
    <3>2. \A n \in Rows(r) : n.ts < s.ts
      BY <1>1, <2>1, <2>3, <3>1, Message
    <3>3. s.rec # r
      <4> SUFFICES ASSUME s.rec = r PROVE FALSE
        BY Zenon
      <4>1. s \in Rows(r)
        BY Zenon DEF Rows
      <4> QED
        BY <3>1, <3>2, <4>1, Message
    <3>4. r \in Siblings(s.rec)
      BY <2>1, <2>3, <3>3, Zenon DEF Siblings
    <3> QED
      BY <2>3, <3>2, <3>4, Zenon DEF PurgeBegun
  <2> QED
    BY <2>1, <2>2, <2>3, Zenon DEF Floored
<1> QED
  BY <1>2, <1>3, Zenon

LEMMA PurgeDataKeeps ==
  ASSUME RecordInv, NEW r \in Records, PurgeData(r)
  PROVE  RecordInv'
<1> DEFINE b == BlobOf(Newest(WritesOf(Rows(r))))
<1>0. PICK m : m = job.msg
  BY Zenon
<1>1. /\ job.pc = "purge" /\ r \in job.todo /\ blobs' = blobs \ {b} /\ Rows(r) # {}
      /\ job' = [job EXCEPT !.pc = "rows", !.todo = @ \ {r}, !.rows = Rows(r)]
      /\ UNCHANGED <<stored, latest, tasks, up, resuming, settled, crashes>>
  BY Zenon DEF PurgeData, rowVars, runVars, WritesOf
<1>2. /\ m \in Messages /\ m \in tasks /\ job \in Job /\ Target(m, r)
      /\ \A q \in job.todo : q \in Records /\ Target(m, q) /\ Rows(q) # {}
      /\ m.delete => m \in latest
      /\ stored \subseteq Messages /\ latest \subseteq stored
  BY <1>0, <1>1, Zenon DEF RecordInv, ControlInv, TypeOK, TaskInv
<1>3. /\ job'.pc = "rows" /\ job'.msg = m /\ job'.todo = job.todo \ {r} /\ job'.rows = Rows(r)
      /\ job'.data = job.data
  BY <1>0, <1>1, <1>2, Zenon DEF Job
<1>4. job' \in Job
  <2>1. Rows(r) \in SUBSET Messages
    BY <1>2, Zenon DEF Rows
  <2> QED
    BY <1>1, <1>2, <2>1, Zenon DEF Job
<1>5. ControlInv'
  BY <1>1, <1>2, <1>3, <1>4, Zenon DEF RecordInv, ControlInv, TypeOK, BlobOf
<1>6. \A q : Rows(q)' = Rows(q) /\ LatestOf(q)' = LatestOf(q)
  BY <1>1, Zenon DEF Rows, LatestOf
<1>7. TaskInv'
  <2>1. \A q : Target(m, q)' <=> Target(m, q)
    BY <1>6, Zenon DEF Target
  <2> QED
    BY <1>1, <1>2, <1>3, <1>6, <2>1, Zenon DEF TaskInv
<1>8. WriteInv' /\ CleanInv'
  BY <1>3, Zenon DEF WriteInv, CleanInv
<1>9. RowInv' /\ RootKnown'
  BY <1>1, Zenon DEF RecordInv, RowInv, RootKnown, DeletesOf, WritesOf, Rows, HasInitial
<1>10. ~Root(r)
  BY <1>2, Zenon DEF Target
<1>11. \A k \in Messages : BlobOf(k) = b => k.rec = r
  <2>1. WritesOf(Rows(r)) # {} /\ WritesOf(Rows(r)) \subseteq Messages
    BY <1>2, Zenon DEF PurgeData, WritesOf, Rows
  <2>2. Newest(WritesOf(Rows(r))).rec = r
    BY <2>1, NewestIs DEF WritesOf, Rows
  <2> QED
    BY <2>2, Zenon DEF BlobOf
<1>12. RootInv'
  <2> SUFFICES ASSUME NEW q \in Records, Root(q) PROVE ~NewerWrite(q)' => RootSound(q)'
    BY Zenon DEF RootInv
  <2>1. \A k \in Rows(q) : BlobOf(k) # b
    BY <1>2, <1>10, <1>11, Zenon DEF Rows
  <2>2. NewerWrite(q) => NewerWrite(q)'
    BY <1>1, ToldStays, Zenon
  <2> QED
    BY <1>1, <1>6, <2>1, <2>2, RootUntouched, Zenon DEF RecordInv, RootInv
<1>13. DataInv'
  <2>1. \A q : PruneTold(q) => PruneTold(q)'
    BY <1>1, ToldStays, Zenon
  <2>2. \A q : PurgeBegun(q) => PurgeBegun(q)'
    BY <1>1, <1>6, <2>1, Zenon DEF PurgeBegun, Siblings
  <2>3. \A k : Floored(k) => Floored(k)'
    BY <1>1, <2>1, Zenon DEF Floored
  <2>4. PurgeBegun(r)'
    BY <1>0, <1>1, <1>2, <2>2, TargetBegun, Zenon
  <2>5. ASSUME NEW k \in latest PROVE k.delete \/ BlobOf(k) \in blobs' \/ PurgeBegun(k.rec)'
    BY <1>1, <1>2, <1>11, <2>2, <2>4, Zenon DEF RecordInv, DataInv
  <2> QED
    BY <1>1, <2>3, <2>5, Zenon DEF RecordInv, DataInv, BlobOf
<1>14. TreeInv'
  <2> SUFFICES ASSUME crashes = 0 PROVE TreeInv'
    BY <1>1, Zenon DEF TreeInv
  <2>1. \A q : /\ ~Purging(q) /\ (StillToPurge(q) <=> q \in job.todo)
               /\ StillToPurge(q)' <=> q \in job.todo \ {r}
               /\ Rows(q) # {} => (Purging(q)' <=> q = r)
    BY <1>1, <1>3, Zenon DEF Purging, StillToPurge, Rows
  <2>2. up' = "open" /\ tasks' \subseteq {job'.msg}
    BY <1>0, <1>1, <1>3, Zenon DEF RecordInv, TreeInv
  <2>3. ASSUME NEW q \in Records, Rows(q)' # {}, ~Purging(q)'
        PROVE  /\ HasInitial(q)' /\ (~Root(q) => LatestOf(q)' # {})
               /\ ~Root(q) /\ Pruned(ParentOf[q])' =>
                    m.delete /\ m.prune /\ m.rec = ParentOf[q] /\ StillToPurge(q)'
    <3>1. q # r /\ Rows(q) # {}
      BY <1>6, <2>1, <2>3, Zenon
    <3>2. /\ HasInitial(q) /\ (~Root(q) => LatestOf(q) # {})
          /\ ~Root(q) /\ Pruned(ParentOf[q]) =>
               m.delete /\ m.prune /\ m.rec = ParentOf[q] /\ q \in job.todo
      BY <1>0, <1>1, <2>1, <3>1, Zenon DEF RecordInv, TreeInv
    <3> QED
      BY <1>6, <2>1, <3>1, <3>2, Zenon DEF HasInitial, Pruned
  <2>4. ASSUME NEW w \in WritesOf(latest), NEW s \in latest, s.squash, w.rec \in Siblings(s.rec),
               w.ts <= s.ts, ~Purging(w.rec)'
        PROVE  m = s /\ StillToPurge(w.rec)'
    <3>1. w.rec # r
      BY <1>2, <2>1, <2>4, Zenon DEF WritesOf, Rows
    <3>2. m = s /\ w.rec \in job.todo
      BY <1>0, <1>1, <2>1, <2>4, Zenon DEF RecordInv, TreeInv
    <3> QED
      BY <2>1, <3>1, <3>2, Zenon
  <2> QED
    BY <1>1, <1>3, <2>2, <2>3, <2>4, Zenon DEF TreeInv, WritesOf
<1> QED
  BY <1>5, <1>7, <1>8, <1>9, <1>12, <1>13, <1>14, Zenon DEF RecordInv

\* A row of the record that is being purged goes.
LEMMA PurgeRowKeeps ==
  ASSUME RecordInv, PurgeRow
  PROVE  RecordInv'
<1>0. PICK m : m = job.msg
  BY Zenon
<1>1. PICK x \in job.rows :
        /\ stored' = stored \ {x} /\ latest' = latest \ {x}
        /\ job' = [job EXCEPT !.rows = @ \ {x}, !.pc = IF job.rows = {x} THEN "purge" ELSE "rows"]
  BY Zenon DEF PurgeRow
<1>2. /\ job.pc = "rows" /\ UNCHANGED <<blobs, tasks, up, resuming, settled, crashes>>
      /\ m \in Messages /\ m \in tasks /\ job \in Job /\ (m.delete => m \in latest)
      /\ \A q \in job.todo : q \in Records /\ Target(m, q) /\ Rows(q) # {}
      /\ stored \subseteq Messages /\ latest \subseteq stored
  BY <1>0, Zenon DEF PurgeRow, RecordInv, ControlInv, TypeOK, TaskInv, runVars
<1>3. PICK r \in Records \ job.todo : Target(m, r) /\ job.rows = Rows(r)
  BY <1>0, <1>2, Zenon DEF RecordInv, TaskInv
<1>4. x \in stored /\ x \in Messages /\ x.rec = r /\ x.ts \in Nat /\ m.ts \in Nat
  BY <1>1, <1>2, <1>3, Message, Zenon DEF Rows
<1>5. /\ job'.msg = m /\ job'.todo = job.todo /\ job'.rows = Rows(r) \ {x} /\ job'.data = job.data
      /\ job'.pc = IF Rows(r) = {x} THEN "purge" ELSE "rows"
  BY <1>0, <1>1, <1>2, <1>3, Zenon DEF Job
<1>6. job' \in Job
  <2>1. job.rows \ {x} \in SUBSET Messages
    BY <1>2, <1>3, Zenon DEF Rows
  <2> QED
    BY <1>1, <1>2, <2>1, Zenon DEF Job
<1>7. ControlInv'
  BY <1>1, <1>2, <1>5, <1>6 DEF RecordInv, ControlInv, TypeOK, BlobOf
<1>8. /\ \A q : q # r => Rows(q)' = Rows(q) /\ LatestOf(q)' = LatestOf(q)
      /\ \A q : Rows(q)' \subseteq Rows(q)
      /\ Rows(r)' = Rows(r) \ {x}
  BY <1>1, <1>4, Zenon DEF Rows, LatestOf
<1>9. /\ ~Root(r) /\ (m.delete => Pruned(ParentOf[r])) /\ (~m.delete => m.squash)
      /\ ParentOf[r] \in Records /\ Root(ParentOf[r]) /\ ParentOf[r] # r
  BY <1>0, <1>2, <1>3, TargetIsPurged, Parents, Zenon
<1>10. x # m
  BY <1>2, <1>3, <1>4, <1>9, Zenon DEF Target, Siblings
<1>11. TaskInv'
  <2>1. \A q \in job.todo : q # r
    BY <1>3, Zenon
  <2>2. \A q \in job.todo : q \in Records /\ Target(m, q)' /\ Rows(q)' # {}
    BY <1>2, <1>8, <2>1, Zenon DEF Target
  <2>3. Target(m, r)'
    BY <1>3, <1>8, Zenon DEF Target
  <2>4. m.delete => m \in latest'
    BY <1>1, <1>2, <1>10, Zenon
  <2>5. Rows(r) # {x} => Rows(r) \ {x} # {}
    BY <1>1, <1>3, Zenon
  <2> QED
    BY <1>2, <1>3, <1>5, <1>8, <2>2, <2>3, <2>4, <2>5, Zenon DEF TaskInv
<1>12. WriteInv' /\ CleanInv'
  BY <1>5, Zenon DEF WriteInv, CleanInv
<1>13. RowInv'
  BY <1>1, <1>2, <1>8, Zenon DEF RecordInv, RowInv, DeletesOf, WritesOf
<1>14. \A q : Root(q) => q # r
  BY <1>9, Zenon
<1>15. RootKnown'
  BY <1>1, <1>2, <1>8, <1>14, Zenon DEF RecordInv, RootKnown, HasInitial
<1>16. \A q : q # r => Known(q)' = Known(q)
  BY <1>1, <1>2, <1>4, Zenon DEF Known
<1>17. \A q : Root(q) => (NewerWrite(q)' <=> NewerWrite(q)) /\ (PruneTold(q)' <=> PruneTold(q))
  BY <1>8, <1>14, <1>16, Zenon DEF NewerWrite, PruneTold, Pruned, WritesOf, DeletesOf
<1>18. RootInv'
  <2> SUFFICES ASSUME NEW q \in Records, Root(q) PROVE ~NewerWrite(q)' => RootSound(q)'
    BY Zenon DEF RootInv
  <2> QED
    BY <1>2, <1>8, <1>14, <1>17, RootUntouched, Zenon DEF RecordInv, RootInv
<1>19. ASSUME x.squash
       PROVE  \/ PruneTold(ParentOf[r])'
              \/ \E s \in stored' : s.squash /\ ParentOf[s.rec] = ParentOf[r] /\ x.ts < s.ts
  <2>1. CASE m.delete
    BY <1>9, <1>17, <2>1, Zenon DEF PruneTold
  <2>2. CASE ~m.delete
    <3>1. m.squash /\ Floored(m) /\ ParentOf[r] = ParentOf[m.rec] /\ x.ts < m.ts
      BY <1>1, <1>2, <1>3, <1>9, <2>2, Zenon DEF RecordInv, DataInv, Target, Siblings
    <3>2. CASE PruneTold(ParentOf[m.rec])
      BY <1>9, <1>17, <3>1, <3>2, Zenon
    <3>3. ASSUME NEW s \in stored, s.squash, ParentOf[s.rec] = ParentOf[m.rec], m.ts <= s.ts
          PROVE  s \in stored' /\ x.ts < s.ts
      <4>1. x.ts < s.ts
        BY <1>2, <1>4, <3>1, <3>3, Message
      <4> QED
        BY <1>1, <1>4, <4>1
    <3> QED
      BY <3>1, <3>2, <3>3, Zenon DEF Floored
  <2> QED
    BY <2>1, <2>2, Zenon
<1>20. ASSUME NEW q \in Records, PurgeBegun(q) PROVE PurgeBegun(q)'
  <2>1. CASE ParentOf[q] # None /\ PruneTold(ParentOf[q])
    BY <1>17, <2>1, Parents, Zenon DEF PurgeBegun, Root
  <2>2. ASSUME NEW s \in stored, s.squash, q \in Siblings(s.rec), \A n \in Rows(q) : n.ts < s.ts
        PROVE  PurgeBegun(q)'
    <3>1. CASE s # x
      BY <1>1, <1>8, <2>2, <3>1, Zenon DEF PurgeBegun, Siblings
    <3>2. CASE s = x
      <4>1. ParentOf[q] = ParentOf[r] /\ ParentOf[q] # None
        BY <1>4, <1>9, <2>2, <3>2, Zenon DEF Siblings, Root
      <4>2. CASE PruneTold(ParentOf[r])'
        BY <4>1, <4>2, Zenon DEF PurgeBegun
      <4>3. ASSUME NEW t \in stored', t.squash, ParentOf[t.rec] = ParentOf[r], x.ts < t.ts
            PROVE  PurgeBegun(q)'
        <5>1. t \in stored /\ t \in Messages /\ t.ts \in Nat /\ Rows(q) \subseteq Messages
          BY <1>1, <1>2, Message, Zenon DEF Rows
        <5>2. \A n \in Rows(q) : n.ts < t.ts
          BY <1>4, <2>2, <3>2, <4>3, <5>1, Message
        <5>3. t.rec # q
          BY <5>1, <5>2 DEF Rows
        <5>4. q \in Siblings(t.rec)
          BY <4>1, <4>3, <5>3, Zenon DEF Siblings
        <5> QED
          BY <1>8, <4>3, <5>2, <5>4, Zenon DEF PurgeBegun, Siblings
      <4> QED
        BY <1>19, <2>2, <3>2, <4>2, <4>3, Zenon
    <3> QED
      BY <3>1, <3>2, Zenon
  <2> QED
    BY <1>20, <2>1, <2>2, Zenon DEF PurgeBegun
<1>21. ASSUME NEW k \in tasks, k.squash PROVE Floored(k)'
  <2>1. k \in Messages /\ Floored(k) /\ k.ts \in Nat
    BY <1>21, Message, Zenon DEF RecordInv, DataInv, ControlInv, TypeOK
  <2>2. Root(ParentOf[k.rec])
    BY <1>21, <2>1, Message, Parents, Zenon
  <2>3. CASE PruneTold(ParentOf[k.rec])
    BY <1>17, <2>2, <2>3, Zenon DEF Floored
  <2>4. ASSUME NEW s \in stored, s.squash, ParentOf[s.rec] = ParentOf[k.rec], k.ts <= s.ts
        PROVE  Floored(k)'
    <3>1. CASE s # x
      BY <1>1, <2>4, <3>1, Zenon DEF Floored
    <3>2. CASE s = x
      <4>1. CASE PruneTold(ParentOf[r])'
        BY <1>4, <2>4, <3>2, <4>1, Zenon DEF Floored
      <4>2. ASSUME NEW t \in stored', t.squash, ParentOf[t.rec] = ParentOf[r], x.ts < t.ts
            PROVE  Floored(k)'
        <5>1. t.ts \in Nat
          BY <1>1, <1>2, Message, Zenon
        <5>2. k.ts <= t.ts
          BY <1>4, <2>1, <2>4, <3>2, <4>2, <5>1
        <5> QED
          BY <1>4, <2>4, <3>2, <4>2, <5>2, Zenon DEF Floored
      <4> QED
        BY <1>19, <2>4, <3>2, <4>1, <4>2, Zenon
    <3> QED
      BY <3>1, <3>2, Zenon
  <2> QED
    BY <2>1, <2>3, <2>4, Zenon DEF Floored
<1>22. DataInv'
  <2>1. ASSUME NEW k \in latest' PROVE k.delete \/ BlobOf(k) \in blobs' \/ PurgeBegun(k.rec)'
    <3>1. k \in latest /\ k.rec \in Records
      BY <1>1, <1>2, Message, Zenon
    <3> QED
      BY <1>2, <1>20, <3>1, Zenon DEF RecordInv, DataInv
  <2> QED
    BY <1>2, <1>21, <2>1, Zenon DEF DataInv
<1>23. TreeInv'
  <2> SUFFICES ASSUME crashes = 0 PROVE TreeInv'
    BY <1>2, Zenon DEF TreeInv
  <2>1. /\ \A q : Purging(q) => q = r
        /\ \A q : StillToPurge(q)' <=> StillToPurge(q)
        /\ Rows(r)' # {} => Purging(r)'
    <3>1. \A q : Purging(q) => q = r
      BY <1>3, Zenon DEF Purging, Rows
    <3>2. \A q : StillToPurge(q)' <=> StillToPurge(q)
      BY <1>2, <1>5, Zenon DEF StillToPurge
    <3>3. ASSUME NEW k \in Rows(r)' PROVE Purging(r)'
      <4>1. k \in job'.rows /\ k.rec = r /\ job'.pc = "rows"
        BY <1>5, <1>8, Zenon DEF Rows
      <4> QED
        BY <4>1, Zenon DEF Purging
    <3> QED
      BY <3>1, <3>2, <3>3, Zenon
  <2>2. up' = "open" /\ tasks' \subseteq {job'.msg}
    BY <1>0, <1>2, <1>5, Zenon DEF RecordInv, TreeInv
  <2>3. ASSUME NEW q \in Records, Rows(q)' # {}, ~Purging(q)'
        PROVE  /\ HasInitial(q)' /\ (~Root(q) => LatestOf(q)' # {})
               /\ ~Root(q) /\ Pruned(ParentOf[q])' =>
                    m.delete /\ m.prune /\ m.rec = ParentOf[q] /\ StillToPurge(q)'
    <3>1. q # r /\ Rows(q) # {} /\ ~Purging(q)
      BY <1>8, <2>1, <2>3, Zenon
    <3>2. /\ HasInitial(q) /\ (~Root(q) => LatestOf(q) # {})
          /\ ~Root(q) /\ Pruned(ParentOf[q]) =>
               m.delete /\ m.prune /\ m.rec = ParentOf[q] /\ StillToPurge(q)
      BY <1>0, <1>2, <3>1, Zenon DEF RecordInv, TreeInv
    <3>3. ~Root(q) /\ Pruned(ParentOf[q])' => Pruned(ParentOf[q])
      BY <1>8, Zenon DEF Pruned
    <3> QED
      BY <1>8, <2>1, <3>1, <3>2, <3>3, Zenon DEF HasInitial
  <2>4. ASSUME NEW w \in WritesOf(latest)', NEW s \in latest', s.squash, w.rec \in Siblings(s.rec),
               w.ts <= s.ts, ~Purging(w.rec)'
        PROVE  m = s /\ StillToPurge(w.rec)'
    <3>1. w \in WritesOf(latest) /\ s \in latest /\ w \in stored'
      BY <1>1, <1>2, Zenon DEF WritesOf
    <3>2. w.rec # r
      BY <2>1, <2>4, <3>1, Zenon DEF Rows
    <3>3. m = s /\ StillToPurge(w.rec)
      BY <1>0, <1>2, <2>1, <2>4, <3>1, <3>2, Zenon DEF RecordInv, TreeInv
    <3> QED
      BY <2>1, <3>3, Zenon
  <2> QED
    BY <1>5, <2>2, <2>3, <2>4, Zenon DEF TreeInv
<1> QED
  BY <1>7, <1>11, <1>12, <1>13, <1>15, <1>18, <1>22, <1>23, Zenon DEF RecordInv

-----------------------------------------------------------------------------
LEMMA RecordInit == Init => RecordInv
<1> SUFFICES ASSUME Init PROVE RecordInv
  BY Zenon
<1>1. /\ stored = {} /\ latest = {} /\ blobs = {} /\ tasks = {} /\ settled = {}
      /\ up = "open" /\ resuming = {} /\ crashes = 0 /\ job = NoJob
  BY Zenon DEF Init
<1>2. job.pc = "idle" /\ job.msg = None /\ job \in Job
  BY <1>1, Zenon DEF NoJob, Job
<1>3. \A r : Rows(r) = {} /\ LatestOf(r) = {}
  BY <1>1, Zenon DEF Rows, LatestOf
<1>4. ControlInv
  BY <1>1, <1>2, RecordAssumption DEF ControlInv, TypeOK
<1>5. WriteInv /\ CleanInv /\ TaskInv
  BY <1>2, Zenon DEF WriteInv, CleanInv, TaskInv
<1>6. RowInv /\ RootKnown /\ DataInv
  BY <1>1, Zenon DEF RowInv, RootKnown, DataInv, DeletesOf, WritesOf
<1>7. RootInv
  BY <1>1, <1>3, Zenon DEF RootInv, RootSound, Undeleted, DeletesOf
<1>8. TreeInv
  BY <1>1, <1>2, <1>3, Zenon DEF TreeInv, WritesOf
<1> QED
  BY <1>4, <1>5, <1>6, <1>7, <1>8, Zenon DEF RecordInv

LEMMA RecordStep ==
  ASSUME RecordInv, [Next]_vars
  PROVE  RecordInv'
<1>1. CASE UNCHANGED vars
  <2>1. UNCHANGED <<stored, latest, blobs, tasks, up, resuming, job, settled, crashes>>
    BY <1>1, Zenon DEF vars
  <2>2. ControlInv' /\ WriteInv' /\ CleanInv' /\ TaskInv'
    <3>1. ControlInv'
      BY <2>1, Zenon DEF RecordInv, ControlInv, TypeOK, Job
    <3>2. WriteInv'
      BY <2>1, Zenon
         DEF RecordInv, WriteInv, WriteReady, SoleRow, IsNewest, AfterDelete, NewestRow,
                  WriteInPlace, BelowSquash, HasInitial, ParentFound, Pruned, Rows
    <3>3. CleanInv'
      BY <2>1, Zenon DEF RecordInv, CleanInv, LatestOf
    <3>4. TaskInv'
      BY <2>1, Zenon DEF RecordInv, TaskInv, HasInitial, NewestRow, Rows, Target
    <3> QED
      BY <3>1, <3>2, <3>3, <3>4, Zenon
  <2>3. RowInv' /\ RootKnown' /\ RootInv' /\ DataInv'
    BY <2>1, StoresKept, Zenon
  <2>4. TreeInv'
    BY <2>1, Zenon
       DEF RecordInv, TreeInv, Purging, StillToPurge, Rows, HasInitial, LatestOf, Pruned,
                WritesOf
  <2> QED
    BY <2>2, <2>3, <2>4, Zenon DEF RecordInv
<1>2. CASE Next
  <2>1. ASSUME NEW m \in Messages, NEW withData \in BOOLEAN,
               \/ AnswerDuplicate(m, withData) \/ AnswerSuperseded(m, withData)
               \/ StoreBeatenWrite(m, withData) \/ AcceptWrite(m, withData)
        PROVE  RecordInv'
    BY <2>1, AnswerDuplicateKeeps, AnswerSupersededKeeps, StoreBeatenWriteKeeps, AcceptWriteKeeps, Zenon
  <2>2. ASSUME NEW m \in Messages, AcceptCompletion(m) \/ AcceptDelete(m) PROVE RecordInv'
    BY <2>2, AcceptCompletionKeeps, AcceptDeleteKeeps, Zenon
  <2>3. CASE PutData \/ CompleteData \/ CommitWrite \/ DeleteDisplacedData \/ FinishWrite
    BY <2>3, PutDataKeeps, CompleteDataKeeps, CommitWriteKeeps, DeleteDisplacedDataKeeps,
       FinishWriteKeeps, Zenon
  <2>4. CASE RegisterTask \/ SkipDelete \/ CommitDelete \/ PurgeDescendants \/ PerformSquash
    BY <2>4, RegisterTaskKeeps, SkipDeleteKeeps, CommitDeleteKeeps, PurgeDescendantsKeeps,
       PerformSquashKeeps, Zenon
  <2>5. ASSUME NEW r \in Records, PurgeData(r) PROVE RecordInv'
    BY <2>5, PurgeDataKeeps, Zenon
  <2>6. CASE PurgeRow \/ TaskThrows \/ UnregisterTask \/ Crash \/ Open
    BY <2>6, PurgeRowKeeps, TaskThrowsKeeps, UnregisterTaskKeeps, CrashKeeps, OpenKeeps, Zenon
  <2>7. ASSUME NEW batch \in SUBSET tasks, GrabTasks(batch) PROVE RecordInv'
    BY <2>7, GrabTasksKeeps, Zenon
  <2>8. ASSUME NEW m \in resuming, ResumeTask(m) PROVE RecordInv'
    BY <2>8, ResumeTaskKeeps, Zenon
  <2> QED
    BY <1>2, <2>1, <2>2, <2>3, <2>4, <2>5, <2>6, <2>7, <2>8, Zenon DEF Next
<1> QED
  BY <1>1, <1>2, Zenon

\* Between any two store writes, and after any crash, the stores are in a state
\* that the handler, the task or the purge in flight accounts for.
THEOREM RecordInvariant == Spec => []RecordInv
<1>1. Init => RecordInv
  BY RecordInit, Zenon
<1>2. RecordInv /\ [Next]_vars => RecordInv'
  BY RecordStep, Zenon
<1> QED
  BY <1>1, <1>2, PTL DEF Spec

\* The tombstone that beats the others is the winner of the lattice.
LEMMA WinnerIs ==
  ASSUME NEW D, D \subseteq Messages, NEW d \in D, \A e \in D : e.delete /\ Beaten(e, d)
  PROVE  Winner(D) = d
<1> DEFINE prunes == {e \in D : e.prune}
<1>1. ASSUME NEW S, S \subseteq D, d \in S, \A e \in S : e.ts <= d.ts PROVE Newest(S) = d
  <2>1. S \subseteq Messages /\ S # {}
    BY <1>1, Zenon
  <2>2. Newest(S) \in S /\ d.ts <= Newest(S).ts
    BY <1>1, <2>1, NewestIs, Zenon
  <2>3. Newest(S).ts <= d.ts /\ Newest(S) \in Messages /\ d \in Messages
    BY <1>1, <2>1, <2>2, Zenon
  <2> QED
    BY <2>2, <2>3, Message, Distinct
<1>2. CASE d.prune
  <2>1. d \in prunes /\ \A e \in prunes : e.ts <= d.ts
    BY <1>2, Message, Zenon DEF Beaten
  <2>2. Newest(prunes) = d
    BY <1>1, <2>1, Zenon
  <2> QED
    BY <2>1, <2>2, Zenon DEF Winner
<1>3. CASE ~d.prune
  <2>1. prunes = {}
    BY <1>3, Message, Zenon DEF Beaten
  <2>2. \A e \in D : e.ts <= d.ts
    BY <1>3, <2>1, Message, Zenon DEF Beaten
  <2>3. Newest(D) = d
    BY <1>1, <2>2, Zenon
  <2> QED
    BY <2>1, <2>3, Zenon DEF Winner
<1> QED
  BY <1>2, <1>3, Message, Zenon

\* RootInv decides the latest state of a root once no task is left.
LEMMA SoundConverges ==
  ASSUME RecordInv, Quiet, NEW r \in Records, Root(r), ~NewerWrite(r), ~Stranded(r)
  PROVE  LatestOf(r) = Expected(r)
<1> DEFINE known == Known(r)
           writes == WritesOf(known)
<1>1. /\ tasks = {} /\ stored \subseteq Messages /\ settled \subseteq Messages /\ latest \subseteq stored
      /\ known \subseteq Messages
  BY Zenon DEF Quiet, Known, RecordInv, ControlInv, TypeOK
<1>2. RootSound(r)
  BY Zenon DEF RecordInv, RootInv
<1>3. ASSUME NEW d \in DeletesOf(Rows(r)) PROVE LatestOf(r) = Expected(r)
  <2>1. \A e \in DeletesOf(Rows(r)) : Deleted(r, e)
    BY <1>2, <1>3, Zenon DEF RootSound
  <2>2. d \in DeletesOf(known) /\ d \in Messages /\ d.delete /\ LatestOf(r) = {d}
    BY <1>1, <2>1, Zenon DEF DeletesOf, Known, Rows, Deleted
  <2>3. ASSUME NEW e \in DeletesOf(known) PROVE e.delete /\ Beaten(e, d)
    <3>1. CASE e \in settled
      BY <2>1, <3>1, Zenon DEF Deleted, DeletesOf, Known
    <3>2. CASE e \in stored
      <4>1. e = d
        BY <2>1, <2>2, <3>2, Zenon DEF Deleted, DeletesOf, Known, Rows
      <4> QED
        BY <2>2, <4>1, Message DEF Beaten
    <3> QED
      BY <1>1, <3>1, <3>2, Zenon DEF DeletesOf, Known
  <2>4. DeletesOf(known) \subseteq Messages
    BY <1>1, Zenon DEF DeletesOf
  <2>5. Winner(DeletesOf(known)) = d
    BY <2>2, <2>3, <2>4, WinnerIs, Zenon
  <2> QED
    BY <2>2, <2>5, Zenon DEF Expected
<1>4. CASE DeletesOf(Rows(r)) = {}
  <2>1. Undeleted(r)
    BY <1>2, <1>4, Zenon DEF RootSound
  <2>2. DeletesOf(known) = {}
    BY <1>1, <1>4, <2>1, Zenon DEF Undeleted, DeletesOf, Known, Rows
  <2>3. known = writes /\ Rows(r) \subseteq writes /\ writes \subseteq Messages
    BY <1>1, <2>2, Zenon DEF DeletesOf, WritesOf, Known, Rows
  <2>4. Expected(r) = {w \in writes : w = Newest(writes) /\ w \in settled \cup latest}
    BY <2>2, Zenon DEF Expected
  <2>5. ASSUME NEW w \in Rows(r), \A n \in Rows(r) : n.ts <= w.ts PROVE Newest(writes) = w
    <3>1. w \in writes /\ w \in Messages /\ w.ts \in Nat
      BY <2>3, Message, Zenon
    <3>2. ASSUME NEW k \in writes PROVE k.ts <= w.ts
      <4>1. CASE k \in settled
        <5>1. PICK n \in Rows(r) : k.ts <= n.ts
          BY <2>1, <4>1, Zenon DEF Undeleted, WritesOf, Known
        <5>2. k.ts \in Nat /\ n.ts \in Nat /\ n.ts <= w.ts
          BY <2>3, <2>5, Message, Zenon
        <5> QED
          BY <3>1, <5>1, <5>2
      <4>2. CASE k \in stored
        BY <2>5, <4>2, Zenon DEF WritesOf, Known, Rows
      <4> QED
        BY <1>1, <4>1, <4>2, Zenon DEF WritesOf, Known
    <3>3. Newest(writes) \in writes /\ w.ts <= Newest(writes).ts
      BY <2>3, <3>1, NewestIs, Zenon
    <3>4. Newest(writes).ts <= w.ts /\ Newest(writes) \in Messages
      BY <2>3, <3>2, <3>3, Zenon
    <3> QED
      BY <3>1, <3>3, <3>4, Message, Distinct
  <2>6. CASE LatestOf(r) # {}
    <3>1. PICK w \in latest : w.rec = r
      BY <2>6, Zenon DEF LatestOf
    <3>2. LatestOf(r) = {w} /\ w \in Rows(r) /\ ~w.delete
      BY <1>1, <1>4, <3>1, Zenon DEF LatestOf, Rows, DeletesOf, RecordInv, RowInv
    <3>3. \A n \in Rows(r) : n.ts <= w.ts
      BY <3>1, <3>2, Zenon DEF RecordInv, RowInv, WritesOf
    <3>4. Newest(writes) = w /\ w \in writes
      BY <2>3, <2>5, <3>2, <3>3, Zenon
    <3> QED
      BY <2>4, <3>1, <3>2, <3>4, Zenon
  <2>7. CASE LatestOf(r) = {}
    <3> SUFFICES ASSUME NEW w \in writes, w = Newest(writes), w \in settled \cup latest PROVE FALSE
      BY <2>4, <2>7, Zenon
    <3>1. w \in settled /\ w.rec = r
      BY <2>7, Zenon DEF LatestOf, WritesOf, Known
    <3>2. PICK n \in Rows(r) : w.ts <= n.ts
      BY <2>1, <3>1, Zenon DEF Undeleted
    <3>3. Rows(r) = {n} /\ n \notin latest /\ n \in stored /\ (n \in settled => BlobOf(n) \in blobs)
      BY <2>1, <2>7, <3>2, Zenon DEF Undeleted, SoleRow, Rows
    <3>4. n \notin settled
      BY <3>3, Zenon DEF Stranded
    <3>5. Newest(writes) = n
      BY <2>3, <2>5, <3>3, Message
    <3> QED
      BY <3>1, <3>4, <3>5, Zenon
  <2> QED
    BY <2>6, <2>7, Zenon
<1> QED
  BY <1>3, <1>4, Zenon

\* Convergence, for every set of messages, in any order, with duplicates, late
\* data and crashes: a root record ends in the state its messages decide.
THEOREM RecordsConverge == Spec => []Convergence
<1>1. RecordInv => Convergence
  BY SoundConverges, Zenon DEF Convergence, Root
<1> QED
  BY <1>1, RecordInvariant, PTL

\* A write in the latest state has its data unless its purge has begun, at every
\* step of a commit, a purge and a crash (commitLatestStateTransition).
THEOREM LiveRowsHaveData == Spec => []LiveRowHasData
<1>1. RecordInv => LiveRowHasData
  BY Zenon DEF RecordInv, ControlInv, DataInv, LiveRowHasData
<1> QED
  BY <1>1, RecordInvariant, PTL

\* Without a crash, a prune and a squash leave nothing behind once the messages
\* are answered (purgeRecordDescendants, performRecordsSquash).
THEOREM TreeSettles == Spec => []SettledTree
<1>1. ASSUME RecordInv, crashes = 0, Quiet PROVE TreeSettled
  BY <1>1, Settled, Zenon DEF Quiet, Idle, NothingLeft
<1>2. RecordInv => SettledTree
  BY <1>1, Zenon DEF SettledTree, Cascaded, TreeSettled, Root
<1> QED
  BY <1>2, RecordInvariant, PTL
=============================================================================
