--------------------------- MODULE ReplicationLog ---------------------------
(***************************************************************************)
(* The replication log of one tenant in the Level message store            *)
(* (packages/dwn-sdk-js/src/store/message-store-level.ts): live messages   *)
(* with one position each, the CID index, the high-water head, the scope   *)
(* fingerprints and the store epoch.                                       *)
(*                                                                         *)
(* A mutation reads what it needs under the tenant's write lock, computes  *)
(* one batch, and applies the batch atomically: a begin and a commit step, *)
(* with other contexts (tabs, workers) and readers in between.  A reader   *)
(* takes no lock: it captures the head, opens an iterator, and reads the   *)
(* message block of each log row on its own.                               *)
(*                                                                         *)
(* A fingerprint is the XOR of the hashes of the CIDs in its scope; here   *)
(* it is the set of the CIDs folded in an odd number of times.             *)
(***************************************************************************)
EXTENDS Integers, FiniteSets

CONSTANTS
  Cids,         \* message CIDs
  Scopes,       \* fingerprint domains
  ScopesOf,     \* the domains each message is folded into
  Records,      \* record ids
  RecordOf,     \* the record of each message
  InScope,      \* the CIDs that match the readers' filters
  Writers,      \* concurrent writers
  Readers,      \* concurrent feed readers
  Limit,        \* page limit of a read
  None,
  ClearOnline,  \* whether the store is cleared while others use it
  MaxHead,      \* bound: positions of one epoch
  MaxEpochs     \* bound: epochs

ASSUME LogAssumption ==
  /\ ScopesOf \in [Cids -> SUBSET Scopes]
  /\ RecordOf \in [Cids -> Records]
  /\ InScope \subseteq Cids
  /\ Limit \in Nat \ {0}
  /\ ClearOnline \in BOOLEAN
  /\ MaxHead \in Nat
  /\ MaxEpochs \in Nat
  /\ None \notin Cids

VARIABLES
  epoch,     \* the persisted epoch, numbered in order of creation
  head,      \* the heads partition: highest position issued
  log,       \* the log partition: live rows
  cidToSeq,  \* the CID index: position of each live message, 0 for none
  blocks,    \* the blocks partition: CIDs with a stored message
  latest,    \* CIDs whose indexes say isLatestBaseState
  prints,    \* the fingerprints partition
  writers,   \* the batch each writer is about to apply, or NoBatch
  readers    \* each reader's cursor, its read in progress, what it was given

storeVars == <<epoch, head, log, cidToSeq, blocks, latest, prints>>
vars == <<storeVars, writers, readers>>

-----------------------------------------------------------------------------
Row == [position : Nat \ {0}, cid : Cids]

RowOf(c) == [position |-> cidToSeq[c], cid |-> c]
Live == {c \in Cids : cidToSeq[c] # 0}

\* The absolute writes of one Level batch: rows put and deleted (with their
\* index and block entries), the flags set, the head, and the fingerprints.
Batch == [put : SUBSET Row, del : SUBSET Row, latest : SUBSET Cids,
          head : Nat, touched : SUBSET Scopes, prints : [Scopes -> SUBSET Cids]]
NoBatch == [put |-> {}, del |-> {}, latest |-> {}, head |-> 0, touched |-> {},
            prints |-> [s \in Scopes |-> {}]]

\* createFingerprintFoldOperationsForMessages: the contributions to one domain
\* are combined before it is read, folded and written once.
Xor(a, b) == (a \ b) \cup (b \ a)
\* Mutant: of several contributions to one domain only one is folded.
FoldedOne(cids) ==
  [s \in Scopes |->
     LET own == {c \in cids : s \in ScopesOf[c]} IN
     IF own = {} THEN prints[s] ELSE Xor(prints[s], {CHOOSE c \in own : TRUE})]

Folded(cids) == [s \in Scopes |-> Xor(prints[s], {c \in cids : s \in ScopesOf[c]})]
Touched(cids) == UNION {ScopesOf[c] : c \in cids}

\* A progress token; the CID only when the position is a delivered row.
Cursor == [epoch : Nat, position : Nat, cid : Cids \cup {None}]
NoCursor == [epoch |-> 0, position |-> 0, cid |-> None]

\* A reader knows the epoch its context cached when it opened the store.
Reader == [phase : {"idle", "scan"}, cached : Nat, cursor : Cursor,
           head : Nat, view : SUBSET Row, last : Nat, page : SUBSET Row,
           given : SUBSET Row]

NewReader(e) == [phase |-> "idle", cached |-> e, cursor |-> NoCursor,
                 head |-> 0, view |-> {}, last |-> 0, page |-> {}, given |-> {}]

-----------------------------------------------------------------------------
Init ==
  /\ epoch = 1
  /\ head = 0
  /\ log = {}
  /\ cidToSeq = [c \in Cids |-> 0]
  /\ blocks = {}
  /\ latest = {}
  /\ prints = [s \in Scopes |-> {}]
  /\ writers = [w \in Writers |-> NoBatch]
  /\ readers = [r \in Readers |-> NewReader(1)]

\* Mutant: the lock does not reach across contexts.
LockFreeAlways == TRUE

\* withTenantWriteLock: one mutation at a time, in whatever context.
LockFree == \A v \in Writers : writers[v] = NoBatch

Begin(w, batch) ==
  /\ LockFree
  /\ writers' = [writers EXCEPT ![w] = batch]
  /\ UNCHANGED <<storeVars, readers>>

NextRow(c) == [position |-> head + 1, cid |-> c]

\* put: a duplicate mutates nothing.
BeginPut(w, c, isLatest) ==
  /\ c \notin Live /\ head < MaxHead
  /\ Begin(w, [put |-> {NextRow(c)}, del |-> {},
               latest |-> IF isLatest THEN {c} ELSE {}, head |-> head + 1,
               touched |-> ScopesOf[c], prints |-> Folded({c})])

\* commitLatestState: the new message, if it is new, and the displaced ones:
\* retained with their flag cleared, or removed.
BeginCommitLatestState(w, c, retains, deletes) ==
  LET new == {c} \ Live
      gone == deletes \cap Live IN
  /\ new # {} => head < MaxHead
  /\ new \cup retains \cup gone # {}      \* an empty plan writes no batch
  /\ Begin(w, [put |-> {NextRow(n) : n \in new} \cup {RowOf(n) : n \in retains},
               del |-> {RowOf(n) : n \in gone},
               latest |-> new, head |-> head + Cardinality(new),
               touched |-> Touched(new \cup gone), prints |-> Folded(new \cup gone)])

\* updateIndexes and updateMessageAndIndexes: same row, same position.
BeginUpdateIndexes(w, c, isLatest) ==
  /\ c \in Live
  /\ Begin(w, [NoBatch EXCEPT !.put = {RowOf(c)}, !.head = head,
                              !.latest = IF isLatest THEN {c} ELSE {}])

\* completeData: a write that is not its record's latest state and is the
\* only message of its record moves to a fresh position.
BeginCompleteData(w, c) ==
  /\ c \in Live \ latest /\ head < MaxHead
  /\ \A d \in Live : RecordOf[d] = RecordOf[c] => d = c
  /\ Begin(w, [NoBatch EXCEPT !.put = {NextRow(c)}, !.del = {RowOf(c)},
                              !.latest = {c}, !.head = head + 1])

\* Mutant: deleting the newest row gives its position back.
BeginDeleteReuses(w, c) ==
  /\ c \in Live
  /\ Begin(w, [NoBatch EXCEPT !.del = {RowOf(c)},
                              !.head = IF cidToSeq[c] = head THEN head - 1 ELSE head,
                              !.touched = ScopesOf[c], !.prints = Folded({c})])

BeginDelete(w, c) ==
  /\ c \in Live
  /\ Begin(w, [NoBatch EXCEPT !.del = {RowOf(c)}, !.head = head,
                              !.touched = ScopesOf[c], !.prints = Folded({c})])

\* The batch is applied; the lock is released.
CommitBatch(w) ==
  LET b == writers[w]
      gone == {r.cid : r \in b.del}
      kept == {r.cid : r \in b.put} IN
  /\ b # NoBatch
  /\ log' = (log \ b.del) \cup b.put
  /\ cidToSeq' = [c \in Cids |->
       IF c \in kept THEN (CHOOSE r \in b.put : r.cid = c).position
       ELSE IF c \in gone THEN 0 ELSE cidToSeq[c]]
  /\ blocks' = (blocks \ gone) \cup kept
  /\ latest' = (latest \ (gone \cup kept)) \cup b.latest
  /\ head' = b.head
  /\ prints' = [s \in Scopes |-> IF s \in b.touched THEN b.prints[s] ELSE prints[s]]
  /\ writers' = [writers EXCEPT ![w] = NoBatch]
  /\ UNCHANGED <<epoch, readers>>

\* The context dies before its batch is written: nothing of it is kept.
WriterDies(w) ==
  /\ writers[w] # NoBatch
  /\ writers' = [writers EXCEPT ![w] = NoBatch]
  /\ UNCHANGED <<storeVars, readers>>

Write(w) ==
  \/ \E c \in Cids, isLatest \in BOOLEAN : BeginPut(w, c, isLatest)
  \/ \E c \in Cids, retains \in SUBSET Live, deletes \in SUBSET Cids :
       /\ retains \cap deletes = {} /\ c \notin retains \cup deletes
       /\ \A d \in retains \cup deletes : RecordOf[d] = RecordOf[c]
       /\ BeginCommitLatestState(w, c, retains, deletes)
  \/ \E c \in Cids, isLatest \in BOOLEAN : BeginUpdateIndexes(w, c, isLatest)
  \/ \E c \in Cids : BeginCompleteData(w, c)
  \/ \E c \in Cids : BeginDelete(w, c)
  \/ CommitBatch(w)
  \/ WriterDies(w)

\* Mutant: clearing keeps the epoch.
ClearKeepsEpoch(self) ==
  /\ self = Readers /\ LockFree
  /\ \A r \in Readers : readers[r].phase = "idle"
  /\ head' = 0
  /\ log' = {}
  /\ cidToSeq' = [c \in Cids |-> 0]
  /\ blocks' = {}
  /\ latest' = {}
  /\ prints' = [s \in Scopes |-> {}]
  /\ UNCHANGED <<epoch, readers, writers>>

\* Mutant: clearing leaves the CID index.
ClearKeepsIndex(self) ==
  /\ self = Readers /\ LockFree
  /\ \A r \in Readers : readers[r].phase = "idle"
  /\ epoch < MaxEpochs
  /\ epoch' = epoch + 1
  /\ head' = 0
  /\ log' = {}
  /\ blocks' = {}
  /\ latest' = {}
  /\ prints' = [s \in Scopes |-> {}]
  /\ readers' = [r \in Readers |-> [readers[r] EXCEPT !.cached = epoch + 1]]
  /\ UNCHANGED <<cidToSeq, writers>>

\* clear: everything is deleted and a fresh epoch persisted.  It takes no
\* tenant lock, and only the clearing context (the readers in self) drops its
\* cached epoch.  A reset of a store that nobody else has open is the case
\* ~ClearOnline.
Clear(self) ==
  /\ epoch < MaxEpochs
  /\ ClearOnline \/ ( /\ self = Readers
                     /\ LockFree
                     /\ \A r \in Readers : readers[r].phase = "idle" )
  /\ epoch' = epoch + 1
  /\ head' = 0
  /\ log' = {}
  /\ cidToSeq' = [c \in Cids |-> 0]
  /\ blocks' = {}
  /\ latest' = {}
  /\ prints' = [s \in Scopes |-> {}]
  /\ readers' = [r \in Readers |->
       IF r \in self THEN [readers[r] EXCEPT !.cached = epoch + 1] ELSE readers[r]]
  /\ UNCHANGED writers

-----------------------------------------------------------------------------
\* validateCursor, against the head captured first.
MessageMismatch(cursor) ==
  /\ cursor.cid # None
  /\ \E row \in log : row.position = cursor.position /\ row.cid # cursor.cid

CursorAccepted(r) ==
  LET cursor == readers[r].cursor IN
  cursor = NoCursor \/ ( /\ cursor.epoch = readers[r].cached
                         /\ cursor.position <= head
                         /\ ~MessageMismatch(cursor) )

\* logRead: capture the head, check the cursor, open the iterator.
ReadOpen(r) ==
  LET start == readers[r].cursor.position IN
  /\ readers[r].phase = "idle"
  /\ CursorAccepted(r)
  /\ start < head
  /\ readers' = [readers EXCEPT
       ![r].phase = "scan", ![r].head = head, ![r].last = start, ![r].page = {},
       ![r].view = {row \in log : start < row.position /\ row.position <= head}]
  /\ UNCHANGED <<storeVars, writers>>

\* An empty log gives a reader without a cursor the position-zero anchor.
ReadEmpty(r) ==
  /\ readers[r].phase = "idle"
  /\ head = 0 /\ readers[r].cursor = NoCursor
  /\ readers' = [readers EXCEPT ![r].cursor.epoch = readers[r].cached]
  /\ UNCHANGED <<storeVars, writers>>

\* A progress gap: the reader starts over without a cursor.
ReadGap(r) ==
  /\ readers[r].phase = "idle"
  /\ ~CursorAccepted(r)
  /\ readers' = [readers EXCEPT ![r] = NewReader(readers[r].cached)]
  /\ UNCHANGED <<storeVars, writers>>

\* A finished read gives its page away with a token; the epoch is looked up
\* when the token is built.
Finished(r, position, cid, page) ==
  [NewReader(readers[r].cached) EXCEPT
     !.cursor = [epoch |-> readers[r].cached, position |-> position, cid |-> cid],
     !.given = readers[r].given \cup page]

IsNextRow(r, row) ==
  /\ row \in readers[r].view /\ row.position > readers[r].last
  /\ \A other \in readers[r].view :
       other.position > readers[r].last => row.position <= other.position

\* The iterator yields its next row, which matches and still has its block.
ReadDeliver(r, row) ==
  LET page == readers[r].page \cup {row} IN
  /\ readers[r].phase = "scan"
  /\ IsNextRow(r, row)
  /\ row.cid \in InScope \cap blocks
  /\ readers' = [readers EXCEPT ![r] =
       IF Cardinality(page) >= Limit \/ row.position >= @.head
       THEN Finished(r, row.position, row.cid, page)
       ELSE [@ EXCEPT !.last = row.position, !.page = page]]
  /\ UNCHANGED <<storeVars, writers>>

\* It does not match, its block is gone, or an iterator that is not a snapshot
\* no longer finds the row.
ReadSkip(r, row) ==
  /\ readers[r].phase = "scan"
  /\ IsNextRow(r, row)
  /\ row.cid \notin InScope \cap blocks \/ row \notin log
  /\ readers' = [readers EXCEPT ![r].last = row.position]
  /\ UNCHANGED <<storeVars, writers>>

\* Mutant: the cursor is the head at the end of the scan.
ReadDrainedAtCurrentHead(r) ==
  /\ readers[r].phase = "scan"
  /\ \A row \in readers[r].view : row.position <= readers[r].last
  /\ readers' = [readers EXCEPT ![r] = Finished(r, head, None, @.page)]
  /\ UNCHANGED <<storeVars, writers>>

\* The scan is complete: the cursor is the captured head.
ReadDrained(r) ==
  /\ readers[r].phase = "scan"
  /\ \A row \in readers[r].view : row.position <= readers[r].last
  /\ readers' = [readers EXCEPT ![r] = Finished(r, @.head, None, @.page)]
  /\ UNCHANGED <<storeVars, writers>>

\* The reader's context dies and opens the store again: the page is lost, the
\* cursor of the page before it is kept.
ReaderReopens(r) ==
  /\ readers' = [readers EXCEPT ![r] =
       [NewReader(epoch) EXCEPT !.cursor = readers[r].cursor, !.given = readers[r].given]]
  /\ UNCHANGED <<storeVars, writers>>

Read(r) ==
  \/ ReadOpen(r) \/ ReadEmpty(r) \/ ReadGap(r)
  \/ \E row \in readers[r].view : ReadDeliver(r, row) \/ ReadSkip(r, row)
  \/ ReadDrained(r)
  \/ ReaderReopens(r)

Next ==
  \/ \E w \in Writers : Write(w)
  \/ \E r \in Readers : Read(r)
  \/ \E self \in SUBSET Readers : Clear(self)

Spec == Init /\ [][Next]_vars

-----------------------------------------------------------------------------
\* The partitions and the readers have the shapes the code gives them.
TypeOK ==
  /\ epoch \in Nat /\ head \in Nat
  /\ log \subseteq Row
  /\ cidToSeq \in [Cids -> Nat]
  /\ blocks \subseteq Cids /\ latest \subseteq Cids
  /\ prints \in [Scopes -> SUBSET Cids]
  /\ writers \in [Writers -> Batch]
  /\ readers \in [Readers -> Reader]

\* The log and the CID index are inverse to each other, every live row has its
\* block, and no position is above the head: getLogEntryForMutation never finds
\* the index pointing at a missing row, and one CID is in the log only once.
LogConsistent ==
  /\ TypeOK
  /\ \A row \in log : row.position = cidToSeq[row.cid]
  /\ \A c \in Live : RowOf(c) \in log /\ cidToSeq[c] <= head
  /\ \A c, d \in Live : cidToSeq[c] = cidToSeq[d] => c = d
  /\ blocks = Live

\* A scope's fingerprint is the fold of exactly the live messages in the scope,
\* whatever order of inserts, displacements, moves and deletes led there: the
\* fold is a read-modify-write that relies on the lock.
FingerprintIsLiveSet ==
  \A s \in Scopes : prints[s] = {c \in Live : s \in ScopesOf[c]}

\* A reader is never taken past a live matching row it was not given: every
\* such row at or below its cursor was delivered at that very position, so a
\* write that was completed later (and moved) is delivered again.
NoSkip ==
  \A r \in Readers :
    readers[r].cursor.epoch = epoch =>
      \A row \in log :
        row.cid \in InScope /\ row.position <= readers[r].cursor.position =>
          row \in readers[r].given

\* Commit order is position order: a row becomes visible only above every
\* position issued before, so an observed head is a visibility barrier.
VisibilityBarrier ==
  [][epoch' = epoch => /\ head' >= head
                       /\ \A row \in log' \ log : row.position > head]_vars

\* clear is "a full local reset after which no previously issued cursor is
\* valid": no read starts from a token of an earlier epoch.
NoOldCursorAfterClear ==
  [][\A r \in Readers :
       readers[r].phase = "idle" /\ readers'[r].phase = "scan" =>
         readers[r].cursor = NoCursor \/ readers[r].cursor.epoch = epoch]_vars
=============================================================================
