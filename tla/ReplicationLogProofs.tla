------------------------ MODULE ReplicationLogProofs ------------------------
(***************************************************************************)
(* Machine-checked theorems about ReplicationLog, for all sets of          *)
(* messages, scopes, records, writers and readers and for every bound, in  *)
(* the case of a store that is only cleared while nobody else uses it.     *)
(*                                                                         *)
(* None of the properties is inductive.  The log is consistent after a     *)
(* commit because of what the batch was computed from under the lock, and  *)
(* no row is skipped because of what a scan in progress has still in view: *)
(* LogInv adds what is true of the batch in flight (BatchSound) and of     *)
(* every reader (ReaderSound).                                             *)
(***************************************************************************)
EXTENDS ReplicationLog, FiniteSetTheorems, TLAPS

\* The messages that a batch removes, those it writes, and the live messages
\* once it is applied.
Gone(b) == {r.cid : r \in b.del}
Kept(b) == {r.cid : r \in b.put}
LiveAfter(b) == (Live \ Gone(b)) \cup Kept(b)

\* The rows a batch writes keep their position, or one of them takes the next;
\* a message that moves gives its old row up.
RowsSound(b) ==
  /\ b.head \in {head, head + 1}
  /\ b.del \subseteq log
  /\ \A r \in b.put : \/ r \in log \ b.del
                      \/ /\ r.position = head + 1 /\ b.head = head + 1
                         /\ r.cid \notin Live \/ RowOf(r.cid) \in b.del
  /\ \A r, s \in b.put : r.cid = s.cid \/ r.position = s.position => r = s

\* The fingerprints a batch writes are those of the messages it leaves live.
PrintsSound(b) ==
  \A s \in Scopes :
    (IF s \in b.touched THEN b.prints[s] ELSE prints[s])
      = {c \in LiveAfter(b) : s \in ScopesOf[c]}

BatchSound(b) == RowsSound(b) /\ PrintsSound(b)

\* The batch in flight was computed from the present state of the store.
WritersSound ==
  \A w \in Writers : writers[w] # NoBatch =>
    /\ BatchSound(writers[w])
    /\ \A v \in Writers : writers[v] # NoBatch => v = w

\* A reader x, in a store with epoch e, head h and log L: its cursor is not
\* ahead and covers only rows it was given, and a scan still has in view what
\* it has not collected.
ReaderSound(x, e, h, L) ==
  /\ x.cached = e
  /\ x.cursor.epoch <= e
  /\ x.cursor.epoch = e =>
       /\ x.cursor.position <= h
       /\ \A row \in L :
            row.cid \in InScope /\ row.position <= x.cursor.position => row \in x.given
  /\ x.phase = "scan" =>
       /\ x.head <= h
       /\ \A a \in x.view : a.position <= x.head
       /\ \A a, b \in x.view : a.position = b.position => a = b
       /\ \A row \in L : row.cid \in InScope /\ row.position <= x.head =>
            row \in x.given \cup x.page \/ (row \in x.view /\ row.position > x.last)

ReadersSound == \A r \in Readers : ReaderSound(readers[r], epoch, head, log)

\* The inductive invariant.
LogInv ==
  /\ LogConsistent
  /\ FingerprintIsLiveSet
  /\ epoch >= 1
  /\ WritersSound
  /\ ReadersSound

-----------------------------------------------------------------------------
(* The log as a set of rows. *)

\* A row of a consistent log is the row of a live message, and rows differ in
\* message and in position.
LEMMA LogRows ==
  ASSUME LogConsistent
  PROVE  /\ \A r \in log : /\ r.cid \in Live /\ RowOf(r.cid) = r
                           /\ r.position \in Nat /\ 0 < r.position /\ r.position <= head
         /\ \A r, s \in log : r.cid = s.cid \/ r.position = s.position => r = s
         /\ \A c \in Live : RowOf(c) \in log /\ RowOf(c) \in Row
<1>1. \A r \in log : /\ r \in Row /\ r.position = cidToSeq[r.cid]
                     /\ r.cid \in Cids /\ r.position \in Nat \ {0}
  BY Zenon DEF LogConsistent, TypeOK, Row
<1>2. \A r \in log : r.cid \in Live /\ RowOf(r.cid) = r
  BY <1>1 DEF Live, RowOf, Row
<1>3. \A c \in Live : RowOf(c) \in log /\ cidToSeq[c] <= head
  BY Zenon DEF LogConsistent
<1>4. \A r \in log : r.position <= head
  BY <1>1, <1>2, <1>3, Zenon
<1>5. \A r, s \in log : r.position = s.position => r.cid = s.cid
  BY <1>1, <1>2, Zenon DEF LogConsistent
<1>6. \A r, s \in log : r.cid = s.cid => r = s
  BY <1>2, Zenon
<1> QED
  BY <1>1, <1>2, <1>3, <1>4, <1>5, <1>6 DEF LogConsistent, TypeOK

\* Unless one is begun, the store keeps a sound batch sound.
LEMMA StoreUnchanged ==
  ASSUME UNCHANGED storeVars, NEW b
  PROVE  BatchSound(b)' <=> BatchSound(b)
BY Zenon DEF storeVars, BatchSound, RowsSound, PrintsSound, LiveAfter, Live, Gone, Kept, RowOf

-----------------------------------------------------------------------------
(* Mutations. *)

\* A batch that is sound when it is begun is sound while it is in flight.
LEMMA BeginStep ==
  ASSUME LogInv, NEW w \in Writers, NEW b \in Batch, BatchSound(b), Begin(w, b)
  PROVE  LogInv'
<1>1. /\ UNCHANGED storeVars /\ UNCHANGED readers
      /\ writers' = [writers EXCEPT ![w] = b]
      /\ \A v \in Writers : writers[v] = NoBatch
  BY Zenon DEF Begin, LockFree
<1>2. writers \in [Writers -> Batch]
  BY Zenon DEF LogInv, LogConsistent, TypeOK
<1>3. TypeOK'
  BY <1>1, <1>2, Zenon DEF LogInv, LogConsistent, TypeOK, storeVars
<1>4. WritersSound'
  <2>1. \A v \in Writers : writers'[v] = IF v = w THEN b ELSE NoBatch
    BY <1>1, <1>2, Zenon
  <2>2. NoBatch' = NoBatch
    BY Zenon DEF NoBatch
  <2>3. BatchSound(b)'
    BY <1>1, StoreUnchanged, Zenon
  <2> SUFFICES ASSUME NEW v \in Writers, writers'[v] # NoBatch
               PROVE  /\ BatchSound(writers[v])'
                      /\ \A u \in Writers : writers'[u] # NoBatch => u = v
    BY <2>2, Zenon DEF WritersSound
  <2>4. v = w /\ writers'[v] = b
    BY <2>1, Zenon
  <2>5. BatchSound(writers[v])'
    BY <2>3, <2>4, Zenon DEF BatchSound, RowsSound, PrintsSound, LiveAfter, Gone, Kept
  <2> QED
    BY <2>1, <2>4, <2>5, Zenon
<1> QED
  BY <1>1, <1>3, <1>4, Zenon DEF LogInv, LogConsistent, FingerprintIsLiveSet, ReadersSound,
                          storeVars, Live, RowOf

\* The row of a new message is at the next position, which no row has.
LEMMA NextRowNew ==
  ASSUME LogConsistent, NEW c \in Cids
  PROVE  /\ NextRow(c) \in Row /\ NextRow(c).cid = c /\ NextRow(c).position = head + 1
         /\ NextRow(c) \notin log
BY LogRows DEF LogConsistent, TypeOK, NextRow, Row

\* Folding in the messages that come and those that go gives the fingerprints
\* of the live messages: a batch that carries them is sound.
LEMMA FoldedPrints ==
  ASSUME LogInv, NEW b, NEW new \in SUBSET Cids, NEW gone \in SUBSET Live, new \cap Live = {},
         b.touched = Touched(new \cup gone), b.prints = Folded(new \cup gone),
         LiveAfter(b) = (Live \ gone) \cup new
  PROVE  PrintsSound(b)
<1>1. ASSUME NEW s \in Scopes
      PROVE  (IF s \in b.touched THEN b.prints[s] ELSE prints[s]) = {c \in LiveAfter(b) : s \in ScopesOf[c]}
  <2>1. (IF s \in Touched(new \cup gone) THEN Folded(new \cup gone)[s] ELSE prints[s])
          = {c \in (Live \ gone) \cup new : s \in ScopesOf[c]}
    <3>1. prints[s] = {c \in Live : s \in ScopesOf[c]}
      BY Zenon DEF LogInv, FingerprintIsLiveSet
    <3>2. Folded(new \cup gone)[s] = {c \in (Live \ gone) \cup new : s \in ScopesOf[c]}
      BY <3>1, Zenon DEF Folded, Xor
    <3>3. s \notin Touched(new \cup gone) => \A c \in new \cup gone : s \notin ScopesOf[c]
      BY Zenon DEF Touched
    <3> QED
      BY <3>1, <3>2, <3>3, Zenon
  <2> QED
    BY <2>1, Zenon
<1> QED
  BY <1>1, Zenon DEF PrintsSound

\* put
LEMMA BeginPutStep ==
  ASSUME LogInv, NEW w \in Writers, NEW c \in Cids, NEW isLatest \in BOOLEAN,
         BeginPut(w, c, isLatest)
  PROVE  LogInv'
<1> DEFINE flags == IF isLatest THEN {c} ELSE {}
           b == [put |-> {NextRow(c)}, del |-> {}, latest |-> flags, head |-> head + 1,
                 touched |-> ScopesOf[c], prints |-> Folded({c})]
<1>1. Begin(w, b) /\ c \notin Live
  BY Zenon DEF BeginPut
<1>2. head \in Nat /\ prints \in [Scopes -> SUBSET Cids] /\ ScopesOf[c] \in SUBSET Scopes
  BY LogAssumption, Zenon DEF LogInv, LogConsistent, TypeOK
<1>3. /\ NextRow(c) \in Row /\ NextRow(c).cid = c /\ NextRow(c).position = head + 1
      /\ NextRow(c) \notin log
  BY NextRowNew, Zenon DEF LogInv
<1>4. Folded({c}) \in [Scopes -> SUBSET Cids]
  BY <1>2, Zenon DEF Folded, Xor
<1>5. b \in Batch
  <2>1. flags \in SUBSET Cids
    BY Zenon
  <2>2. {NextRow(c)} \in SUBSET Row /\ {} \in SUBSET Row /\ head + 1 \in Nat
    BY <1>2, <1>3
  <2> HIDE DEF flags
  <2> QED
    BY <1>2, <1>4, <2>1, <2>2, Zenon DEF Batch
<1> HIDE DEF flags
<1>6. RowsSound(b)
  BY <1>1, <1>2, <1>3, Zenon DEF RowsSound
<1>7. PrintsSound(b)
  <2>1. Gone(b) = {} /\ Kept(b) = {c}
    BY <1>3, Zenon DEF Gone, Kept
  <2>2. {c} \cup {} = {c} /\ Touched({c}) = ScopesOf[c]
    BY Zenon DEF Touched
  <2>3. {c} \in SUBSET Cids /\ {} \in SUBSET Live /\ {c} \cap Live = {}
    BY <1>1, Zenon
  <2>4. b.touched = ScopesOf[c] /\ b.prints = Folded({c})
    BY Zenon
  <2>5. b.touched = Touched({c} \cup {}) /\ b.prints = Folded({c} \cup {})
    BY <2>2, <2>4, Zenon
  <2>6. LiveAfter(b) = (Live \ {}) \cup {c}
    BY <2>1, Zenon DEF LiveAfter
  <2> QED
    BY <2>3, <2>5, <2>6, FoldedPrints, Zenon
<1> QED
  BY <1>1, <1>5, <1>6, <1>7, BeginStep, Zenon DEF BatchSound

\* commitLatestState: a message that is new takes the next position, retained
\* ones keep theirs, and those displaced and live are removed.
LEMMA BeginCommitLatestStateStep ==
  ASSUME LogInv, NEW w \in Writers, NEW c \in Cids,
         NEW retains \in SUBSET Live, NEW deletes \in SUBSET Cids,
         retains \cap deletes = {}, c \notin retains \cup deletes,
         BeginCommitLatestState(w, c, retains, deletes)
  PROVE  LogInv'
<1> DEFINE new == {c} \ Live
           gone == deletes \cap Live
           b == [put |-> {NextRow(n) : n \in new} \cup {RowOf(n) : n \in retains},
                 del |-> {RowOf(n) : n \in gone},
                 latest |-> new, head |-> head + Cardinality(new),
                 touched |-> Touched(new \cup gone), prints |-> Folded(new \cup gone)]
<1>1. Begin(w, b)
  BY Zenon DEF BeginCommitLatestState
<1>2. head \in Nat /\ prints \in [Scopes -> SUBSET Cids] /\ Live \subseteq Cids
  BY Zenon DEF LogInv, LogConsistent, TypeOK, Live
<1>3. Cardinality(new) = IF c \in Live THEN 0 ELSE 1
  <2>1. c \in Live => new = {}
    BY Zenon
  <2>2. c \notin Live => new = {c}
    BY Zenon
  <2> QED
    BY <2>1, <2>2, FS_EmptySet, FS_Singleton, Zenon
<1>4. /\ NextRow(c) \in Row /\ NextRow(c).cid = c /\ NextRow(c).position = head + 1
      /\ NextRow(c) \notin log
  BY NextRowNew, Zenon DEF LogInv
<1>5. \A n \in Live : RowOf(n) \in log /\ RowOf(n) \in Row /\ RowOf(n).cid = n
  BY LogRows, Zenon DEF LogInv, RowOf
<1>6. \A r \in log : r.cid \in Live /\ r.position <= head /\ r.position \in Nat
  BY LogRows, Zenon DEF LogInv
<1>7. \A r, s \in log : r.cid = s.cid \/ r.position = s.position => r = s
  BY LogRows, Zenon DEF LogInv
<1>8. b \in Batch
  <2>1. Touched(new \cup gone) \in SUBSET Scopes
    BY <1>2, LogAssumption DEF Touched
  <2>2. Folded(new \cup gone) \in [Scopes -> SUBSET Cids]
    BY <1>2, Zenon DEF Folded, Xor
  <2>3. b.put \in SUBSET Row /\ b.del \in SUBSET Row /\ b.latest \in SUBSET Cids /\ b.head \in Nat
    BY <1>2, <1>3, <1>4, <1>5
  <2> QED
    BY <2>1, <2>2, <2>3, Zenon DEF Batch
<1>9. RowsSound(b)
  <2>1. b.head \in {head, head + 1} /\ b.del \subseteq log
    BY <1>2, <1>3, <1>5
  <2>2. ASSUME NEW r \in b.put
        PROVE  \/ r \in log \ b.del /\ r.cid \in retains
               \/ /\ r = NextRow(c) /\ c \notin Live /\ b.head = head + 1
    <3>1. CASE r \in {NextRow(n) : n \in new}
      BY <1>3, <3>1, Zenon
    <3>2. ASSUME NEW n \in retains, r = RowOf(n) PROVE r \in log \ b.del /\ r.cid \in retains
      BY <1>5, <3>2
    <3> QED
      BY <2>2, <3>1, <3>2, Zenon
  <2>3. ASSUME NEW r \in b.put, NEW s \in b.put, r.cid = s.cid \/ r.position = s.position
        PROVE  r = s
    BY <1>2, <1>4, <1>6, <1>7, <2>2, <2>3
  <2> QED
    BY <1>4, <2>1, <2>2, <2>3 DEF RowsSound
<1>10. PrintsSound(b)
  <2>1. Gone(b) = gone
    BY <1>5 DEF Gone
  <2>2. Kept(b) = new \cup retains
    BY <1>4, <1>5 DEF Kept
  <2>3. LiveAfter(b) = (Live \ gone) \cup new
    BY <2>1, <2>2, Zenon DEF LiveAfter
  <2>4. new \in SUBSET Cids /\ gone \in SUBSET Live /\ new \cap Live = {}
    BY Zenon
  <2>5. b.touched = Touched(new \cup gone) /\ b.prints = Folded(new \cup gone)
    BY Zenon
  <2> HIDE DEF new, gone, b
  <2> QED
    BY <2>3, <2>4, <2>5, FoldedPrints, Zenon
<1> QED
  BY <1>1, <1>8, <1>9, <1>10, BeginStep, Zenon DEF BatchSound

\* A batch without fingerprints that leaves the same messages live.
LEMMA PrintsKept ==
  ASSUME LogInv, NEW b \in Batch, b.touched = {}, LiveAfter(b) = Live
  PROVE  PrintsSound(b)
BY Zenon DEF LogInv, FingerprintIsLiveSet, PrintsSound

\* The batch that writes nothing.
LEMMA NoBatchFields ==
  /\ NoBatch \in Batch /\ NoBatch.put = {} /\ NoBatch.del = {} /\ NoBatch.latest = {}
  /\ NoBatch.touched = {}
<1>1. [s \in Scopes |-> {}] \in [Scopes -> SUBSET Cids]
  BY Zenon
<1> QED
  BY <1>1, Zenon DEF NoBatch, Batch

\* updateIndexes and updateMessageAndIndexes
LEMMA BeginUpdateIndexesStep ==
  ASSUME LogInv, NEW w \in Writers, NEW c \in Cids, NEW isLatest \in BOOLEAN,
         BeginUpdateIndexes(w, c, isLatest)
  PROVE  LogInv'
<1> DEFINE flags == IF isLatest THEN {c} ELSE {}
           b == [NoBatch EXCEPT !.put = {RowOf(c)}, !.head = head, !.latest = flags]
<1>1. Begin(w, b) /\ c \in Live
  BY Zenon DEF BeginUpdateIndexes
<1>2. RowOf(c) \in log /\ RowOf(c) \in Row /\ RowOf(c).cid = c
  BY <1>1, LogRows, Zenon DEF LogInv, RowOf
<1>0. flags \in SUBSET Cids /\ head \in Nat
  BY Zenon DEF LogInv, LogConsistent, TypeOK
<1> HIDE DEF flags
<1>3. b.put = {RowOf(c)} /\ b.del = {} /\ b.head = head /\ b.touched = {}
  BY NoBatchFields, Zenon DEF Batch
<1>4. b \in Batch
  BY <1>0, <1>2, NoBatchFields, Zenon DEF Batch
<1> HIDE DEF b
<1>5. RowsSound(b)
  BY <1>2, <1>3, Zenon DEF RowsSound
<1>6. LiveAfter(b) = Live
  BY <1>1, <1>2, <1>3, Zenon DEF LiveAfter, Gone, Kept
<1>7. PrintsSound(b)
  BY <1>3, <1>4, <1>6, PrintsKept, Zenon
<1> QED
  BY <1>1, <1>4, <1>5, <1>7, BeginStep, Zenon DEF BatchSound

\* completeData
LEMMA BeginCompleteDataStep ==
  ASSUME LogInv, NEW w \in Writers, NEW c \in Cids, BeginCompleteData(w, c)
  PROVE  LogInv'
<1> DEFINE b == [NoBatch EXCEPT !.put = {NextRow(c)}, !.del = {RowOf(c)},
                                !.latest = {c}, !.head = head + 1]
<1>1. Begin(w, b) /\ c \in Live
  BY Zenon DEF BeginCompleteData
<1>2. RowOf(c) \in log /\ RowOf(c) \in Row /\ RowOf(c).cid = c
  BY <1>1, LogRows, Zenon DEF LogInv, RowOf
<1>3. NextRow(c) \in Row /\ NextRow(c).cid = c /\ NextRow(c).position = head + 1
  BY NextRowNew, Zenon DEF LogInv
<1>0. head \in Nat
  BY Zenon DEF LogInv, LogConsistent, TypeOK
<1>4. b.put = {NextRow(c)} /\ b.del = {RowOf(c)} /\ b.head = head + 1 /\ b.touched = {}
  BY NoBatchFields, Zenon DEF Batch
<1>5. b \in Batch
  <2>1. {NextRow(c)} \in SUBSET Row /\ {RowOf(c)} \in SUBSET Row /\ {c} \in SUBSET Cids
    BY <1>2, <1>3, Zenon
  <2>2. head + 1 \in Nat
    BY <1>0
  <2> QED
    BY <2>1, <2>2, NoBatchFields, Zenon DEF Batch
<1> HIDE DEF b
<1>6. RowsSound(b)
  BY <1>2, <1>3, <1>4, Zenon DEF RowsSound
<1>7. LiveAfter(b) = Live
  BY <1>1, <1>2, <1>3, <1>4, Zenon DEF LiveAfter, Gone, Kept
<1>8. PrintsSound(b)
  BY <1>4, <1>5, <1>7, PrintsKept, Zenon
<1> QED
  BY <1>1, <1>5, <1>6, <1>8, BeginStep, Zenon DEF BatchSound

\* delete
LEMMA BeginDeleteStep ==
  ASSUME LogInv, NEW w \in Writers, NEW c \in Cids, BeginDelete(w, c)
  PROVE  LogInv'
<1> DEFINE b == [NoBatch EXCEPT !.del = {RowOf(c)}, !.head = head,
                                !.touched = ScopesOf[c], !.prints = Folded({c})]
<1>1. Begin(w, b) /\ c \in Live
  BY Zenon DEF BeginDelete
<1>2. RowOf(c) \in log /\ RowOf(c) \in Row /\ RowOf(c).cid = c
  BY <1>1, LogRows, Zenon DEF LogInv, RowOf
<1>3. /\ b.put = {} /\ b.del = {RowOf(c)} /\ b.head = head
      /\ b.touched = ScopesOf[c] /\ b.prints = Folded({c})
  BY NoBatchFields, Zenon DEF Batch
<1>4. head \in Nat /\ prints \in [Scopes -> SUBSET Cids] /\ ScopesOf[c] \in SUBSET Scopes
  BY LogAssumption, Zenon DEF LogInv, LogConsistent, TypeOK
<1>5. Folded({c}) \in [Scopes -> SUBSET Cids]
  BY <1>4, Zenon DEF Folded, Xor
<1>6. b \in Batch
  BY <1>2, <1>4, <1>5, NoBatchFields, Zenon DEF Batch
<1> HIDE DEF b
<1>7. RowsSound(b)
  BY <1>2, <1>3, <1>4, Zenon DEF RowsSound
<1>8. PrintsSound(b)
  <2>1. LiveAfter(b) = (Live \ {c}) \cup {}
    BY <1>2, <1>3, Zenon DEF LiveAfter, Gone, Kept
  <2>2. {} \cup {c} = {c} /\ Touched({c}) = ScopesOf[c]
    BY Zenon DEF Touched
  <2>3. b.touched = Touched({} \cup {c}) /\ b.prints = Folded({} \cup {c})
    BY <1>3, <2>2, Zenon
  <2>4. {} \in SUBSET Cids /\ {c} \in SUBSET Live /\ {} \cap Live = {}
    BY <1>1, Zenon
  <2> QED
    BY <2>1, <2>3, <2>4, FoldedPrints, Zenon
<1> QED
  BY <1>1, <1>6, <1>7, <1>8, BeginStep, Zenon DEF BatchSound

\* What an applied batch leaves: every row is at the position of the index,
\* rows differ in position, and only the next position is new.
LEMMA AppliedRows ==
  ASSUME LogInv, NEW w \in Writers, CommitBatch(w)
  PROVE  /\ \A row \in log' : row.position = cidToSeq'[row.cid]
         /\ \A c \in Cids : cidToSeq'[c] # 0 =>
              [position |-> cidToSeq'[c], cid |-> c] \in log' /\ cidToSeq'[c] <= head'
         /\ \A r, s \in log' : r.position = s.position => r = s
         /\ Live' = LiveAfter(writers[w])
         /\ cidToSeq' \in [Cids -> Nat] /\ log' \subseteq Row
         /\ head' \in {head, head + 1}
         /\ \A row \in log' \ log : row.position > head
<1> DEFINE b == writers[w]
<1>1. /\ b # NoBatch /\ head' = b.head
      /\ log' = (log \ b.del) \cup b.put
      /\ cidToSeq' = [c \in Cids |->
           IF c \in Kept(b) THEN (CHOOSE r \in b.put : r.cid = c).position
           ELSE IF c \in Gone(b) THEN 0 ELSE cidToSeq[c]]
  BY Zenon DEF CommitBatch, Kept, Gone
<1>2. RowsSound(b) /\ b \in Batch
  BY <1>1, Zenon DEF LogInv, LogConsistent, TypeOK, WritersSound, BatchSound
<1>3. b.put \subseteq Row /\ head \in Nat /\ cidToSeq \in [Cids -> Nat]
  BY <1>2, Zenon DEF Batch, LogInv, LogConsistent, TypeOK
<1>4. /\ \A r \in log : /\ r \in Row /\ r.cid \in Live /\ r.cid \in Cids
                        /\ r = [position |-> cidToSeq[r.cid], cid |-> r.cid]
                        /\ r.position = cidToSeq[r.cid]
                        /\ r.position \in Nat /\ 0 < r.position /\ r.position <= head
      /\ \A r, s \in log : r.cid = s.cid \/ r.position = s.position => r = s
  BY LogRows, Zenon DEF LogInv, LogConsistent, TypeOK, Live, RowOf
<1>5. \A r \in b.put : /\ r.cid \in Kept(b) /\ r.cid \in Cids
                       /\ cidToSeq'[r.cid] = r.position
                       /\ r.position \in Nat /\ 0 < r.position
                       /\ r = [position |-> r.position, cid |-> r.cid]
  <2> SUFFICES ASSUME NEW r \in b.put
               PROVE  /\ r.cid \in Kept(b) /\ r.cid \in Cids
                      /\ cidToSeq'[r.cid] = r.position
                      /\ r.position \in Nat /\ 0 < r.position
                      /\ r = [position |-> r.position, cid |-> r.cid]
    BY Zenon
  <2>1. /\ r.cid \in Cids /\ r.position \in Nat /\ 0 < r.position
        /\ r = [position |-> r.position, cid |-> r.cid]
    BY <1>3 DEF Row
  <2>2. r.cid \in Kept(b)
    BY Zenon DEF Kept
  <2>3. (CHOOSE s \in b.put : s.cid = r.cid) = r
    BY <1>2, Zenon DEF RowsSound
  <2> QED
    BY <1>1, <2>1, <2>2, <2>3, Zenon
<1>6. \A row \in log \ b.del : row \notin b.put =>
        row.cid \notin Kept(b) /\ row.cid \notin Gone(b)
  <2> SUFFICES ASSUME NEW row \in log \ b.del, row \notin b.put
               PROVE  row.cid \notin Kept(b) /\ row.cid \notin Gone(b)
    BY Zenon
  <2>1. row.cid \notin Gone(b)
    BY <1>2, <1>4, Zenon DEF Gone, RowsSound
  <2>2. ASSUME NEW r \in b.put, r.cid = row.cid PROVE FALSE
    <3>1. CASE r \in log
      BY <1>4, <2>2, <3>1, Zenon
    <3>2. CASE r \notin log
      <4>1. r.cid \notin Live \/ RowOf(r.cid) \in b.del
        BY <1>2, <3>2, Zenon DEF RowsSound
      <4>2. RowOf(row.cid) = row
        BY <1>4, Zenon DEF RowOf
      <4> QED
        BY <1>4, <2>2, <4>1, <4>2, Zenon
    <3> QED
      BY <3>1, <3>2, Zenon
  <2> QED
    BY <2>1, <2>2, Zenon DEF Kept
<1>7. \A row \in log' : row.position = cidToSeq'[row.cid]
  BY <1>1, <1>4, <1>5, <1>6, Zenon
<1>8. \A c \in Cids : cidToSeq'[c] \in Nat /\ (cidToSeq'[c] # 0 <=> c \in LiveAfter(b))
  <2> SUFFICES ASSUME NEW c \in Cids
               PROVE  cidToSeq'[c] \in Nat /\ (cidToSeq'[c] # 0 <=> c \in LiveAfter(b))
    BY Zenon
  <2>1. CASE c \in Kept(b)
    BY <1>5, <2>1 DEF Kept, LiveAfter
  <2>2. CASE c \notin Kept(b)
    BY <1>1, <1>3, <2>2, Zenon DEF LiveAfter, Live
  <2> QED
    BY <2>1, <2>2, Zenon
<1>9. \A c \in Cids : cidToSeq'[c] # 0 =>
        [position |-> cidToSeq'[c], cid |-> c] \in log' /\ cidToSeq'[c] <= head'
  <2> SUFFICES ASSUME NEW c \in Cids, cidToSeq'[c] # 0
               PROVE  [position |-> cidToSeq'[c], cid |-> c] \in log' /\ cidToSeq'[c] <= head'
    BY Zenon
  <2>1. ASSUME NEW r \in b.put, r.cid = c
        PROVE  [position |-> cidToSeq'[c], cid |-> c] = r /\ cidToSeq'[c] <= head'
    BY <1>1, <1>2, <1>3, <1>4, <1>5, <2>1 DEF RowsSound
  <2>2. CASE c \notin Kept(b)
    <3>1. c \notin Gone(b) /\ cidToSeq'[c] = cidToSeq[c] /\ c \in Live
      BY <1>1, <2>2, Zenon DEF Live
    <3>2. RowOf(c) \in log /\ RowOf(c) = [position |-> cidToSeq'[c], cid |-> c]
          /\ RowOf(c).cid = c
      BY <3>1, LogRows, Zenon DEF LogInv, RowOf
    <3>3. RowOf(c) \notin b.del
      BY <3>1, <3>2, Zenon DEF Gone
    <3>4. cidToSeq[c] <= head
      BY <3>1, Zenon DEF LogInv, LogConsistent
    <3> QED
      BY <1>1, <1>2, <1>3, <3>1, <3>2, <3>3, <3>4 DEF RowsSound
  <2> QED
    BY <1>1, <2>1, <2>2, Zenon DEF Kept
<1>10. \A r, s \in log' : r.position = s.position => r = s
  <2> SUFFICES ASSUME NEW r \in log', NEW s \in log', r.position = s.position PROVE r = s
    BY Zenon
  <2>1. CASE r \in b.put /\ s \in b.put
    BY <1>2, <2>1, Zenon DEF RowsSound
  <2>2. CASE r \in log /\ s \in log
    BY <1>4, <2>2, Zenon
  <2>3. ASSUME NEW x \in b.put, x \notin log, NEW y \in log, x.position = y.position PROVE FALSE
    BY <1>2, <1>3, <1>4, <2>3 DEF RowsSound
  <2> QED
    BY <1>1, <2>1, <2>2, <2>3, Zenon
<1>11. head' \in {head, head + 1} /\ \A row \in log' \ log : row.position > head
  BY <1>1, <1>2, <1>3 DEF RowsSound
<1>12. Live' = LiveAfter(b)
  <2>1. LiveAfter(b) \subseteq Cids
    BY <1>5, Zenon DEF LiveAfter, Live, Kept
  <2> QED
    BY <1>8, <2>1, Zenon DEF Live
<1>13. cidToSeq' \in [Cids -> Nat] /\ log' \subseteq Row
  BY <1>1, <1>3, <1>4, <1>8, Zenon
<1> QED
  BY <1>7, <1>9, <1>10, <1>11, <1>12, <1>13, Zenon

\* Rows that come above the head do not concern a reader.
LEMMA ReaderKept ==
  ASSUME NEW x \in Reader, NEW e \in Nat, NEW h \in Nat, NEW h2 \in Nat,
         NEW L \in SUBSET Row, NEW L2 \in SUBSET Row,
         h <= h2, \A row \in L2 \ L : row.position > h,
         ReaderSound(x, e, h, L)
  PROVE  ReaderSound(x, e, h2, L2)
<1>1. x.cursor.position \in Nat /\ x.head \in Nat /\ \A row \in L2 : row.position \in Nat
  BY Zenon DEF Reader, Cursor, Row
<1> QED
  BY <1>1 DEF ReaderSound

\* The batch is applied.
LEMMA CommitStep ==
  ASSUME LogInv, NEW w \in Writers, CommitBatch(w)
  PROVE  LogInv'
<1> DEFINE b == writers[w]
<1>1. /\ b # NoBatch /\ UNCHANGED <<epoch, readers>>
      /\ blocks' = (blocks \ Gone(b)) \cup Kept(b)
      /\ latest' = (latest \ (Gone(b) \cup Kept(b))) \cup b.latest
      /\ prints' = [s \in Scopes |-> IF s \in b.touched THEN b.prints[s] ELSE prints[s]]
      /\ writers' = [writers EXCEPT ![w] = NoBatch]
  BY Zenon DEF CommitBatch, Gone, Kept
<1>2. /\ \A row \in log' : row.position = cidToSeq'[row.cid]
      /\ \A c \in Cids : cidToSeq'[c] # 0 =>
           [position |-> cidToSeq'[c], cid |-> c] \in log' /\ cidToSeq'[c] <= head'
      /\ \A r, s \in log' : r.position = s.position => r = s
      /\ Live' = LiveAfter(b)
      /\ cidToSeq' \in [Cids -> Nat] /\ log' \subseteq Row
      /\ head' \in {head, head + 1}
      /\ \A row \in log' \ log : row.position > head
  BY AppliedRows, Zenon
<1>3. /\ b \in Batch /\ BatchSound(b)
      /\ \A v \in Writers : writers[v] # NoBatch => v = w
  BY <1>1, Zenon DEF LogInv, LogConsistent, TypeOK, WritersSound
<1>4. TypeOK
  BY Zenon DEF LogInv, LogConsistent
<1>5. NoBatch \in Batch
  BY Zenon DEF NoBatch, Batch
<1>6. TypeOK'
  <2>1. head' \in Nat /\ epoch' \in Nat
    BY <1>1, <1>2, <1>4 DEF TypeOK
  <2>2. writers' \in [Writers -> Batch] /\ readers' \in [Readers -> Reader]
    BY <1>1, <1>4, <1>5, Zenon DEF TypeOK
  <2>3. prints' \in [Scopes -> SUBSET Cids]
    BY <1>1, <1>3, <1>4, Zenon DEF TypeOK, Batch
  <2>4. Kept(b) \subseteq Cids /\ b.latest \subseteq Cids
    BY <1>3, Zenon DEF Kept, Batch, Row
  <2>5. blocks' \subseteq Cids /\ latest' \subseteq Cids
    BY <1>1, <1>4, <2>4, Zenon DEF TypeOK
  <2> QED
    BY <1>2, <2>1, <2>2, <2>3, <2>5, Zenon DEF TypeOK
<1>7. LogConsistent'
  <2>1. \A c \in Live' : RowOf(c)' \in log' /\ cidToSeq'[c] <= head'
    BY <1>2, Zenon DEF Live, RowOf
  <2>2. \A c, d \in Live' : cidToSeq'[c] = cidToSeq'[d] => c = d
    <3> SUFFICES ASSUME NEW c \in Live', NEW d \in Live', cidToSeq'[c] = cidToSeq'[d]
                 PROVE  c = d
      BY Zenon
    <3>1. [position |-> cidToSeq'[c], cid |-> c] = [position |-> cidToSeq'[d], cid |-> d]
      BY <1>2, Zenon DEF Live
    <3> QED
      BY <3>1, Zenon
  <2>3. blocks' = Live'
    BY <1>1, <1>2, Zenon DEF LogInv, LogConsistent, LiveAfter
  <2> QED
    BY <1>2, <1>6, <2>1, <2>2, <2>3, Zenon DEF LogConsistent
<1>8. FingerprintIsLiveSet'
  <2>1. \A s \in Scopes : prints'[s] = {c \in LiveAfter(b) : s \in ScopesOf[c]}
    BY <1>1, <1>3, Zenon DEF BatchSound, PrintsSound
  <2> QED
    BY <1>2, <2>1, Zenon DEF FingerprintIsLiveSet
<1>9. WritersSound'
  <2>1. \A v \in Writers : writers'[v] = NoBatch
    BY <1>1, <1>3, <1>4, Zenon DEF TypeOK
  <2> QED
    BY <2>1, Zenon DEF WritersSound, NoBatch
<1>10. ReadersSound'
  <2> SUFFICES ASSUME NEW r \in Readers
               PROVE  ReaderSound(readers[r], epoch, head', log')
    BY <1>1, Zenon DEF ReadersSound
  <2>1. /\ readers[r] \in Reader /\ epoch \in Nat /\ head \in Nat /\ log \in SUBSET Row
        /\ head' \in Nat /\ log' \in SUBSET Row /\ head <= head'
    BY <1>2, <1>4 DEF TypeOK
  <2>2. ReaderSound(readers[r], epoch, head, log)
    BY Zenon DEF LogInv, ReadersSound
  <2> QED
    BY <1>2, <2>1, <2>2, ReaderKept, Zenon
<1> QED
  BY <1>1, <1>7, <1>8, <1>9, <1>10, Zenon DEF LogInv

\* A batch that is not written leaves nothing.
LEMMA WriterDiesStep ==
  ASSUME LogInv, NEW w \in Writers, WriterDies(w)
  PROVE  LogInv'
<1>1. /\ UNCHANGED storeVars /\ UNCHANGED readers /\ writers[w] # NoBatch
      /\ writers' = [writers EXCEPT ![w] = NoBatch]
  BY Zenon DEF WriterDies
<1>2. writers \in [Writers -> Batch] /\ NoBatch \in Batch
  BY Zenon DEF LogInv, LogConsistent, TypeOK, NoBatch, Batch
<1>3. \A v \in Writers : writers'[v] = NoBatch
  BY <1>1, <1>2, Zenon DEF LogInv, WritersSound
<1>4. WritersSound'
  BY <1>3, Zenon DEF WritersSound, NoBatch
<1>5. TypeOK'
  BY <1>1, <1>2, Zenon DEF LogInv, LogConsistent, TypeOK, storeVars
<1> QED
  BY <1>1, <1>4, <1>5, Zenon DEF LogInv, LogConsistent, FingerprintIsLiveSet, ReadersSound,
                          storeVars, Live, RowOf

\* clear, while nobody else uses the store.
LEMMA ClearStep ==
  ASSUME LogInv, ~ClearOnline, NEW self \in SUBSET Readers, Clear(self)
  PROVE  LogInv'
<1>1. /\ LockFree /\ self = Readers /\ \A r \in Readers : readers[r].phase = "idle"
      /\ epoch' = epoch + 1 /\ head' = 0 /\ log' = {} /\ cidToSeq' = [c \in Cids |-> 0]
      /\ blocks' = {} /\ latest' = {} /\ prints' = [s \in Scopes |-> {}]
      /\ readers' = [r \in Readers |->
           IF r \in self THEN [readers[r] EXCEPT !.cached = epoch + 1] ELSE readers[r]]
      /\ UNCHANGED writers
  BY Zenon DEF Clear
<1>2. TypeOK
  BY Zenon DEF LogInv, LogConsistent
<1>3. \A r \in Readers :
        /\ readers[r] \in Reader
        /\ readers'[r] = [readers[r] EXCEPT !.cached = epoch + 1]
        /\ readers'[r] \in Reader
        /\ readers'[r].cached = epoch + 1 /\ readers'[r].cursor = readers[r].cursor
        /\ readers'[r].phase = "idle"
  <2>1. epoch + 1 \in Nat
    BY <1>2 DEF TypeOK
  <2> SUFFICES ASSUME NEW r \in Readers
               PROVE  LET x == [readers[r] EXCEPT !.cached = epoch + 1] IN
                      /\ readers[r] \in Reader /\ x \in Reader /\ x.cached = epoch + 1
                      /\ x.cursor = readers[r].cursor /\ x.phase = readers[r].phase
    BY <1>1, Zenon
  <2>2. readers[r] \in Reader
    BY <1>2, Zenon DEF TypeOK
  <2> QED
    BY <2>1, <2>2, Zenon DEF Reader
<1>4. Live' = {}
  BY <1>1, Zenon DEF Live
<1>5. TypeOK'
  BY <1>1, <1>2, <1>3 DEF TypeOK
<1>6. LogConsistent' /\ FingerprintIsLiveSet'
  BY <1>1, <1>4, <1>5, Zenon DEF LogConsistent, FingerprintIsLiveSet
<1>7. WritersSound'
  BY <1>1, Zenon DEF LockFree, WritersSound, NoBatch
<1>8. ReadersSound'
  <2> SUFFICES ASSUME NEW r \in Readers
               PROVE  ReaderSound(readers'[r], epoch', head', log')
    BY Zenon DEF ReadersSound
  <2>1. readers[r].cursor.epoch <= epoch /\ readers[r].cursor.epoch \in Nat /\ epoch \in Nat
    BY <1>2, <1>3, Zenon DEF TypeOK, LogInv, ReadersSound, ReaderSound, Reader, Cursor
  <2> QED
    BY <1>1, <1>3, <2>1 DEF ReaderSound
<1> QED
  BY <1>1, <1>2, <1>6, <1>7, <1>8 DEF LogInv, TypeOK

-----------------------------------------------------------------------------
(* Reads. *)

\* As long as the store and the batches stay, only the readers matter.
LEMMA ReadersOnly ==
  ASSUME LogInv, UNCHANGED <<storeVars, writers>>, readers' \in [Readers -> Reader],
         \A r \in Readers : ReaderSound(readers'[r], epoch, head, log)
  PROVE  LogInv'
<1>1. TypeOK'
  BY Zenon DEF LogInv, LogConsistent, TypeOK, storeVars
<1>2. ReadersSound'
  BY Zenon DEF ReadersSound, storeVars
<1>3. WritersSound'
  <2>1. NoBatch' = NoBatch
    BY Zenon DEF NoBatch
  <2> SUFFICES ASSUME NEW w \in Writers, writers[w] # NoBatch
               PROVE  /\ BatchSound(writers[w])'
                      /\ \A v \in Writers : writers[v] # NoBatch => v = w
    BY <2>1, Zenon DEF WritersSound
  <2>2. BatchSound(writers[w]) /\ \A v \in Writers : writers[v] # NoBatch => v = w
    BY Zenon DEF LogInv, WritersSound
  <2> QED
    BY <2>2, Zenon
       DEF BatchSound, RowsSound, PrintsSound, LiveAfter, Gone, Kept, Live, RowOf, storeVars
<1> QED
  BY <1>1, <1>2, <1>3, Zenon
     DEF LogInv, LogConsistent, FingerprintIsLiveSet, storeVars, Live, RowOf

\* A read changes its reader only.
LEMMA ReadStep ==
  ASSUME LogInv, NEW r \in Readers, NEW x \in Reader, ReaderSound(x, epoch, head, log),
         readers' = [readers EXCEPT ![r] = x], UNCHANGED <<storeVars, writers>>
  PROVE  LogInv'
<1>1. readers \in [Readers -> Reader] /\ \A v \in Readers : ReaderSound(readers[v], epoch, head, log)
  BY Zenon DEF LogInv, LogConsistent, TypeOK, ReadersSound
<1>2. readers' \in [Readers -> Reader] /\ \A v \in Readers : readers'[v] = IF v = r THEN x ELSE readers[v]
  BY <1>1, Zenon
<1>3. \A v \in Readers : ReaderSound(readers'[v], epoch, head, log)
  BY <1>1, <1>2, Zenon
<1> QED
  BY <1>2, <1>3, ReadersOnly, Zenon

\* What is known of a reader, and of a fresh one.
LEMMA ReaderFacts ==
  ASSUME LogInv, NEW r \in Readers
  PROVE  /\ readers[r] \in Reader /\ ReaderSound(readers[r], epoch, head, log)
         /\ epoch \in Nat /\ epoch >= 1 /\ head \in Nat /\ log \subseteq Row
         /\ readers[r].cached = epoch
         /\ readers[r].cursor \in Cursor /\ readers[r].view \subseteq Row
         /\ readers[r].page \subseteq Row /\ readers[r].given \subseteq Row
         /\ readers[r].head \in Nat /\ readers[r].last \in Nat
         /\ NewReader(epoch) \in Reader
BY Zenon DEF LogInv, LogConsistent, TypeOK, ReadersSound, ReaderSound, Reader, NewReader,
       NoCursor, Cursor

\* A finished read: its cursor covers the rows given away.
LEMMA FinishedSound ==
  ASSUME LogInv, NEW r \in Readers, NEW position \in Nat, NEW cid \in Cids \cup {None},
         NEW page \in SUBSET Row, position <= head,
         \A row \in log : row.cid \in InScope /\ row.position <= position =>
           row \in readers[r].given \cup page
  PROVE  /\ Finished(r, position, cid, page) \in Reader
         /\ ReaderSound(Finished(r, position, cid, page), epoch, head, log)
<1> DEFINE x == Finished(r, position, cid, page)
           n == NewReader(epoch)
           token == [epoch |-> epoch, position |-> position, cid |-> cid]
           all == readers[r].given \cup page
<1>1. x = [n EXCEPT !.cursor = token, !.given = all]
  BY ReaderFacts, Zenon DEF Finished
<1>2. n \in Reader /\ n.phase = "idle" /\ n.cached = epoch
  BY ReaderFacts, Zenon DEF NewReader
<1>3. token \in Cursor /\ token.epoch = epoch /\ token.position = position /\ all \in SUBSET Row
  BY ReaderFacts, Zenon DEF Cursor
<1> HIDE DEF x, n, token, all
<1>4. /\ x \in Reader /\ x.phase = "idle" /\ x.cached = epoch
      /\ x.cursor = token /\ x.given = all
  BY <1>1, <1>2, <1>3, Zenon DEF Reader
<1>5. ReaderSound(x, epoch, head, log)
  BY <1>3, <1>4, ReaderFacts DEF ReaderSound, all
<1> QED
  BY <1>4, <1>5, Zenon DEF x

LEMMA ReadOpenStep ==
  ASSUME LogInv, NEW r \in Readers, ReadOpen(r)
  PROVE  LogInv'
<1> DEFINE y == readers[r]
           start == y.cursor.position
           view == {row \in log : start < row.position /\ row.position <= head}
           x == [y EXCEPT !.phase = "scan", !.head = head, !.last = start, !.page = {},
                          !.view = view]
<1>1. /\ readers' = [readers EXCEPT ![r] = x]
      /\ UNCHANGED <<storeVars, writers>>
      /\ CursorAccepted(r)
  BY Zenon DEF ReadOpen
<1>2. /\ x.phase = "scan" /\ x.head = head /\ x.last = start /\ x.page = {} /\ x.view = view
      /\ x.cached = y.cached /\ x.cursor = y.cursor /\ x.given = y.given
  BY ReaderFacts, Zenon DEF Reader
<1>3. x \in Reader
  BY ReaderFacts, Zenon DEF Reader, Cursor
<1>4. y.cursor = NoCursor \/ y.cursor.epoch = epoch
  BY <1>1, ReaderFacts, Zenon DEF CursorAccepted
<1>5. \A row \in log : row.cid \in InScope /\ row.position <= head =>
        row \in y.given \/ (row \in view /\ row.position > start)
  <2> SUFFICES ASSUME NEW row \in log, row.cid \in InScope, row.position <= start
               PROVE  row \in y.given
    BY ReaderFacts DEF Row, Cursor
  <2>1. row.position \in Nat /\ 0 < row.position
    BY ReaderFacts DEF Row
  <2>2. y.cursor # NoCursor
    BY <2>1 DEF NoCursor
  <2> QED
    BY <1>4, <2>2, ReaderFacts, Zenon DEF ReaderSound
<1>6. \A a, b \in view : a.position = b.position => a = b
  BY LogRows, Zenon DEF LogInv
<1>7. ReaderSound(x, epoch, head, log)
  BY <1>2, <1>5, <1>6, ReaderFacts DEF ReaderSound
<1> QED
  BY <1>1, <1>3, <1>7, ReadStep, Zenon

LEMMA ReadEmptyStep ==
  ASSUME LogInv, NEW r \in Readers, ReadEmpty(r)
  PROVE  LogInv'
<1> DEFINE x == [readers[r] EXCEPT !.cursor.epoch = readers[r].cached]
<1>1. /\ readers' = [readers EXCEPT ![r] = x] /\ UNCHANGED <<storeVars, writers>>
      /\ readers[r].phase = "idle" /\ head = 0 /\ readers[r].cursor = NoCursor
  BY Zenon DEF ReadEmpty
<1>2. /\ x.phase = "idle" /\ x.cached = epoch /\ x.cursor = [NoCursor EXCEPT !.epoch = epoch]
      /\ x \in Reader
  BY <1>1, ReaderFacts, Zenon DEF Reader, Cursor, NoCursor
<1>3. x.cursor.epoch = epoch /\ x.cursor.position = 0
  BY <1>2, Zenon DEF NoCursor
<1>4. \A row \in log : 0 < row.position /\ row.position \in Nat
  BY ReaderFacts DEF Row
<1>5. ReaderSound(x, epoch, head, log)
  BY <1>1, <1>2, <1>3, <1>4, ReaderFacts DEF ReaderSound
<1> QED
  BY <1>1, <1>2, <1>5, ReadStep, Zenon

\* A reader without a cursor is sound.
LEMMA NewReaderSound ==
  ASSUME LogInv
  PROVE  ReaderSound(NewReader(epoch), epoch, head, log)
BY DEF LogInv, ReaderSound, NewReader, NoCursor, LogConsistent, TypeOK

LEMMA ReadGapStep ==
  ASSUME LogInv, NEW r \in Readers, ReadGap(r)
  PROVE  LogInv'
BY ReadStep, ReaderFacts, NewReaderSound, Zenon DEF ReadGap

LEMMA ReaderReopensStep ==
  ASSUME LogInv, NEW r \in Readers, ReaderReopens(r)
  PROVE  LogInv'
<1> DEFINE x == [NewReader(epoch) EXCEPT !.cursor = readers[r].cursor, !.given = readers[r].given]
<1>1. readers' = [readers EXCEPT ![r] = x] /\ UNCHANGED <<storeVars, writers>>
  BY Zenon DEF ReaderReopens
<1>0. NewReader(epoch) \in Reader /\ NewReader(epoch).phase = "idle" /\ NewReader(epoch).cached = epoch
  BY ReaderFacts, Zenon DEF NewReader
<1>2. /\ x.phase = "idle" /\ x.cached = epoch /\ x.cursor = readers[r].cursor
      /\ x.given = readers[r].given
  BY <1>0, Zenon DEF Reader
<1>3. x \in Reader
  BY <1>0, ReaderFacts, Zenon DEF Reader
<1> HIDE DEF x
<1>4. ReaderSound(x, epoch, head, log)
  BY <1>2, ReaderFacts, Zenon DEF ReaderSound
<1> QED
  BY <1>1, <1>3, <1>4, ReadStep, Zenon

\* The next row of a scan is the only row of its view at or below it that has
\* not been passed.
LEMMA NextRowAlone ==
  ASSUME LogInv, NEW r \in Readers, readers[r].phase = "scan",
         NEW row \in readers[r].view, IsNextRow(r, row),
         NEW other \in log, other.cid \in InScope, other.position <= row.position
  PROVE  other \in readers[r].given \cup readers[r].page \/ other = row
<1> DEFINE y == readers[r]
<1>1. /\ row.position \in Nat /\ other.position \in Nat /\ y.last \in Nat /\ y.head \in Nat
      /\ row.position <= y.head
  BY ReaderFacts, Zenon DEF Row, ReaderSound
<1>2. CASE other \in y.view /\ other.position > y.last
  <2>1. row.position <= other.position
    BY <1>2, Zenon DEF IsNextRow
  <2>2. \A a, b \in y.view : a.position = b.position => a = b
    BY ReaderFacts, Zenon DEF ReaderSound
  <2> QED
    BY <1>1, <1>2, <2>1, <2>2
<1>3. other \in y.given \cup y.page \/ (other \in y.view /\ other.position > y.last)
  <2>1. other.position <= y.head
    BY <1>1
  <2> QED
    BY <2>1, ReaderFacts, Zenon DEF ReaderSound
<1> QED
  BY <1>2, <1>3, Zenon

\* The iterator is past the row.
LEMMA PassedSound ==
  ASSUME LogInv, NEW r \in Readers, readers[r].phase = "scan",
         NEW row \in readers[r].view, IsNextRow(r, row), NEW page \in SUBSET Row,
         readers[r].page \subseteq page,
         row \in page \/ ~(row \in log /\ row.cid \in InScope)
  PROVE  LET x == [readers[r] EXCEPT !.last = row.position, !.page = page]
         IN  x \in Reader /\ ReaderSound(x, epoch, head, log)
<1> DEFINE y == readers[r]
           x == [y EXCEPT !.last = row.position, !.page = page]
<1>1. /\ x.last = row.position /\ x.page = page /\ x.phase = "scan" /\ x.cached = y.cached
      /\ x.cursor = y.cursor /\ x.head = y.head /\ x.view = y.view /\ x.given = y.given
  BY ReaderFacts, Zenon DEF Reader
<1>2. x \in Reader
  BY ReaderFacts, Zenon DEF Reader, Row
<1>3. ASSUME NEW other \in log, other.cid \in InScope, other.position <= x.head
      PROVE  other \in x.given \cup x.page \/ (other \in x.view /\ other.position > x.last)
  <2>1. /\ row.position \in Nat /\ other.position \in Nat /\ y.last \in Nat /\ row.position > y.last
    BY ReaderFacts, Zenon DEF Row, IsNextRow
  <2>2. CASE other.position <= row.position
    <3>1. other \in y.given \cup y.page \/ other = row
      BY <1>3, <2>2, NextRowAlone, Zenon
    <3> QED
      BY <1>1, <1>3, <3>1, Zenon
  <2>3. CASE other.position > row.position
    <3>1. other \in y.given \cup y.page \/ other \in y.view
      BY <1>1, <1>3, ReaderFacts, Zenon DEF ReaderSound
    <3> QED
      BY <1>1, <2>3, <3>1, Zenon
  <2> QED
    BY <2>1, <2>2, <2>3
<1>4. ReaderSound(x, epoch, head, log)
  BY <1>1, <1>3, ReaderFacts, Zenon DEF ReaderSound
<1> QED
  BY <1>2, <1>4, Zenon

LEMMA ReadDeliverStep ==
  ASSUME LogInv, NEW r \in Readers, NEW row \in readers[r].view, ReadDeliver(r, row)
  PROVE  LogInv'
<1> DEFINE y == readers[r]
           page == y.page \cup {row}
           ends == Cardinality(page) >= Limit \/ row.position >= y.head
           x == IF ends THEN Finished(r, row.position, row.cid, page)
                ELSE [y EXCEPT !.last = row.position, !.page = page]
<1>1. /\ readers' = [readers EXCEPT ![r] = x] /\ UNCHANGED <<storeVars, writers>>
      /\ y.phase = "scan" /\ IsNextRow(r, row)
  BY Zenon DEF ReadDeliver
<1>2. page \in SUBSET Row /\ y.page \subseteq page /\ row \in page /\ row \in Row
  BY ReaderFacts, Zenon
<1>3. row.position \in Nat /\ row.cid \in Cids /\ row.position <= head
  BY <1>1, <1>2, ReaderFacts DEF Row, ReaderSound
<1>4. \A other \in log : other.cid \in InScope /\ other.position <= row.position =>
        other \in y.given \cup page
  BY <1>1, NextRowAlone, Zenon
<1>5. x \in Reader /\ ReaderSound(x, epoch, head, log)
  <2>1. CASE ends
    BY <1>2, <1>3, <1>4, <2>1, FinishedSound, Zenon
  <2>2. CASE ~ends
    BY <1>1, <1>2, <2>2, PassedSound, Zenon
  <2> QED
    BY <2>1, <2>2, Zenon
<1> QED
  BY <1>1, <1>5, ReadStep, Zenon

LEMMA ReadSkipStep ==
  ASSUME LogInv, NEW r \in Readers, NEW row \in readers[r].view, ReadSkip(r, row)
  PROVE  LogInv'
<1> DEFINE y == readers[r]
           x == [y EXCEPT !.last = row.position]
<1>1. /\ readers' = [readers EXCEPT ![r] = x] /\ UNCHANGED <<storeVars, writers>>
      /\ y.phase = "scan" /\ IsNextRow(r, row)
      /\ row.cid \notin InScope \cap blocks \/ row \notin log
  BY Zenon DEF ReadSkip
<1>2. ~(row \in log /\ row.cid \in InScope)
  BY <1>1, LogRows, Zenon DEF LogInv, LogConsistent
<1>3. x = [y EXCEPT !.last = row.position, !.page = y.page]
  BY ReaderFacts, Zenon DEF Reader
<1>4. y.page \in SUBSET Row
  BY ReaderFacts, Zenon
<1>5. /\ [readers[r] EXCEPT !.last = row.position, !.page = y.page] \in Reader
      /\ ReaderSound([readers[r] EXCEPT !.last = row.position, !.page = y.page], epoch, head, log)
  BY <1>1, <1>2, <1>4, PassedSound, Zenon
<1> QED
  BY <1>1, <1>3, <1>5, ReadStep, Zenon

LEMMA ReadDrainedStep ==
  ASSUME LogInv, NEW r \in Readers, ReadDrained(r)
  PROVE  LogInv'
<1> DEFINE y == readers[r]
           x == Finished(r, y.head, None, y.page)
<1>1. /\ readers' = [readers EXCEPT ![r] = x] /\ UNCHANGED <<storeVars, writers>>
      /\ y.phase = "scan" /\ \A row \in y.view : row.position <= y.last
  BY Zenon DEF ReadDrained
<1>2. /\ y.head \in Nat /\ y.last \in Nat /\ y.head <= head /\ y.page \in SUBSET Row
      /\ \A row \in y.view : row.position \in Nat
  BY <1>1, ReaderFacts, Zenon DEF ReaderSound, Row
<1>3. \A row \in log : row.cid \in InScope /\ row.position <= y.head => row \in y.given \cup y.page
  BY <1>1, <1>2, ReaderFacts DEF ReaderSound
<1>4. x \in Reader /\ ReaderSound(x, epoch, head, log)
  BY <1>2, <1>3, FinishedSound, Zenon
<1> QED
  BY <1>1, <1>4, ReadStep, Zenon

-----------------------------------------------------------------------------
\* The invariant of the replication log: LogInv holds at first and every step
\* of a writer, of a reader and of an offline reset keeps it.
THEOREM LogInvariant == ASSUME ~ClearOnline PROVE Spec => []LogInv
<1>1. Init => LogInv
  <2> SUFFICES ASSUME Init PROVE LogInv
    BY Zenon
  <2>1. Live = {}
    BY Zenon DEF Init, Live
  <2>2. NewReader(1) \in Reader /\ NoBatch \in Batch
    BY Zenon DEF NewReader, Reader, NoCursor, Cursor, NoBatch, Batch
  <2>3. TypeOK
    BY <2>2, Zenon DEF Init, TypeOK
  <2>4. LogConsistent /\ FingerprintIsLiveSet
    BY <2>1, <2>3, Zenon DEF Init, LogConsistent, FingerprintIsLiveSet
  <2>5. WritersSound
    BY Zenon DEF Init, WritersSound
  <2>6. ReadersSound
    BY DEF Init, ReadersSound, ReaderSound, NewReader, NoCursor
  <2> QED
    BY <2>4, <2>5, <2>6 DEF Init, LogInv
<1>2. LogInv /\ [Next]_vars => LogInv'
  <2> SUFFICES ASSUME LogInv, [Next]_vars PROVE LogInv'
    BY Zenon
  <2>1. CASE UNCHANGED vars
    BY <2>1, ReadersOnly, Zenon DEF vars, LogInv, LogConsistent, TypeOK, ReadersSound
  <2>2. ASSUME NEW w \in Writers, Write(w) PROVE LogInv'
    BY <2>2, BeginPutStep, BeginCommitLatestStateStep, BeginUpdateIndexesStep,
       BeginCompleteDataStep, BeginDeleteStep, CommitStep, WriterDiesStep, Zenon DEF Write
  <2>3. ASSUME NEW r \in Readers, Read(r) PROVE LogInv'
    BY <2>3, ReadOpenStep, ReadEmptyStep, ReadGapStep, ReadDeliverStep, ReadSkipStep,
       ReadDrainedStep, ReaderReopensStep, Zenon DEF Read
  <2>4. ASSUME NEW self \in SUBSET Readers, Clear(self) PROVE LogInv'
    BY <2>4, ClearStep, Zenon
  <2> QED
    BY <2>1, <2>2, <2>3, <2>4, Zenon DEF Next
<1> QED
  BY <1>1, <1>2, PTL DEF Spec

\* The log and the CID index are inverse to each other, positions are unique
\* and at most the head, and live messages have their blocks, whatever
\* mutations of several contexts and offline resets interleave (LogConsistent).
THEOREM LogIsConsistent == ASSUME ~ClearOnline PROVE Spec => []LogConsistent
<1>1. LogInv => LogConsistent
  BY Zenon DEF LogInv
<1> QED
  BY <1>1, LogInvariant, PTL

\* A fingerprint is the fold of the live messages of its scope.
THEOREM FingerprintsAreLive == ASSUME ~ClearOnline PROVE Spec => []FingerprintIsLiveSet
<1>1. LogInv => FingerprintIsLiveSet
  BY Zenon DEF LogInv
<1> QED
  BY <1>1, LogInvariant, PTL

\* No reader's cursor passes a live matching row that it was not given, for
\* any page limit and any interleaving of its scan with the writers (logRead).
THEOREM ReadersSkipNothing == ASSUME ~ClearOnline PROVE Spec => []NoSkip
<1>1. LogInv => NoSkip
  BY Zenon DEF LogInv, ReadersSound, ReaderSound, NoSkip
<1> QED
  BY <1>1, LogInvariant, PTL

\* Rows become visible in the order of their positions: an observed head is a
\* visibility barrier.
THEOREM CommitsInOrder == ASSUME ~ClearOnline PROVE Spec => VisibilityBarrier
<1> DEFINE Step == epoch' = epoch => /\ head' >= head
                                     /\ \A row \in log' \ log : row.position > head
<1>1. ASSUME LogInv, [Next]_vars PROVE Step
  <2>1. head \in Nat /\ epoch \in Nat
    BY <1>1, Zenon DEF LogInv, LogConsistent, TypeOK
  <2>2. CASE UNCHANGED storeVars
    BY <2>1, <2>2 DEF storeVars
  <2>3. ASSUME NEW w \in Writers, CommitBatch(w) PROVE Step
    BY <1>1, <2>1, <2>3, AppliedRows
  <2>4. ASSUME NEW self \in SUBSET Readers, Clear(self) PROVE Step
    BY <2>1, <2>4 DEF Clear
  <2>5. ASSUME NEW w \in Writers, Write(w), ~CommitBatch(w) PROVE UNCHANGED storeVars
    BY <2>5, Zenon DEF Write, BeginPut, BeginCommitLatestState, BeginUpdateIndexes,
                BeginCompleteData, BeginDelete, Begin, WriterDies
  <2>6. ASSUME NEW r \in Readers, Read(r) PROVE UNCHANGED storeVars
    BY <2>6, Zenon DEF Read, ReadOpen, ReadEmpty, ReadGap, ReadDeliver, ReadSkip, ReadDrained,
                ReaderReopens
  <2> QED
    BY <1>1, <2>2, <2>3, <2>4, <2>5, <2>6, Zenon DEF Next, vars
<1>2. LogInv /\ [Next]_vars => [Step]_vars
  BY <1>1, Zenon
<1> QED
  BY <1>2, LogInvariant, PTL DEF Spec, VisibilityBarrier
=============================================================================
