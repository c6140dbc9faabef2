------------------------- MODULE SyncNextPullProofs -------------------------
(***************************************************************************)
(* Machine-checked theorems about SyncNextPull, for every set of links,    *)
(* CIDs and workers and for every bound.                                   *)
(*                                                                         *)
(* PullNoLoss is not inductive: a commit is sound because of what the page *)
(* attempt collected several steps before.  PullInv adds what is true of   *)
(* an attempt in flight, whatever happened to its link and feed since.     *)
(*                                                                         *)
(* SyncNextPull then implements PullIntake.  The refinement mapping is the *)
(* one of SyncNextPull: a link's checkpoint, the quarantine as what is     *)
(* owed, and the CIDs handled locally.  A step of the store maps to        *)
(* Release, a commit to Advance, a classified root or a materialized retry *)
(* to Handle, a step of the remote to Publish, and every other step to a   *)
(* stuttering step.                                                        *)
(***************************************************************************)
EXTENDS SyncNextPull, FiniteSetTheorems, TLAPS

\* While a reset removes pending rows there is no link.
RowsClearedLast == clearing = "rows" => \A l \in Links : links[l] = NoLink

\* A feed's rows are finitely many, at positions it has issued.
FeedsBounded ==
  \A l \in Links : /\ IsFiniteSet(source[l].rows)
                   /\ \A r \in source[l].rows : r.position <= source[l].head

\* A token never runs ahead of the feed it came from.
NotAhead(t, f) ==
  /\ t.domain # None => t.domain <= f.domain
  /\ t.domain = f.domain => t.position <= f.head

CheckpointsNotAhead == \A l \in Links : NotAhead(links[l].pull, source[l])

\* A page holds every live row of its feed between the checkpoint it was
\* queried from and its cursor, and what it settled is handled.
PageComplete(p, f, handled) ==
  /\ p.snap.pull = NoToken \/ p.snap.pull.domain = p.cursor.domain
  /\ p.cursor.domain # None
  /\ NotAhead(p.cursor, f)
  /\ \A r \in f.rows :
       /\ p.cursor.domain = f.domain
       /\ p.snap.pull.position < r.position
       /\ r.position <= p.cursor.position
       => ReceiptOf(p.snap.link, f.domain, r) \in p.page
  /\ \A r \in p.settled : r.cid \in handled

\* That stays true of every page in flight.
PagesComplete ==
  \A w \in Workers :
    pullers[w].phase = "page" =>
      PageComplete(pullers[w], source[pullers[w].snap.link], local)

\* A retry settles only what it has materialized.
RetriesMaterialized ==
  \A p \in Projections : retriers[p].phase = "settle" => retriers[p].cid \in local

\* The inductive invariant.
PullInv ==
  /\ TypeOK
  /\ FeedsBounded
  /\ CheckpointsNotAhead
  /\ PagesComplete
  /\ RetriesMaterialized
  /\ RowsClearedLast
  /\ PullNoLoss

-----------------------------------------------------------------------------
(* What the operations of the store do to the shape of its state. *)

\* The store's own steps keep the store well shaped.
LEMMA EnsureLinkType ==
  ASSUME StoreTypeOK, NEW l \in Links, GetOrCreateLink(l)
  PROVE  StoreTypeOK'
<1> USE StoreAssumption
<1> DEFINE new == [lifetime |-> lifetimes + 1, pull |-> NoToken, push |-> NoToken]
<1>1. links' = [links EXCEPT ![l] = new]
  BY Zenon DEF GetOrCreateLink, NoLink
<1>2. lifetimes' = lifetimes + 1 /\ lifetimes' \in 0 .. MaxLifetimes
  BY DEF GetOrCreateLink, StoreTypeOK
<1>3. new \in Link /\ new.lifetime # 0
  BY <1>2 DEF Link, Token, NoToken, StoreTypeOK
<1> HIDE DEF new
<1>4. new.lifetime = lifetimes'
  BY <1>2, Zenon DEF new
<1>5. links' \in [Links -> Link]
  BY <1>1, <1>3, Zenon DEF StoreTypeOK
<1>6. ASSUME NEW m \in Links
      PROVE  links'[m].lifetime <= lifetimes' /\ (links'[m].lifetime = 0 => links'[m] = NoLink)
  BY <1>1, <1>2, <1>3, <1>4 DEF StoreTypeOK, Link
<1> QED
  BY <1>2, <1>5, <1>6, Zenon DEF GetOrCreateLink, StoreTypeOK

\* Removing a link, as retirement, deletion and resets do, keeps the links'
\* shape.
LEMMA LinkRemovedType ==
  ASSUME StoreTypeOK, NEW l \in Links, links' = [links EXCEPT ![l] = NoLink],
         lifetimes' = lifetimes
  PROVE  /\ links' \in [Links -> Link]
         /\ \A m \in Links : /\ links'[m].lifetime <= lifetimes'
                             /\ links'[m].lifetime = 0 => links'[m] = NoLink
<1>1. NoLink \in Link /\ NoLink.lifetime = 0
  BY Zenon DEF NoLink, Link, Token, NoToken
<1>2. lifetimes \in Nat /\ 0 <= lifetimes
  BY StoreAssumption DEF StoreTypeOK
<1> QED
  BY <1>1, <1>2, Zenon DEF StoreTypeOK

\* Listing and removing links keeps the shape of every variable.
LEMMA CleanupType ==
  ASSUME StoreTypeOK, Cleanup
  PROVE  StoreTypeOK'
<1>1. ASSUME NEW l \in Links, CleanerList(l) PROVE StoreTypeOK'
  <2>1. [link |-> l, lifetime |-> links[l].lifetime] \in [link : Links, lifetime : Nat]
    BY Zenon DEF StoreTypeOK, Link
  <2> QED
    BY <1>1, <2>1, Zenon DEF CleanerList, StoreTypeOK
<1>2. CASE CleanerRemove
  <2>1. cleaner.link \in Links
    BY <1>2, Zenon DEF CleanerRemove, StoreTypeOK
  <2>2. /\ links' = [links EXCEPT ![cleaner.link] = NoLink]
        /\ lifetimes' = lifetimes /\ clearing' = clearing
        /\ delivery' \subseteq delivery /\ quarantine' \subseteq quarantine
        /\ cleaner' = NoLifetime
    BY <1>2, Zenon DEF CleanerRemove, RetireLink, DeleteLinkAndPendingWork
  <2> QED
    BY <2>1, <2>2, LinkRemovedType, Zenon DEF StoreTypeOK
<1>3. CASE CleanerStale
  BY <1>3, Zenon DEF CleanerStale, StoreTypeOK
<1> QED
  BY <1>1, <1>2, <1>3, Zenon DEF Cleanup

\* Every write of a reset keeps the shape of the store.
LEMMA ClearType ==
  ASSUME StoreTypeOK, Clear
  PROVE  StoreTypeOK'
<1>1. CASE StartClear
  BY <1>1, Zenon DEF StartClear, StoreTypeOK
<1>2. ASSUME NEW l \in Links, ClearLink(l) PROVE StoreTypeOK'
  BY <1>2, LinkRemovedType, Zenon DEF ClearLink, StoreTypeOK
<1>3. CASE LinksCleared
  BY <1>3, Zenon DEF LinksCleared, StoreTypeOK
<1>4. CASE ClearRow
  BY <1>4, Zenon DEF ClearRow, StoreTypeOK
<1>5. CASE ClearDone
  BY <1>5, Zenon DEF ClearDone, StoreTypeOK
<1>6. CASE ClearInterrupted
  BY <1>6, Zenon DEF ClearInterrupted, StoreTypeOK
<1> QED
  BY <1>1, <1>2, <1>3, <1>4, <1>5, <1>6, Zenon DEF Clear

-----------------------------------------------------------------------------
\* The initial state has the right shape: no link, an idle engine, empty feeds.
LEMMA TypeInit == Init => TypeOK
<1> SUFFICES ASSUME Init PROVE TypeOK
  BY Zenon
<1> USE StoreAssumption, PullAssumption
<1>1. NoToken \in Token /\ NoLink \in Link
  BY Zenon DEF NoToken, Token, NoLink, Link
<1>2. StoreTypeOK
  BY <1>1 DEF Init, StoreInit, StoreTypeOK, NoLink
<1>3. source \in [Links -> Feed]
  BY DEF Init, PullInit, Feed, Domains
<1>4. IdlePuller \in Puller
  BY <1>1, Zenon DEF IdlePuller, Puller
<1>5. IdleRetrier \in Retrier
  BY Zenon DEF IdleRetrier, Retrier
<1> QED
  BY <1>2, <1>3, <1>4, <1>5, Zenon DEF Init, PullInit, TypeOK, IdlePuller, IdleRetrier

\* What one step of the remote may do to a feed: rows are removed or appended
\* above the head, or the feed starts over in a later domain.
FeedStep(f, g) ==
  \/ /\ g.domain = f.domain
     /\ f.head <= g.head
     /\ \A r \in g.rows : r \in f.rows \/ (f.head < r.position /\ r.position <= g.head)
  \/ /\ g.domain > f.domain
     /\ g.rows = {}

\* A feed that does not change takes such a step.
LEMMA FeedStepReflexive == \A f \in Feed : FeedStep(f, f)
  BY PullAssumption DEF FeedStep, Feed

\* Appending a row at the next position, whatever rows it displaces, is one
\* too.
LEMMA AppendedStep ==
  ASSUME NEW f \in Feed, NEW c \in Cids, NEW old, f.head < MaxHead,
         IsFiniteSet(f.rows)
  PROVE  /\ Appended(f, c, old) \in Feed
         /\ FeedStep(f, Appended(f, c, old))
         /\ IsFiniteSet(Appended(f, c, old).rows)
<1> DEFINE new == [position |-> f.head + 1, cid |-> c]
           rows == (f.rows \ old) \cup {new}
<1>1. f.head + 1 \in 1 .. MaxHead /\ f.head + 1 \in 0 .. MaxHead /\ f.head \in Nat
  BY PullAssumption DEF Feed
<1>2. new \in Row
  BY <1>1, Zenon DEF Row
<1>3. rows \in SUBSET Row
  BY <1>2, Zenon DEF Feed
<1>4. IsFiniteSet(rows)
  BY FS_Subset, FS_AddElement, IsFiniteSet(f.rows \ old), Zenon
<1>5. Appended(f, c, old) = [domain |-> f.domain, head |-> f.head + 1, rows |-> rows]
  BY Zenon DEF Appended, Feed
<1>6. \A r \in rows : r \in f.rows \/ r.position = f.head + 1
  OBVIOUS
<1> HIDE DEF rows
<1>7. Appended(f, c, old) \in Feed
  BY <1>1, <1>3, <1>5 DEF Feed
<1>8. FeedStep(f, Appended(f, c, old))
  BY <1>1, <1>5, <1>6 DEF FeedStep
<1> QED
  BY <1>4, <1>5, <1>7, <1>8

\* The remote's steps only touch feeds, each by a FeedStep or not at all.
LEMMA RemoteStep ==
  ASSUME TypeOK, FeedsBounded, Remote
  PROVE  /\ UNCHANGED <<storeVars, local, pullers, retriers>>
         /\ source' \in [Links -> Feed]
         /\ \A l \in Links : /\ FeedStep(source[l], source'[l])
                             /\ IsFiniteSet(source'[l].rows)
<1> USE StoreAssumption, PullAssumption
<1>1. PICK l \in Links :
        \/ \E c \in Cids : RemotePut(l, c)
        \/ RemotePutOutOfScope(l)
        \/ \E row \in source[l].rows : RemoteDelete(l, row)
        \/ \E row \in source[l].rows : RemoteCompleteData(l, row)
        \/ RemoteClear(l)
  BY Zenon DEF Remote
<1>2. source \in [Links -> Feed] /\ source[l] \in Feed /\ IsFiniteSet(source[l].rows)
  BY Zenon DEF TypeOK, FeedsBounded
<1>3. UNCHANGED <<storeVars, local, pullers, retriers>>
  BY <1>1, Zenon DEF RemotePut, RemotePutOutOfScope, RemoteDelete, RemoteCompleteData,
              RemoteClear
<1>4. \E g \in Feed : /\ source' = [source EXCEPT ![l] = g]
                      /\ FeedStep(source[l], g)
                      /\ IsFiniteSet(g.rows)
  <2>1. CASE \E c \in Cids : RemotePut(l, c)
    BY <1>2, <2>1, AppendedStep, Zenon DEF RemotePut
  <2>2. CASE RemotePutOutOfScope(l)
    <3> DEFINE g == [domain |-> source[l].domain, head |-> source[l].head + 1,
                    rows |-> source[l].rows]
    <3>1. g \in Feed /\ g.rows = source[l].rows /\ FeedStep(source[l], g)
      BY <1>2, <2>2 DEF RemotePutOutOfScope, Feed, FeedStep
    <3>2. source' = [source EXCEPT ![l] = g]
      BY <2>2, Zenon DEF RemotePutOutOfScope
    <3> QED
      BY <1>2, <3>1, <3>2, Zenon
  <2>3. CASE \E row \in source[l].rows : RemoteDelete(l, row)
    <3>1. PICK row \in source[l].rows : RemoteDelete(l, row)
      BY <2>3, Zenon
    <3> DEFINE g == [domain |-> source[l].domain, head |-> source[l].head,
                    rows |-> source[l].rows \ {row}]
    <3>2. g \in Feed /\ g.rows = source[l].rows \ {row} /\ FeedStep(source[l], g)
      BY <1>2 DEF Feed, FeedStep
    <3>3. source' = [source EXCEPT ![l] = g]
      BY <3>1, Zenon DEF RemoteDelete
    <3>4. IsFiniteSet(g.rows)
      BY <1>2, <3>2, FS_Subset, Zenon
    <3> QED
      BY <3>2, <3>3, <3>4, Zenon
  <2>4. CASE \E row \in source[l].rows : RemoteCompleteData(l, row)
    <3>1. PICK row \in source[l].rows : RemoteCompleteData(l, row)
      BY <2>4, Zenon
    <3>2. row.cid \in Cids
      BY <1>2, Zenon DEF Feed, Row
    <3> QED
      BY <1>2, <3>1, <3>2, AppendedStep, Zenon DEF RemoteCompleteData
  <2>5. CASE RemoteClear(l)
    <3> DEFINE g == [domain |-> source[l].domain + 1, head |-> 0, rows |-> {}]
    <3>1. g \in Feed /\ g.rows = {} /\ FeedStep(source[l], g)
      BY <1>2, <2>5 DEF RemoteClear, Feed, FeedStep, Domains
    <3> QED
      BY <2>5, <3>1, FS_EmptySet, Zenon DEF RemoteClear
  <2> QED
    BY <1>1, <2>1, <2>2, <2>3, <2>4, <2>5, Zenon
<1>5. ASSUME NEW m \in Links
      PROVE  FeedStep(source[m], source'[m]) /\ IsFiniteSet(source'[m].rows)
  BY <1>2, <1>4, FeedStepReflexive, Zenon DEF FeedsBounded, TypeOK
<1> QED
  BY <1>2, <1>3, <1>4, <1>5, Zenon

-----------------------------------------------------------------------------
\* What each worker holds keeps its shape.
PullersOK ==
  /\ pullers \in [Workers -> Puller]
  /\ \A w \in Workers :
       /\ pullers[w].phase # "idle" => pullers[w].snap # NoSnapshot
       /\ pullers[w].settled \cup pullers[w].pending \subseteq pullers[w].page

\* A worker may take up any well-formed attempt.
LEMMA PullersUpdated ==
  ASSUME PullersOK, NEW w \in Workers, NEW p \in Puller,
         p.phase # "idle" => p.snap # NoSnapshot,
         p.settled \cup p.pending \subseteq p.page,
         pullers' = [pullers EXCEPT ![w] = p]
  PROVE  PullersOK'
  BY Zenon DEF PullersOK

\* No attempt is a well-formed attempt.
LEMMA IdlePullerOK ==
  /\ IdlePuller \in Puller
  /\ IdlePuller.phase = "idle"
  /\ IdlePuller.settled \cup IdlePuller.pending \subseteq IdlePuller.page
  BY Zenon DEF IdlePuller, Puller, NoToken, Token

\* An attempt starts with a snapshot of a stored link.
LEMMA PullStartType ==
  ASSUME TypeOK, NEW w \in Workers, NEW l \in Links, PullStart(w, l)
  PROVE  PullersOK'
<1> DEFINE p == [IdlePuller EXCEPT !.phase = "query", !.snap = SnapshotOf(l)]
<1>1. SnapshotOf(l) \in Snapshot /\ SnapshotOf(l) # NoSnapshot
  BY Zenon DEF SnapshotOf, Snapshot, NoSnapshot, PullStart, TypeOK, StoreTypeOK, Link
<1>2. p \in Puller /\ p.snap = SnapshotOf(l) /\ p.settled \cup p.pending \subseteq p.page
  BY <1>1, Zenon DEF IdlePuller, Puller, NoToken, Token
<1>3. pullers' = [pullers EXCEPT ![w] = p]
  BY Zenon DEF PullStart
<1> HIDE DEF p
<1> QED
  BY <1>1, <1>2, <1>3, PullersUpdated, Zenon DEF TypeOK, PullersOK

\* A queried page is made of receipts, with a token as its cursor.
LEMMA PullQueryType ==
  ASSUME TypeOK, NEW w \in Workers, PullQuery(w)
  PROVE  PullersOK'
<1> USE StoreAssumption, PullAssumption
<1> DEFINE q == pullers[w].snap
           f == source[q.link]
           page == {ReceiptOf(q.link, f.domain, r) : r \in PageRows(f, q.pull.position)}
           p(end) == [phase |-> "page", snap |-> q,
                      cursor |-> [domain |-> f.domain, position |-> end],
                      page |-> page, settled |-> {}, pending |-> {}]
<1>1. PICK end \in 0 .. MaxHead : pullers' = [pullers EXCEPT ![w] = p(end)]
  BY Zenon DEF PullQuery
<1>2. q \in Snapshot /\ q # NoSnapshot
  BY Zenon DEF PullQuery, TypeOK, Puller
<1>3. f \in Feed
  BY <1>2, Zenon DEF TypeOK, Snapshot
<1>4. [domain |-> f.domain, position |-> end] \in Token
  BY <1>3 DEF Token, Feed
<1>5. PageRows(f, q.pull.position) \subseteq Row
  BY <1>3, Zenon DEF PageRows, RowsAfter, Feed
<1>6. page \in SUBSET Receipt
  BY <1>2, <1>3, <1>5 DEF ReceiptOf, Receipt, Row, Feed, Snapshot
<1> HIDE DEF page
<1>7. p(end) \in Puller
  BY <1>2, <1>4, <1>6, Zenon DEF Puller
<1> QED
  BY <1>1, <1>2, <1>7, PullersUpdated, Zenon DEF TypeOK, PullersOK

\* An admitted root is one of the page, and its CID becomes handled.
LEMMA PullAdmittedType ==
  ASSUME TypeOK, NEW w \in Workers, NEW r \in Todo(w), PullAdmitted(w, r)
  PROVE  PullersOK' /\ local' \subseteq Cids
<1> DEFINE p == [pullers[w] EXCEPT !.settled = pullers[w].settled \cup {r}]
<1>1. pullers[w] \in Puller /\ r \in Receipt /\ r \in pullers[w].page
  BY Zenon DEF TypeOK, Todo, Puller
<1>2. /\ p \in Puller /\ p.snap = pullers[w].snap /\ p.page = pullers[w].page
      /\ p.phase = pullers[w].phase /\ p.pending = pullers[w].pending
      /\ p.settled = pullers[w].settled \cup {r}
  BY <1>1, Zenon DEF Puller
<1>3. pullers' = [pullers EXCEPT ![w] = p]
  BY Zenon DEF PullAdmitted
<1> HIDE DEF p
<1>4. PullersOK'
  BY <1>1, <1>2, <1>3, PullersUpdated, Zenon DEF TypeOK, PullersOK
<1> QED
  BY <1>1, <1>4, Zenon DEF PullAdmitted, TypeOK, Receipt

\* A deferred root is one of the page.
LEMMA PullDeferredType ==
  ASSUME TypeOK, NEW w \in Workers, NEW r \in Todo(w), PullDeferred(w, r)
  PROVE  PullersOK'
<1> DEFINE p == [pullers[w] EXCEPT !.pending = pullers[w].pending \cup {r}]
<1>1. pullers[w] \in Puller /\ r \in Receipt /\ r \in pullers[w].page
  BY Zenon DEF TypeOK, Todo, Puller
<1>2. /\ p \in Puller /\ p.snap = pullers[w].snap /\ p.page = pullers[w].page
      /\ p.phase = pullers[w].phase /\ p.settled = pullers[w].settled
      /\ p.pending = pullers[w].pending \cup {r}
  BY <1>1, Zenon DEF Puller
<1>3. pullers' = [pullers EXCEPT ![w] = p]
  BY Zenon DEF PullDeferred
<1> HIDE DEF p
<1> QED
  BY <1>1, <1>2, <1>3, PullersUpdated, Zenon DEF TypeOK, PullersOK

\* A commit keeps the shape of links and quarantine.
LEMMA PullCommitType ==
  ASSUME TypeOK, NEW w \in Workers, PullCommit(w)
  PROVE  PullersOK' /\ StoreTypeOK'
<1> USE StoreAssumption
<1> DEFINE p == pullers[w]
           q == p.snap
           link == [links[q.link] EXCEPT !.pull = p.cursor]
<1>1. p \in Puller /\ q \in Snapshot /\ p.pending \subseteq Receipt
  BY Zenon DEF PullCommit, TypeOK, Puller
<1>2. q.link \in Links /\ links[q.link] \in Link /\ p.cursor \in Token
  BY <1>1, Zenon DEF Snapshot, TypeOK, StoreTypeOK, Puller
<1>3. /\ Unlocked /\ IsCurrent(q)
      /\ quarantine' = (quarantine \cup p.pending) \ p.settled
      /\ links' = [links EXCEPT ![q.link] = link]
      /\ pullers' = [pullers EXCEPT ![w] = IdlePuller]
      /\ UNCHANGED <<delivery, lifetimes, clearing, cleaner>>
  BY Zenon DEF PullCommit, CommitPullPage, PullPageAccepted
<1>4. /\ link \in Link
      /\ link.lifetime = links[q.link].lifetime
      /\ links[q.link].lifetime # 0
  BY <1>2, <1>3, Zenon DEF Link, IsCurrent
<1>5. PullersOK'
  BY <1>3, IdlePullerOK, PullersUpdated, Zenon DEF TypeOK, PullersOK
<1> HIDE DEF link
<1>6. StoreTypeOK'
  BY <1>1, <1>2, <1>3, <1>4, Zenon DEF TypeOK, StoreTypeOK
<1> QED
  BY <1>5, <1>6, Zenon

\* No step of the engine, of the remote or of a reset breaks the shapes.
LEMMA TypeNext == TypeOK /\ FeedsBounded /\ [Next]_vars => TypeOK'
<1> SUFFICES ASSUME TypeOK, FeedsBounded, [Next]_vars PROVE TypeOK'
  BY Zenon
<1> USE StoreAssumption, PullAssumption
<1>1. CASE Remote
  BY <1>1, RemoteStep, Zenon DEF TypeOK, StoreTypeOK, storeVars
<1>2. ASSUME NEW l \in Links, EnsureLink(l) PROVE TypeOK'
  BY <1>2, EnsureLinkType, Zenon DEF EnsureLink, pullVars, TypeOK
<1>3. ASSUME NEW w \in Workers, PullPage(w) PROVE TypeOK'
  <2> USE DEF storeVars
  <2>1. ASSUME NEW l \in Links, PullStart(w, l) PROVE TypeOK'
    BY <2>1, PullStartType, Zenon DEF PullStart, TypeOK, StoreTypeOK, PullersOK
  <2>2. CASE PullQuery(w)
    BY <2>2, PullQueryType, Zenon DEF PullQuery, TypeOK, StoreTypeOK, PullersOK
  <2>3. ASSUME NEW r \in Todo(w), PullAdmitted(w, r) PROVE TypeOK'
    BY <2>3, PullAdmittedType, Zenon DEF PullAdmitted, TypeOK, StoreTypeOK, PullersOK
  <2>4. ASSUME NEW r \in Todo(w), PullDeferred(w, r) PROVE TypeOK'
    BY <2>4, PullDeferredType, Zenon DEF PullDeferred, TypeOK, StoreTypeOK, PullersOK
  <2>5. CASE PullCommit(w)
    BY <2>5, PullCommitType, Zenon DEF PullCommit, TypeOK, PullersOK
  <2>6. CASE PullCommitRefused(w) \/ PullAbort(w)
    <3>1. PullersOK'
      BY <2>6, IdlePullerOK, PullersUpdated, Zenon
         DEF PullCommitRefused, PullAbort, TypeOK, PullersOK
    <3> QED
      BY <2>6, <3>1, Zenon DEF PullCommitRefused, PullAbort, TypeOK, StoreTypeOK, PullersOK
  <2> QED
    BY <1>3, <2>1, <2>2, <2>3, <2>4, <2>5, <2>6, Zenon DEF PullPage
<1>4. ASSUME NEW p \in Projections, Retry(p) PROVE TypeOK'
  <2>1. ASSUME NEW r \in quarantine, RetrySelect(p, r) PROVE TypeOK'
    BY <2>1, Zenon DEF RetrySelect, storeVars, TypeOK, StoreTypeOK, Receipt, Retrier
  <2>2. CASE RetryMaterialized(p)
    BY <2>2, Zenon DEF RetryMaterialized, storeVars, TypeOK, StoreTypeOK, Retrier
  <2>3. CASE RetrySettle(p) \/ RetryCrash(p)
    <3>1. /\ quarantine' \subseteq quarantine
          /\ retriers' = [retriers EXCEPT ![p] = IdleRetrier]
          /\ UNCHANGED <<links, delivery, lifetimes, clearing, cleaner>>
          /\ UNCHANGED <<source, local, pullers>>
      BY <2>3, Zenon DEF RetrySettle, RetryCrash, SettleQuarantineForProjection,
                  SettleQuarantineInterrupted
    <3>2. StoreTypeOK'
      BY <3>1, Zenon DEF TypeOK, StoreTypeOK
    <3>3. IdleRetrier \in Retrier /\ IdleRetrier.phase = "idle"
      BY Zenon DEF Retrier, IdleRetrier
    <3> QED
      BY <3>1, <3>2, <3>3, Zenon DEF TypeOK
  <2>4. CASE RetryPending(p)
    BY <2>4, Zenon DEF RetryPending, storeVars, TypeOK, StoreTypeOK, Retrier, IdleRetrier
  <2> QED
    BY <1>4, <2>1, <2>2, <2>3, <2>4, Zenon DEF Retry
<1>5. CASE Cleaning
  BY <1>5, CleanupType, Zenon DEF Cleaning, pullVars, TypeOK
<1>6. CASE Reset
  BY <1>6, ClearType, Zenon DEF Reset, pullVars, TypeOK
<1>7. CASE UNCHANGED vars
  BY <1>7, Zenon DEF vars, storeVars, pullVars, TypeOK, StoreTypeOK
<1> QED
  BY <1>1, <1>2, <1>3, <1>4, <1>5, <1>6, <1>7, Zenon DEF Next

-----------------------------------------------------------------------------
\* A page holds every live row between the position asked for and its cursor,
\* whether the scan reached the head or stopped at the limit.
LEMMA PageHoldsRows ==
  ASSUME NEW f \in Feed, IsFiniteSet(f.rows), NEW position \in Nat,
         NEW end \in 0 .. MaxHead, IsPageEnd(f, position, end),
         NEW r \in f.rows, position < r.position, r.position <= end
  PROVE  r \in PageRows(f, position)
<1> USE PullAssumption
<1> DEFINE A == RowsAfter(f, position)
           Upto(n) == {s \in A : s.position <= n}
<1>1. r \in A /\ A \in SUBSET f.rows
  BY Zenon DEF RowsAfter
<1>2. IsFiniteSet(A) /\ Cardinality(A) \in Nat
  BY <1>1, FS_Subset, FS_CardinalityType, Zenon
<1>3. \A s \in A : s.position \in Nat
  BY <1>1 DEF Feed, Row
<1>4. CASE Cardinality(A) < PageSize
  <2>1. Upto(r.position) \in SUBSET A
    BY Zenon
  <2>2. Cardinality(Upto(r.position)) <= Cardinality(A)
    BY <1>2, <2>1, FS_Subset, Zenon
  <2>3. Cardinality(Upto(r.position)) \in Nat
    BY <1>2, <2>1, FS_Subset, FS_CardinalityType, Zenon
  <2> QED
    BY <1>1, <1>2, <1>4, <2>2, <2>3 DEF PageRows
<1>5. CASE ~(Cardinality(A) < PageSize)
  <2>1. PICK s \in PageRows(f, position) : s.position = end
    BY <1>5, Zenon DEF IsPageEnd
  <2>2. Upto(r.position) \in SUBSET Upto(end)
    BY <1>1, <1>3
  <2>3. Upto(end) \in SUBSET A
    BY Zenon
  <2>4. IsFiniteSet(Upto(end)) /\ Cardinality(Upto(end)) \in Nat
    BY <1>2, <2>3, FS_Subset, FS_CardinalityType, Zenon
  <2>5. /\ Cardinality(Upto(r.position)) <= Cardinality(Upto(end))
        /\ Cardinality(Upto(r.position)) \in Nat
    BY <2>2, <2>4, FS_Subset, FS_CardinalityType, Zenon
  <2>6. Cardinality(Upto(end)) <= PageSize
    BY <2>1, Zenon DEF PageRows
  <2> QED
    BY <1>1, <2>4, <2>5, <2>6 DEF PageRows
<1> QED
  BY <1>4, <1>5, Zenon

\* The cursor of a page is not ahead of the feed.
LEMMA PageEndNotAhead ==
  ASSUME NEW f \in Feed, \A r \in f.rows : r.position <= f.head,
         NEW position, NEW end, IsPageEnd(f, position, end)
  PROVE  end <= f.head
<1>1. f.head \in Nat
  BY PullAssumption DEF Feed
<1>2. PageRows(f, position) \subseteq f.rows
  BY Zenon DEF PageRows, RowsAfter
<1> QED
  BY <1>1, <1>2 DEF IsPageEnd

\* A feed always has a domain.
LEMMA FeedDomain == \A f \in Feed : f.domain \in Nat /\ f.domain # None
  BY StoreAssumption DEF Feed, Domains

\* A cursor of a feed's domain, up to its head, is not ahead of it.
LEMMA CursorNotAhead ==
  ASSUME NEW f \in Feed, NEW t, t.domain = f.domain, t.position <= f.head
  PROVE  NotAhead(t, f) /\ t.domain # None
<1>1. f.domain \in Nat /\ f.domain # None
  BY FeedDomain, Zenon
<1>2. f.domain <= f.domain
  BY <1>1
<1> QED
  BY <1>1, <1>2, Zenon DEF NotAhead

\* The absent checkpoint lies before every row.
LEMMA NoTokenPosition == NoToken.position = 0
  BY Zenon DEF NoToken

\* The absent checkpoint is not ahead of any feed.
LEMMA NoTokenNotAhead == \A f \in Feed : NotAhead(NoToken, f)
  BY StoreAssumption, PullAssumption DEF NotAhead, NoToken, Feed, Domains

\* What is not ahead of a feed is not ahead of it after a step of the remote.
LEMMA NotAheadStep ==
  ASSUME NEW t \in Token, NEW f \in Feed, NEW g \in Feed,
         NotAhead(t, f), FeedStep(f, g)
  PROVE  NotAhead(t, g)
  BY StoreAssumption, PullAssumption DEF NotAhead, FeedStep, Token, Feed, Domains

\* A row of the changed feed that a token has passed was there before.
LEMMA PassedRowIsOld ==
  ASSUME NEW t \in Token, NEW f \in Feed, NEW g \in Feed,
         NotAhead(t, f), FeedStep(f, g),
         NEW r \in g.rows, t.domain = g.domain, r.position <= t.position
  PROVE  r \in f.rows /\ t.domain = f.domain /\ g.domain = f.domain
<1>1. f.head \in Nat /\ t.position \in Nat /\ r.position \in Nat
  BY PullAssumption DEF Feed, Token, Row
<1> QED
  BY <1>1 DEF NotAhead, FeedStep

\* A page stays complete when its feed changes.
LEMMA PageCompleteStep ==
  ASSUME NEW p, p.cursor \in Token, NEW f \in Feed, NEW g \in Feed, NEW handled,
         PageComplete(p, f, handled), FeedStep(f, g)
  PROVE  PageComplete(p, g, handled)
<1>1. NotAhead(p.cursor, f) /\ NotAhead(p.cursor, g)
  BY NotAheadStep, Zenon DEF PageComplete
<1>2. ASSUME NEW r \in g.rows, p.cursor.domain = g.domain,
             p.snap.pull.position < r.position, r.position <= p.cursor.position
      PROVE  ReceiptOf(p.snap.link, g.domain, r) \in p.page
  <2>1. r \in f.rows /\ p.cursor.domain = f.domain /\ g.domain = f.domain
    BY <1>1, <1>2, PassedRowIsOld, Zenon
  <2> QED
    BY <1>2, <2>1, Zenon DEF PageComplete
<1> QED
  BY <1>1, <1>2, Zenon DEF PageComplete

\* A page stays complete when more is handled.
LEMMA PageCompleteHandled ==
  ASSUME NEW p, NEW f, NEW handled, NEW more,
         PageComplete(p, f, handled), handled \subseteq more
  PROVE  PageComplete(p, f, more)
  BY Zenon DEF PageComplete

-----------------------------------------------------------------------------
\* What the remote does leaves the invariant standing: a page in flight and a
\* checkpoint only ever lose rows, never gain one they have passed.
LEMMA InvRemote ==
  ASSUME PullInv, Remote
  PROVE  PullInv'
<1> USE StoreAssumption, PullAssumption
<1>1. /\ UNCHANGED <<links, quarantine, delivery, lifetimes, clearing, cleaner>>
      /\ UNCHANGED <<local, pullers, retriers>>
      /\ source' \in [Links -> Feed]
      /\ \A l \in Links : FeedStep(source[l], source'[l]) /\ IsFiniteSet(source'[l].rows)
  BY RemoteStep, Zenon DEF PullInv, storeVars
<1>2. TypeOK'
  BY TypeNext, Zenon DEF PullInv, Next
<1>3. \A l \in Links : /\ source[l] \in Feed /\ source'[l] \in Feed
                       /\ links[l].pull \in Token
  BY <1>1, Zenon DEF PullInv, TypeOK, StoreTypeOK, Link
<1>4. FeedsBounded'
  <2> SUFFICES ASSUME NEW l \in Links, NEW r \in source'[l].rows
               PROVE  r.position <= source'[l].head
    BY <1>1, Zenon DEF FeedsBounded
  <2>1. source[l].head \in Nat /\ source'[l].head \in Nat /\ r.position \in Nat
    BY <1>3 DEF Feed, Row
  <2>2. r \in source[l].rows => r.position <= source[l].head
    BY Zenon DEF PullInv, FeedsBounded
  <2> QED
    BY <1>1, <2>1, <2>2 DEF FeedStep
<1>5. CheckpointsNotAhead'
  BY <1>1, <1>3, NotAheadStep, Zenon DEF PullInv, CheckpointsNotAhead
<1>6. PagesComplete'
  <2> SUFFICES ASSUME NEW w \in Workers, pullers[w].phase = "page"
               PROVE  PageComplete(pullers[w], source'[pullers[w].snap.link], local)
    BY <1>1, Zenon DEF PagesComplete
  <2>1. pullers[w].snap.link \in Links /\ pullers[w].cursor \in Token
    BY Zenon DEF PullInv, TypeOK, Puller, Snapshot
  <2>2. PageComplete(pullers[w], source[pullers[w].snap.link], local)
    BY Zenon DEF PullInv, PagesComplete
  <2> QED
    BY <1>1, <1>3, <2>1, <2>2, PageCompleteStep, Zenon
<1>7. RetriesMaterialized' /\ RowsClearedLast'
  BY <1>1, Zenon DEF PullInv, RetriesMaterialized, RowsClearedLast
<1>8. PullNoLoss'
  <2> SUFFICES ASSUME NEW l \in Links, NEW r \in source'[l].rows,
                      links[l].pull.domain = source'[l].domain,
                      r.position <= links[l].pull.position
               PROVE  \/ r.cid \in local
                      \/ ReceiptOf(l, links[l].pull.domain, r) \in quarantine
    BY <1>1, Zenon DEF PullNoLoss
  <2>1. NotAhead(links[l].pull, source[l]) /\ FeedStep(source[l], source'[l])
    BY <1>1, Zenon DEF PullInv, CheckpointsNotAhead
  <2>2. r \in source[l].rows /\ links[l].pull.domain = source[l].domain
    BY <1>3, <2>1, PassedRowIsOld, Zenon
  <2> QED
    BY <2>2, Zenon DEF PullInv, PullNoLoss
<1> QED
  BY <1>2, <1>4, <1>5, <1>6, <1>7, <1>8, Zenon DEF PullInv

-----------------------------------------------------------------------------
\* Steps of the store alone (creating, cleaning up, resetting): a checkpoint
\* stays or disappears, and no row is lost to a checkpoint that stays.
LEMMA InvStoreOnly ==
  ASSUME PullInv, TypeOK', UNCHANGED pullVars, RowsClearedLast',
         \A l \in Links :
           \/ links'[l].pull = NoToken
           \/ /\ links'[l].pull = links[l].pull
              /\ \A r \in quarantine : r.link = l => r \in quarantine'
  PROVE  PullInv'
<1> USE StoreAssumption, PullAssumption
<1>1. FeedsBounded' /\ PagesComplete' /\ RetriesMaterialized'
  BY Zenon DEF PullInv, FeedsBounded, PagesComplete, RetriesMaterialized, pullVars
<1>2. source' = source /\ local' = local /\ \A l \in Links : source[l] \in Feed
  BY Zenon DEF pullVars, PullInv, TypeOK
<1>3. CheckpointsNotAhead'
  BY <1>2, NoTokenNotAhead, Zenon DEF PullInv, CheckpointsNotAhead
<1>4. PullNoLoss'
  <2> SUFFICES ASSUME NEW l \in Links, NEW r \in source[l].rows,
                      links'[l].pull.domain = source[l].domain,
                      r.position <= links'[l].pull.position
               PROVE  \/ r.cid \in local
                      \/ ReceiptOf(l, links'[l].pull.domain, r) \in quarantine'
    BY <1>2, Zenon DEF PullNoLoss
  <2>1. links'[l].pull # NoToken
    BY <1>2 DEF NoToken, Feed, Domains
  <2>2. /\ links'[l].pull = links[l].pull
        /\ \A x \in quarantine : x.link = l => x \in quarantine'
    BY <2>1, Zenon
  <2>3. ReceiptOf(l, links[l].pull.domain, r).link = l
    BY Zenon DEF ReceiptOf
  <2> QED
    BY <2>2, <2>3, Zenon DEF PullInv, PullNoLoss
<1> QED
  BY <1>1, <1>3, <1>4, Zenon DEF PullInv

\* A new link has no checkpoint, so it has passed no entry.
LEMMA InvEnsureLink ==
  ASSUME PullInv, NEW l \in Links, EnsureLink(l)
  PROVE  PullInv'
<1>1. TypeOK'
  BY TypeNext, Zenon DEF PullInv, Next
<1>2. UNCHANGED pullVars /\ quarantine' = quarantine /\ clearing = "no" /\ clearing' = "no"
  BY Zenon DEF EnsureLink, GetOrCreateLink, Unlocked
<1>3. links \in [Links -> Link]
  BY Zenon DEF PullInv, TypeOK, StoreTypeOK
<1>4. \A m \in Links : links'[m].pull = NoToken \/ links'[m].pull = links[m].pull
  BY <1>3, Zenon DEF EnsureLink, GetOrCreateLink
<1> QED
  BY <1>1, <1>2, <1>4, InvStoreOnly, Zenon DEF RowsClearedLast

\* A removed link loses its checkpoint with its rows; a retired one keeps its
\* rows.
LEMMA InvCleaning ==
  ASSUME PullInv, Cleaning
  PROVE  PullInv'
<1>1. TypeOK'
  BY TypeNext, Zenon DEF PullInv, Next
<1>2. UNCHANGED pullVars /\ links \in [Links -> Link]
  BY Zenon DEF Cleaning, PullInv, TypeOK, StoreTypeOK
<1>3. CASE CleanerRemove
  <2>1. clearing = "no" /\ clearing' = "no" /\ cleaner.link \in Links
    BY <1>3, Zenon DEF CleanerRemove, RetireLink, DeleteLinkAndPendingWork, Unlocked,
                PullInv, TypeOK, StoreTypeOK
  <2>2. /\ links' = [links EXCEPT ![cleaner.link] = NoLink]
        /\ \A r \in quarantine : r.link # cleaner.link => r \in quarantine'
    BY <1>3, Zenon DEF CleanerRemove, RetireLink, DeleteLinkAndPendingWork
  <2>3. \A l \in Links :
          \/ links'[l].pull = NoToken
          \/ links'[l].pull = links[l].pull /\ l # cleaner.link
    BY <1>2, <2>1, <2>2, Zenon DEF NoLink
  <2> QED
    BY <1>1, <1>2, <2>1, <2>2, <2>3, InvStoreOnly, Zenon DEF RowsClearedLast
<1>4. CASE CleanerStale \/ \E l \in Links : CleanerList(l)
  <2>1. UNCHANGED <<links, quarantine, clearing>>
    BY <1>4, Zenon DEF CleanerStale, CleanerList
  <2> QED
    BY <1>1, <1>2, <2>1, InvStoreOnly, Zenon DEF PullInv, RowsClearedLast
<1> QED
  BY <1>3, <1>4, Zenon DEF Cleaning, Cleanup

\* The reset empties the links first: when it comes to the rows no checkpoint
\* is left that would need them, and a crash in between keeps it so.
LEMMA InvReset ==
  ASSUME PullInv, Reset
  PROVE  PullInv'
<1>1. TypeOK'
  BY TypeNext, Zenon DEF PullInv, Next
<1>2. /\ UNCHANGED pullVars
      /\ links \in [Links -> Link]
      /\ \A l \in Links : links[l].lifetime = 0 => links[l] = NoLink
  BY Zenon DEF Reset, PullInv, TypeOK, StoreTypeOK
<1>3. CASE StartClear \/ ClearDone \/ ClearInterrupted
  <2>1. UNCHANGED <<links, quarantine>> /\ clearing' # "rows"
    BY <1>3, Zenon DEF StartClear, ClearDone, ClearInterrupted
  <2> QED
    BY <1>1, <1>2, <2>1, InvStoreOnly, Zenon DEF RowsClearedLast
<1>4. ASSUME NEW l \in Links, ClearLink(l) PROVE PullInv'
  <2>1. UNCHANGED quarantine /\ clearing' # "rows"
    BY <1>4, Zenon DEF ClearLink
  <2>2. \A m \in Links : links'[m].pull = NoToken \/ links'[m].pull = links[m].pull
    BY <1>2, <1>4, Zenon DEF ClearLink, NoLink
  <2> QED
    BY <1>1, <1>2, <2>1, <2>2, InvStoreOnly, Zenon DEF RowsClearedLast
<1>5. CASE LinksCleared
  <2>1. UNCHANGED <<links, quarantine>> /\ \A l \in Links : links[l] = NoLink
    BY <1>2, <1>5, Zenon DEF LinksCleared
  <2> QED
    BY <1>1, <1>2, <2>1, InvStoreOnly, Zenon DEF RowsClearedLast
<1>6. CASE ClearRow
  <2>1. UNCHANGED links /\ \A l \in Links : links[l] = NoLink
    BY <1>6, Zenon DEF ClearRow, PullInv, RowsClearedLast
  <2>2. \A l \in Links : links'[l].pull = NoToken
    BY <2>1 DEF NoLink
  <2> QED
    BY <1>1, <1>2, <2>1, <2>2, InvStoreOnly, Zenon DEF RowsClearedLast
<1> QED
  BY <1>3, <1>4, <1>5, <1>6, Zenon DEF Reset, Clear

-----------------------------------------------------------------------------
\* A retry gives up only receipts whose CID it has established locally, and
\* what is handled locally stays handled.
LEMMA InvRetry ==
  ASSUME PullInv, NEW p \in Projections, Retry(p)
  PROVE  PullInv'
<1>1. TypeOK'
  BY TypeNext, Zenon DEF PullInv, Next
<1>2. /\ UNCHANGED <<source, pullers, links, clearing>>
      /\ local \subseteq local'
      /\ retriers \in [Projections -> Retrier]
  BY Zenon DEF Retry, RetrySelect, RetryMaterialized, RetrySettle, RetryCrash, RetryPending,
         SettleQuarantineForProjection, SettleQuarantineInterrupted, storeVars,
         PullInv, TypeOK
<1>3. FeedsBounded' /\ CheckpointsNotAhead' /\ RowsClearedLast'
  BY <1>2, Zenon DEF PullInv, FeedsBounded, CheckpointsNotAhead, RowsClearedLast
<1>4. PagesComplete'
  BY <1>2, PageCompleteHandled, Zenon DEF PullInv, PagesComplete
<1>5. RetriesMaterialized'
  BY <1>2 DEF PullInv, RetriesMaterialized, Retry, RetrySelect, RetryMaterialized,
              RetrySettle, RetryCrash, RetryPending, IdleRetrier, Retrier
<1>6. \A r \in quarantine : r \in quarantine' \/ r.cid \in local
  <2>1. CASE RetrySettle(p) \/ RetryCrash(p)
    <3>1. retriers[p].cid \in local
      BY <2>1, Zenon DEF RetrySettle, RetryCrash, PullInv, RetriesMaterialized
    <3> QED
      BY <2>1, <3>1, Zenon DEF RetrySettle, RetryCrash, SettleQuarantineForProjection,
                        SettleQuarantineInterrupted
  <2>2. CASE ~(RetrySettle(p) \/ RetryCrash(p))
    BY <2>2, Zenon DEF Retry, RetrySelect, RetryMaterialized, RetryPending, storeVars
  <2> QED
    BY <2>1, <2>2, Zenon
<1>7. PullNoLoss'
  <2>1. \A l \in Links : \A r \in source[l].rows :
          ReceiptOf(l, links[l].pull.domain, r).cid = r.cid
    BY Zenon DEF ReceiptOf
  <2> QED
    BY <1>2, <1>6, <2>1, Zenon DEF PullInv, PullNoLoss
<1> QED
  BY <1>1, <1>3, <1>4, <1>5, <1>7, Zenon DEF PullInv

\* The steps of an attempt before its commit leave the store alone.
LEMMA InvAttempt ==
  ASSUME PullInv, TypeOK', UNCHANGED <<storeVars, source, retriers>>,
         local \subseteq local', PagesComplete'
  PROVE  PullInv'
  BY Zenon DEF PullInv, FeedsBounded, CheckpointsNotAhead, RetriesMaterialized,
         RowsClearedLast, PullNoLoss, storeVars

\* PagesComplete holds of a new state if it holds of the worker that moved.
LEMMA OtherPages ==
  ASSUME PullInv, UNCHANGED source, local \subseteq local',
         NEW w \in Workers, NEW p,
         pullers' = [pullers EXCEPT ![w] = p],
         p.phase = "page" => PageComplete(p, source[p.snap.link], local')
  PROVE  PagesComplete'
<1> SUFFICES ASSUME NEW v \in Workers, pullers'[v].phase = "page"
             PROVE  PageComplete(pullers'[v], source[pullers'[v].snap.link], local')
  BY Zenon DEF PagesComplete
<1>1. pullers \in [Workers -> Puller]
  BY Zenon DEF PullInv, TypeOK
<1>2. CASE v = w
  BY <1>1, <1>2, Zenon
<1>3. CASE v # w
  <2>1. pullers'[v] = pullers[v]
    BY <1>1, <1>3, Zenon
  <2>2. PageComplete(pullers[v], source[pullers[v].snap.link], local)
    BY <2>1, Zenon DEF PullInv, PagesComplete
  <2> QED
    BY <2>1, <2>2, PageCompleteHandled, Zenon
<1> QED
  BY <1>2, <1>3, Zenon

\* A page holds every live row between its checkpoint and its cursor when it
\* is queried.
LEMMA InvPullQuery ==
  ASSUME PullInv, NEW w \in Workers, PullQuery(w)
  PROVE  PullInv'
<1>1. TypeOK'
  BY TypeNext, Zenon DEF PullInv, Next, PullPage
<1> DEFINE q == pullers[w].snap
           f == source[q.link]
           page == {ReceiptOf(q.link, f.domain, r) : r \in PageRows(f, q.pull.position)}
           cursor(end) == [domain |-> f.domain, position |-> end]
           p(end) == [phase |-> "page", snap |-> q, cursor |-> cursor(end),
                      page |-> page, settled |-> {}, pending |-> {}]
<1>2. PICK end \in 0 .. MaxHead : /\ IsPageEnd(f, q.pull.position, end)
                                  /\ pullers' = [pullers EXCEPT ![w] = p(end)]
  BY Zenon DEF PullQuery
<1>3. q \in Snapshot /\ q.pull \in Token /\ q.pull.position \in Nat
  BY Zenon DEF PullQuery, PullInv, TypeOK, Puller, Snapshot, Token
<1>4. f \in Feed /\ IsFiniteSet(f.rows) /\ \A r \in f.rows : r.position <= f.head
  BY <1>3, Zenon DEF PullInv, TypeOK, FeedsBounded, Snapshot
<1>5. NotAhead(cursor(end), f) /\ cursor(end).domain # None
  <2>1. end <= f.head
    BY <1>2, <1>4, PageEndNotAhead, Zenon
  <2> QED
    BY <1>4, <2>1, CursorNotAhead, Zenon
<1>6. \A r \in f.rows : q.pull.position < r.position /\ r.position <= end =>
                          ReceiptOf(q.link, f.domain, r) \in page
  BY <1>2, <1>3, <1>4, PageHoldsRows, Zenon
<1>7. q.pull = NoToken \/ q.pull.domain = f.domain
  BY Zenon DEF PullQuery
<1> HIDE DEF page
<1>8. UNCHANGED <<storeVars, source, local, retriers>>
  BY Zenon DEF PullQuery
<1>9. PageComplete(p(end), f, local)
  BY <1>5, <1>6, <1>7, Zenon DEF PageComplete
<1>10. PagesComplete'
  BY <1>2, <1>8, <1>9, OtherPages, Zenon
<1> QED
  BY <1>1, <1>8, <1>10, InvAttempt, Zenon

\* Classifying a root keeps the page; a settled root is handled locally.
LEMMA InvClassify ==
  ASSUME PullInv, NEW w \in Workers, NEW r \in Todo(w),
         PullAdmitted(w, r) \/ PullDeferred(w, r)
  PROVE  PullInv'
<1>1. TypeOK'
  BY TypeNext, Zenon DEF PullInv, Next, PullPage
<1> DEFINE p == pullers'[w]
<1>2. pullers \in [Workers -> Puller] /\ pullers[w] \in Puller
  BY Zenon DEF PullInv, TypeOK
<1>3. /\ UNCHANGED <<storeVars, source, retriers>>
      /\ local \subseteq local'
      /\ pullers' = [pullers EXCEPT ![w] = p]
  BY <1>2, Zenon DEF PullAdmitted, PullDeferred
<1>4. /\ p.phase = "page" /\ pullers[w].phase = "page"
      /\ p.snap = pullers[w].snap /\ p.cursor = pullers[w].cursor
      /\ p.page = pullers[w].page
      /\ \A s \in p.settled : s \in pullers[w].settled \/ s.cid \in local'
  BY <1>2 DEF PullAdmitted, PullDeferred, Puller
<1> HIDE DEF p
<1>5. PageComplete(pullers[w], source[pullers[w].snap.link], local)
  BY <1>4, Zenon DEF PullInv, PagesComplete
<1>6. PageComplete(p, source[p.snap.link], local')
  BY <1>3, <1>4, <1>5, Zenon DEF PageComplete
<1>7. PagesComplete'
  BY <1>3, <1>6, OtherPages, Zenon
<1> QED
  BY <1>1, <1>3, <1>7, InvAttempt, Zenon

\* Giving up an attempt leaves the store as it is.
LEMMA InvLeavePage ==
  ASSUME PullInv, NEW w \in Workers,
         \/ \E l \in Links : PullStart(w, l)
         \/ PullCommitRefused(w)
         \/ PullAbort(w)
  PROVE  PullInv'
<1>1. TypeOK'
  BY TypeNext, Zenon DEF PullInv, Next, PullPage
<1>2. UNCHANGED <<storeVars, source, local, retriers>>
  BY Zenon DEF PullStart, PullCommitRefused, PullAbort
<1>3. \E p : pullers' = [pullers EXCEPT ![w] = p] /\ p.phase # "page"
  <2>1. ASSUME NEW l \in Links, PullStart(w, l)
        PROVE  \E p : pullers' = [pullers EXCEPT ![w] = p] /\ p.phase # "page"
    <3> DEFINE p == [IdlePuller EXCEPT !.phase = "query", !.snap = SnapshotOf(l)]
    <3>1. pullers' = [pullers EXCEPT ![w] = p]
      BY <2>1, Zenon DEF PullStart
    <3>2. p.phase = "query"
      BY Zenon DEF IdlePuller
    <3> QED
      BY <3>1, <3>2, Zenon
  <2>2. CASE PullCommitRefused(w) \/ PullAbort(w)
    BY <2>2, IdlePullerOK, Zenon DEF PullCommitRefused, PullAbort
  <2> QED
    BY <2>1, <2>2, Zenon
<1>4. PagesComplete'
  BY <1>2, <1>3, OtherPages, Zenon
<1> QED
  BY <1>1, <1>2, <1>4, InvAttempt, Zenon

\* The commit is where the checkpoint passes rows.  A live row it passes was
\* passed before, and then it was handled or retained and is so still; or it
\* is in the page, and then it was settled or is retained by this commit.
LEMMA InvPullCommit ==
  ASSUME PullInv, NEW w \in Workers, PullCommit(w)
  PROVE  PullInv'
<1> DEFINE p == pullers[w]
           q == p.snap
<1>1. TypeOK'
  BY TypeNext, Zenon DEF PullInv, Next, PullPage
<1>2. /\ p \in Puller /\ q \in Snapshot /\ q.link \in Links
      /\ links \in [Links -> Link] /\ links[q.link] \in Link
      /\ q.pull \in Token /\ p.cursor \in Token
      /\ p.settled \cup p.pending \subseteq p.page
  BY Zenon DEF PullCommit, PullInv, TypeOK, StoreTypeOK, Puller, Snapshot
<1>3. /\ p.phase = "page" /\ Todo(w) = {} /\ clearing = "no"
      /\ links[q.link].pull = q.pull
      /\ quarantine' = (quarantine \cup p.pending) \ p.settled
      /\ links' = [links EXCEPT ![q.link] = [links[q.link] EXCEPT !.pull = p.cursor]]
      /\ pullers' = [pullers EXCEPT ![w] = IdlePuller]
      /\ UNCHANGED <<delivery, lifetimes, clearing, cleaner, source, local, retriers>>
  BY Zenon DEF PullCommit, CommitPullPage, PullPageAccepted, Unlocked
<1>4. p.pending \cap p.settled = {}
  BY Zenon DEF PullCommit, CommitPullPage, PullPageAccepted, ValidPage
<1>5. \A l \in Links :
        links'[l].pull = IF l = q.link THEN p.cursor ELSE links[l].pull
  BY <1>2, <1>3, Zenon DEF Link
<1>6. PageComplete(p, source[q.link], local)
  BY <1>3, Zenon DEF PullInv, PagesComplete
<1>7. \A l \in Links : \A d, r : ReceiptOf(l, d, r).cid = r.cid
  BY Zenon DEF ReceiptOf
<1>8. PullNoLoss'
  <2> SUFFICES ASSUME NEW l \in Links, NEW r \in source[l].rows,
                      links'[l].pull.domain = source[l].domain,
                      r.position <= links'[l].pull.position
               PROVE  \/ r.cid \in local
                      \/ ReceiptOf(l, links'[l].pull.domain, r) \in quarantine'
    BY <1>3, Zenon DEF PullNoLoss
  <2>1. r \in Row /\ links[l].pull \in Token
    BY Zenon DEF PullInv, TypeOK, Feed, StoreTypeOK, Link
  <2>2. r.position \in Nat /\ r.position > 0 /\ links[l].pull.position \in Nat
    BY <2>1 DEF Row, Token
  <2>3. \A x \in p.settled : x.cid \in local
    BY <1>6, Zenon DEF PageComplete
  <2>4. ASSUME NEW x, x.cid = r.cid, x \in quarantine \/ x \in p.pending,
               r.cid \notin local
        PROVE  x \in quarantine'
    <3>1. x \notin p.settled
      BY <2>3, <2>4, Zenon
    <3> QED
      BY <1>3, <2>4, <3>1, Zenon
  <2>5. CASE links[l].pull.domain = source[l].domain /\ r.position <= links[l].pull.position
    <3>1. r.cid \in local \/ ReceiptOf(l, source[l].domain, r) \in quarantine
      BY <2>5, Zenon DEF PullInv, PullNoLoss
    <3> QED
      BY <1>7, <2>4, <3>1, Zenon
  <2>6. CASE ~(/\ links[l].pull.domain = source[l].domain
               /\ r.position <= links[l].pull.position)
    <3>1. l = q.link /\ links[l].pull = q.pull /\ links'[l].pull = p.cursor
      BY <1>3, <1>5, <2>6, Zenon
    <3>2. q.pull.position < r.position
      <4>1. CASE q.pull = NoToken
        BY <2>2, <4>1, NoTokenPosition, Zenon
      <4>2. CASE q.pull.domain = p.cursor.domain
        <5>1. links[l].pull.domain = source[l].domain
          BY <3>1, <4>2, Zenon
        <5>2. ~(r.position <= links[l].pull.position)
          BY <2>6, <5>1, Zenon
        <5>3. links[l].pull.position < r.position
          BY <2>2, <5>2
        <5> QED
          BY <3>1, <5>3, Zenon
      <4> QED
        BY <1>6, <4>1, <4>2, Zenon DEF PageComplete
    <3>3. ReceiptOf(l, source[l].domain, r) \in p.page
      BY <1>6, <3>1, <3>2, Zenon DEF PageComplete
    <3>4. ReceiptOf(l, source[l].domain, r) \in p.settled \cup p.pending
      BY <1>3, <3>3, Zenon DEF Todo
    <3> QED
      BY <1>7, <2>3, <2>4, <3>4, Zenon
  <2> QED
    BY <2>5, <2>6, Zenon
<1>9. FeedsBounded' /\ RetriesMaterialized' /\ RowsClearedLast'
  BY <1>3, Zenon DEF PullInv, FeedsBounded, RetriesMaterialized, RowsClearedLast
<1>10. CheckpointsNotAhead'
  BY <1>3, <1>5, <1>6, Zenon DEF PullInv, CheckpointsNotAhead, PageComplete
<1>11. PagesComplete'
  BY <1>3, IdlePullerOK, OtherPages, Zenon
<1> QED
  BY <1>1, <1>8, <1>9, <1>10, <1>11, Zenon DEF PullInv

-----------------------------------------------------------------------------
\* The inductive invariant holds when nothing has been stored or published.
LEMMA InvInit == Init => PullInv
<1> SUFFICES ASSUME Init PROVE PullInv
  BY Zenon
<1>1. TypeOK
  BY TypeInit, Zenon
<1>2. \A l \in Links : source[l].rows = {} /\ links[l].pull = NoToken
  <2>1. \A l \in Links : source[l].rows = {}
    BY Zenon DEF Init, PullInit
  <2>2. \A l \in Links : links[l].pull = NoToken
    BY Zenon DEF Init, StoreInit, NoLink
  <2> QED
    BY <2>1, <2>2, Zenon
<1>3. FeedsBounded /\ PullNoLoss
  BY <1>2, FS_EmptySet, Zenon DEF FeedsBounded, PullNoLoss
<1>4. CheckpointsNotAhead
  BY <1>1, <1>2, NoTokenNotAhead, Zenon DEF CheckpointsNotAhead, TypeOK
<1>5. PagesComplete /\ RetriesMaterialized /\ RowsClearedLast
  BY Zenon DEF Init, PullInit, StoreInit, IdlePuller, IdleRetrier, PagesComplete,
         RetriesMaterialized, RowsClearedLast
<1> QED
  BY <1>1, <1>3, <1>4, <1>5, Zenon DEF PullInv

\* Every step, and every stuttering step, preserves the inductive invariant.
LEMMA InvNext == PullInv /\ [Next]_vars => PullInv'
<1> SUFFICES ASSUME PullInv, [Next]_vars PROVE PullInv'
  BY Zenon
<1>1. CASE Remote
  BY <1>1, InvRemote, Zenon
<1>2. CASE \E l \in Links : EnsureLink(l)
  BY <1>2, InvEnsureLink, Zenon
<1>3. CASE \E w \in Workers : PullPage(w)
  BY <1>3, InvPullQuery, InvClassify, InvLeavePage, InvPullCommit, Zenon DEF PullPage
<1>4. CASE \E p \in Projections : Retry(p)
  BY <1>4, InvRetry, Zenon
<1>5. CASE Cleaning
  BY <1>5, InvCleaning, Zenon
<1>6. CASE Reset
  BY <1>6, InvReset, Zenon
<1>7. CASE UNCHANGED vars
  BY <1>7, Zenon DEF vars, storeVars, pullVars, PullInv, TypeOK, StoreTypeOK, FeedsBounded,
              CheckpointsNotAhead, PagesComplete, RetriesMaterialized,
              RowsClearedLast, PullNoLoss
<1> QED
  BY <1>1, <1>2, <1>3, <1>4, <1>5, <1>6, <1>7, Zenon DEF Next

\* PullInv is an invariant of every behaviour of the pull side.
THEOREM PullInvariant == Spec => []PullInv
<1>1. Init => PullInv
  BY InvInit, Zenon
<1>2. PullInv /\ [Next]_vars => PullInv'
  BY InvNext, Zenon
<1> QED
  BY <1>1, <1>2, PTL DEF Spec

\* Every variable keeps its shape, a worker in flight holds a stored lifetime
\* and classifies only roots of its own page.
THEOREM TypeCorrect == Spec => []TypeOK
<1>1. PullInv => TypeOK
  BY Zenon DEF PullInv
<1> QED
  BY <1>1, PullInvariant, PTL

\* No live entry a checkpoint has passed is ever lost: it is handled locally
\* or retained in quarantine, for any number of links, racing page attempts,
\* retries, cleanups, resets and crashes, and for every page size.
THEOREM NoLoss == Spec => []PullNoLoss
<1>1. PullInv => PullNoLoss
  BY Zenon DEF PullInv
<1> QED
  BY <1>1, PullInvariant, PTL

-----------------------------------------------------------------------------
\* The only steps that change a link.
LEMMA LinkSteps ==
  ASSUME TypeOK, Next
  PROVE  \/ links' = links
         \/ \E l \in Links : /\ links[l].lifetime = 0
                             /\ links'[l].pull = NoToken
                             /\ \A m \in Links \ {l} : links'[m] = links[m]
         \/ /\ clearing = "links"
            /\ \A l \in Links : links'[l] = links[l] \/ links'[l] = NoLink
         \/ /\ cleaner.link \in Links /\ cleaner.lifetime = links[cleaner.link].lifetime
            /\ \A l \in Links : links'[l] = links[l] \/ (l = cleaner.link /\ links'[l] = NoLink)
         \/ \E w \in Workers : PullCommit(w)
<1>1. links \in [Links -> Link]
  BY Zenon DEF TypeOK, StoreTypeOK
<1>2. CASE Remote
  BY <1>2, Zenon DEF Remote, RemotePut, RemotePutOutOfScope, RemoteDelete, RemoteCompleteData,
              RemoteClear, storeVars
<1>3. CASE \E l \in Links : EnsureLink(l)
  BY <1>1, <1>3 DEF EnsureLink, GetOrCreateLink
<1>4. CASE \E w \in Workers : PullPage(w)
  BY <1>4, Zenon DEF PullPage, PullStart, PullQuery, PullAdmitted, PullDeferred,
              PullCommitRefused, PullAbort, storeVars
<1>5. CASE \E p \in Projections : Retry(p)
  BY <1>5, Zenon DEF Retry, RetrySelect, RetryMaterialized, RetrySettle, RetryCrash,
              RetryPending, SettleQuarantineForProjection,
              SettleQuarantineInterrupted, storeVars
<1>6. CASE Cleaning
  <2>1. CASE CleanerRemove
    <3>1. cleaner.link \in Links /\ IsCurrent(cleaner)
          /\ links' = [links EXCEPT ![cleaner.link] = NoLink]
      BY <2>1, Zenon
         DEF CleanerRemove, RetireLink, DeleteLinkAndPendingWork, TypeOK, StoreTypeOK
    <3> QED
      BY <1>1, <3>1, Zenon DEF IsCurrent
  <2>2. CASE ~CleanerRemove
    BY <1>6, <2>2, Zenon DEF Cleaning, Cleanup, CleanerList, CleanerStale
  <2> QED
    BY <2>1, <2>2, Zenon
<1>7. CASE Reset
  BY <1>1, <1>7, Zenon DEF Reset, Clear, StartClear, ClearLink, LinksCleared, ClearRow,
                    ClearDone, ClearInterrupted
<1> QED
  BY <1>2, <1>3, <1>4, <1>5, <1>6, <1>7, Zenon DEF Next

\* What a commit does to the links.
LEMMA CommitStep ==
  ASSUME TypeOK, NEW w \in Workers, PullCommit(w)
  PROVE  LET p == pullers[w] IN
         /\ p.phase = "page" /\ pullers'[w].phase = "idle"
         /\ p.snap.link \in Links /\ p.snap.lifetime = links[p.snap.link].lifetime
         /\ p.snap.pull = links[p.snap.link].pull
         /\ CanAdvance(p.snap.pull, p.cursor)
         /\ links'[p.snap.link].pull = p.cursor
         /\ \A l \in Links : links'[l].lifetime = links[l].lifetime
         /\ \A l \in Links \ {p.snap.link} : links'[l] = links[l]
<1> DEFINE p == pullers[w]
           q == p.snap
<1>1. /\ q \in Snapshot /\ q.link \in Links /\ pullers \in [Workers -> Puller]
      /\ links \in [Links -> Link] /\ links[q.link] \in Link
  BY Zenon DEF PullCommit, TypeOK, StoreTypeOK, Puller, Snapshot
<1>2. /\ p.phase = "page" /\ IsCurrent(q)
      /\ links[q.link].pull = q.pull
      /\ CanAdvance(q.pull, p.cursor)
      /\ links' = [links EXCEPT ![q.link] = [links[q.link] EXCEPT !.pull = p.cursor]]
      /\ pullers' = [pullers EXCEPT ![w] = IdlePuller]
  BY Zenon DEF PullCommit, CommitPullPage, PullPageAccepted
<1>3. pullers'[w].phase = "idle"
  BY <1>1, <1>2, IdlePullerOK, Zenon
<1>4. /\ links'[q.link].pull = p.cursor
      /\ links'[q.link].lifetime = links[q.link].lifetime
      /\ \A l \in Links \ {q.link} : links'[l] = links[l]
  BY <1>1, <1>2, Zenon DEF Link
<1> QED
  BY <1>1, <1>2, <1>3, <1>4, Zenon DEF IsCurrent

\* A checkpoint never moves backwards or to another domain while its link
\* lives, whichever of several racing page attempts commits.
THEOREM MonotoneCheckpoint == Spec => CheckpointMonotone
<1>1. TypeOK /\ [Next]_vars =>
        [\A l \in Links :
           links[l].lifetime # 0 /\ links'[l].lifetime = links[l].lifetime =>
             \/ links'[l].pull = links[l].pull
             \/ CanAdvance(links[l].pull, links'[l].pull)]_vars
  <2> SUFFICES ASSUME TypeOK, Next, NEW l \in Links,
                      links[l].lifetime # 0, links'[l].lifetime = links[l].lifetime
               PROVE  \/ links'[l].pull = links[l].pull
                      \/ CanAdvance(links[l].pull, links'[l].pull)
    BY Zenon
  <2>1. NoLink.lifetime = 0
    BY Zenon DEF NoLink
  <2> QED
    BY <2>1, LinkSteps, CommitStep, Zenon
<1> QED
  BY <1>1, TypeCorrect, PTL DEF Spec, CheckpointMonotone

\* Only a cleanup that listed the stored lifetime, or a reset, removes a link.
THEOREM CleanupIsFenced == Spec => StaleCleanupHarmless
<1>1. TypeOK /\ [Next]_vars =>
        [\A l \in Links :
           links[l].lifetime # 0 /\ links'[l].lifetime # links[l].lifetime =>
             \/ clearing = "links"
             \/ cleaner.link = l /\ cleaner.lifetime = links[l].lifetime]_vars
  <2> SUFFICES ASSUME TypeOK, Next, NEW l \in Links,
                      links[l].lifetime # 0, links'[l].lifetime # links[l].lifetime
               PROVE  \/ clearing = "links"
                      \/ cleaner.link = l /\ cleaner.lifetime = links[l].lifetime
    BY Zenon
  <2> QED
    BY LinkSteps, CommitStep, Zenon
<1> QED
  BY <1>1, TypeCorrect, PTL DEF Spec, StaleCleanupHarmless

\* A page attempt moves only the checkpoint, and only within the lifetime, it
\* was queried for.
THEOREM CommitIsFenced == Spec => CommitFromOwnLifetime
<1>1. TypeOK /\ [Next]_vars =>
        [\A l \in Links :
           links'[l].pull \notin {links[l].pull, NoToken} =>
             \E w \in Workers :
               /\ pullers[w].phase = "page" /\ pullers'[w].phase = "idle"
               /\ pullers[w].snap.link = l /\ IsCurrent(pullers[w].snap)
               /\ pullers[w].cursor = links'[l].pull]_vars
  <2> SUFFICES ASSUME TypeOK, Next, NEW l \in Links,
                      links'[l].pull \notin {links[l].pull, NoToken}
               PROVE  \E w \in Workers :
                        /\ pullers[w].phase = "page" /\ pullers'[w].phase = "idle"
                        /\ pullers[w].snap.link = l /\ IsCurrent(pullers[w].snap)
                        /\ pullers[w].cursor = links'[l].pull
    BY Zenon
  <2>1. NoLink.pull = NoToken
    BY Zenon DEF NoLink
  <2>2. PICK w \in Workers : PullCommit(w)
    BY <2>1, LinkSteps, Zenon
  <2>3. IsCurrent(pullers[w].snap)
    BY <2>2, Zenon DEF PullCommit, CommitPullPage, PullPageAccepted
  <2> QED
    <3>1. /\ pullers[w].phase = "page" /\ pullers'[w].phase = "idle"
          /\ links'[pullers[w].snap.link].pull = pullers[w].cursor
          /\ \A k \in Links \ {pullers[w].snap.link} : links'[k] = links[k]
      BY <2>2, CommitStep, Zenon
    <3>2. pullers[w].snap.link = l
      BY <3>1, Zenon
    <3> QED
      BY <2>3, <3>1, <3>2, Zenon
<1> QED
  BY <1>1, TypeCorrect, PTL DEF Spec, CommitFromOwnLifetime

\* The checkpoints as the abstract intake sees them.
Checkpoints == [l \in Links |-> links[l].pull]

\* Nothing the abstract intake can see has changed.
Unseen == UNCHANGED <<source, Checkpoints, quarantine, local>>

\* A step of the remote publishes to, or clears, one feed.
LEMMA RemotePublishes ==
  ASSUME PullInv, Remote
  PROVE  \E l \in Links : Intake!Publish(l)
<1>1. PICK l \in Links : \A k \in Links \ {l} : source'[k] = source[k]
  BY Zenon DEF Remote, RemotePut, RemotePutOutOfScope, RemoteDelete, RemoteCompleteData,
         RemoteClear, PullInv, TypeOK
<1>2. /\ UNCHANGED <<links, quarantine, local>>
      /\ FeedStep(source[l], source'[l])
  BY RemoteStep, Zenon DEF PullInv, storeVars
<1>3. source[l].head \in Nat /\ source'[l].head \in Nat
  <2>1. source[l] \in Feed /\ source'[l] \in Feed
    BY RemoteStep, Zenon DEF PullInv, TypeOK
  <2>2. \A n \in 0 .. MaxHead : n \in Nat
    BY PullAssumption
  <2> QED
    BY <2>1, <2>2, Zenon DEF Feed
<1> QED
  BY <1>1, <1>2, <1>3, Zenon DEF FeedStep, Intake!Publish

\* A commit moves one checkpoint over rows that are handled or owed.
LEMMA CommitAdvances ==
  ASSUME PullInv, NEW w \in Workers, PullCommit(w)
  PROVE  \E l \in Links : Intake!Advance(l, Checkpoints'[l])
<1> DEFINE p == pullers[w]
           l == p.snap.link
<1>1. /\ l \in Links /\ links[l].pull = p.snap.pull
      /\ CanAdvance(links[l].pull, p.cursor)
      /\ links'[l].pull = p.cursor
      /\ \A k \in Links \ {l} : links'[k] = links[k]
  BY CommitStep, Zenon DEF PullInv
<1>2. /\ quarantine' = (quarantine \cup p.pending) \ p.settled
      /\ UNCHANGED <<source, local>>
  BY Zenon DEF PullCommit, CommitPullPage
<1>3. \A r \in p.settled : r.cid \in local
  BY CommitStep, Zenon DEF PullInv, PagesComplete, PageComplete
<1>4. \A r \in quarantine \ quarantine' : r.cid \in local
  BY <1>2, <1>3, Zenon
<1>5. PullNoLoss'
  BY InvPullCommit, Zenon DEF PullInv
<1>6. \A r \in Intake!Passed(source[l], p.cursor) :
        r.cid \in local \/ Intake!Owes(l, source[l], r) \in quarantine'
  BY <1>1, <1>2, <1>5, Zenon DEF PullNoLoss, Intake!Passed, Intake!Owes, ReceiptOf
<1>7. Checkpoints' = [Checkpoints EXCEPT ![l] = p.cursor] /\ Checkpoints'[l] = p.cursor
  BY <1>1, Zenon DEF Checkpoints
<1>8. \/ Checkpoints[l] = Intake!Start
      \/ /\ Checkpoints[l].domain = p.cursor.domain
         /\ Checkpoints[l].position < p.cursor.position
  <2>1. links[l].pull \in Token /\ p.cursor \in Token
    BY <1>1, Zenon DEF PullInv, TypeOK, StoreTypeOK, Link, Puller
  <2> QED
    BY <1>1, <2>1, Zenon DEF CanAdvance, Checkpoints, NoToken, Token, Intake!Start
<1> QED
  BY <1>1, <1>2, <1>4, <1>6, <1>7, <1>8, Zenon DEF Intake!Advance, Checkpoints

\* A step of the store alone drops owed rows only with their checkpoint.
LEMMA StoreReleases ==
  ASSUME PullInv, UNCHANGED <<source, local>>, quarantine' \subseteq quarantine,
         \A l \in Links : links'[l].pull = links[l].pull \/ links'[l].pull = NoToken,
         \A r \in quarantine \ quarantine' :
           r.cid \in local \/ links'[r.link].pull = NoToken
  PROVE  Intake!Release
<1>1. NoToken = Intake!Start
  BY Zenon DEF NoToken, Intake!Start
<1>2. \A r \in quarantine : r.link \in Links
  BY Zenon DEF PullInv, TypeOK, StoreTypeOK, Receipt
<1> QED
  BY <1>1, <1>2, Zenon DEF Intake!Release

\* Every step of the pull side is a step of the abstract intake, or one that
\* it cannot see.
LEMMA RefinedStep ==
  ASSUME PullInv, Next
  PROVE  Intake!Next \/ Unseen
<1>1. CASE Remote
  BY <1>1, RemotePublishes, Zenon DEF Intake!Next
<1>2. ASSUME NEW l \in Links, EnsureLink(l) PROVE Unseen
  <2>1. links \in [Links -> Link] /\ links[l] = NoLink
    BY <1>2, Zenon DEF EnsureLink, GetOrCreateLink, PullInv, TypeOK, StoreTypeOK
  <2>2. \A m \in Links : links'[m].pull = links[m].pull
    BY <1>2, <2>1 DEF EnsureLink, GetOrCreateLink, NoLink
  <2> QED
    BY <1>2, <2>2, Zenon DEF EnsureLink, GetOrCreateLink, pullVars, Unseen, Checkpoints
<1>3. ASSUME NEW w \in Workers, PullPage(w) PROVE Intake!Next \/ Unseen
  <2>1. CASE PullCommit(w)
    BY <2>1, CommitAdvances, Zenon DEF Intake!Next, Checkpoints
  <2>2. ASSUME NEW r \in Todo(w), PullAdmitted(w, r) PROVE Intake!Next
    <3>1. r.cid \in Cids
      BY <2>2, Zenon DEF PullInv, TypeOK, Todo, Puller, Receipt
    <3> QED
      BY <2>2, <3>1, Zenon DEF PullAdmitted, storeVars, Intake!Handle, Intake!Next
  <2>3. CASE \/ \E l \in Links : PullStart(w, l)
             \/ PullQuery(w) \/ PullCommitRefused(w) \/ PullAbort(w)
             \/ \E r \in Todo(w) : PullDeferred(w, r)
    BY <2>3, Zenon DEF PullStart, PullQuery, PullCommitRefused, PullAbort, PullDeferred,
                storeVars, Unseen, Checkpoints
  <2> QED
    BY <1>3, <2>1, <2>2, <2>3, Zenon DEF PullPage
<1>4. ASSUME NEW p \in Projections, Retry(p) PROVE Intake!Next \/ Unseen
  <2>1. CASE RetryMaterialized(p)
    <3>1. retriers[p].cid \in Cids
      BY <2>1, Zenon DEF RetryMaterialized, PullInv, TypeOK
    <3> QED
      BY <2>1, <3>1, Zenon DEF RetryMaterialized, storeVars, Intake!Handle, Intake!Next
  <2>2. CASE RetrySettle(p) \/ RetryCrash(p)
    <3>1. retriers[p].cid \in local
      BY <2>2, Zenon DEF RetrySettle, RetryCrash, PullInv, RetriesMaterialized
    <3>2. /\ quarantine' \subseteq quarantine /\ UNCHANGED <<links, source, local>>
          /\ \A r \in quarantine \ quarantine' : r.cid = retriers[p].cid
      BY <2>2, Zenon DEF RetrySettle, RetryCrash, SettleQuarantineForProjection,
                  SettleQuarantineInterrupted
    <3> QED
      BY <3>1, <3>2, StoreReleases, Zenon DEF Intake!Next
  <2>3. CASE RetryPending(p) \/ \E r \in quarantine : RetrySelect(p, r)
    BY <2>3, Zenon DEF RetryPending, RetrySelect, storeVars, Unseen, Checkpoints
  <2> QED
    BY <1>4, <2>1, <2>2, <2>3, Zenon DEF Retry
<1>5. CASE Cleaning
  <2>1. CASE CleanerRemove
    <3>1. /\ cleaner.link \in Links /\ links \in [Links -> Link]
          /\ UNCHANGED <<source, local>>
      BY <1>5, <2>1, Zenon DEF Cleaning, pullVars, CleanerRemove, PullInv, TypeOK, StoreTypeOK
    <3>2. /\ links' = [links EXCEPT ![cleaner.link] = NoLink]
          /\ quarantine' \subseteq quarantine
          /\ \A r \in quarantine \ quarantine' : r.link = cleaner.link
      BY <2>1, Zenon DEF CleanerRemove, RetireLink, DeleteLinkAndPendingWork
    <3>3. \A l \in Links : IF l = cleaner.link THEN links'[l].pull = NoToken
                                               ELSE links'[l].pull = links[l].pull
      BY <3>1, <3>2, Zenon DEF NoLink
    <3> QED
      BY <3>1, <3>2, <3>3, StoreReleases, Zenon DEF Intake!Next
  <2>2. CASE ~CleanerRemove
    BY <1>5, <2>2, Zenon DEF Cleaning, Cleanup, CleanerList, CleanerStale, pullVars,
                      Unseen, Checkpoints
  <2> QED
    BY <2>1, <2>2, Zenon
<1>6. CASE Reset
  <2>1. UNCHANGED <<source, local>> /\ links \in [Links -> Link]
    BY <1>6, Zenon DEF Reset, pullVars, PullInv, TypeOK, StoreTypeOK
  <2>2. ASSUME NEW l \in Links, ClearLink(l) PROVE Intake!Next
    <3>1. \A m \in Links : links'[m].pull = links[m].pull \/ links'[m].pull = NoToken
      BY <2>1, <2>2, Zenon DEF ClearLink, NoLink
    <3>2. quarantine' = quarantine
      BY <2>2, Zenon DEF ClearLink
    <3> QED
      BY <2>1, <3>1, <3>2, StoreReleases, Zenon DEF Intake!Next
  <2>3. CASE ClearRow
    <3>1. \A l \in Links : links'[l].pull = NoToken
      BY <2>3 DEF ClearRow, PullInv, RowsClearedLast, NoLink
    <3>2. quarantine' \subseteq quarantine /\ \A r \in quarantine : r.link \in Links
      BY <2>3, Zenon DEF ClearRow, PullInv, TypeOK, StoreTypeOK, Receipt
    <3> QED
      BY <2>1, <3>1, <3>2, StoreReleases, Zenon DEF Intake!Next
  <2>4. CASE StartClear \/ LinksCleared \/ ClearDone \/ ClearInterrupted
    BY <2>1, <2>4, Zenon DEF StartClear, LinksCleared, ClearDone, ClearInterrupted,
                      Unseen, Checkpoints
  <2> QED
    BY <1>6, <2>2, <2>3, <2>4, Zenon DEF Reset, Clear
<1> QED
  BY <1>1, <1>2, <1>3, <1>4, <1>5, <1>6, Zenon DEF Next

\* Racing pages, retries, cleanups, resets and crashes implement the abstract
\* intake: a checkpoint passes only what is handled or owed, and what is owed
\* is dropped only when handled or when its link starts over.
THEOREM RefinesIntake == Spec => ImplementsIntake
<1>1. Init => Intake!Init
  <2> SUFFICES ASSUME Init PROVE Intake!Init
    BY Zenon
  <2>1. \A l \in Links : source[l].rows = {} /\ source[l].head = 0
    BY Zenon DEF Init, PullInit
  <2>2. [l \in Links |-> links[l].pull] = [l \in Links |-> Intake!Start]
    BY Zenon DEF Init, StoreInit, NoLink, NoToken, Intake!Start
  <2>3. quarantine = {} /\ local = {}
    BY Zenon DEF Init, PullInit, StoreInit
  <2> QED
    BY <2>1, <2>2, <2>3, Zenon DEF Intake!Init
<1>2. PullInv /\ [Next]_vars => [Intake!Next]_(Intake!vars)
  <2> SUFFICES ASSUME PullInv, [Next]_vars PROVE [Intake!Next]_(Intake!vars)
    BY Zenon
  <2>1. CASE Next
    BY <2>1, RefinedStep, Zenon DEF Unseen, Checkpoints, Intake!vars
  <2>2. CASE UNCHANGED vars
    BY <2>2, Zenon DEF vars, storeVars, pullVars, Intake!vars
  <2> QED
    BY <2>1, <2>2, Zenon
<1> QED
  BY <1>1, <1>2, PullInvariant, PTL DEF Spec, ImplementsIntake, Intake!Spec

-----------------------------------------------------------------------------
\* Capacity is a count, so what is counted has to be finite: the rows in the
\* quarantine and in every page in flight.
CapacityInv ==
  /\ IsFiniteSet(quarantine)
  /\ \A w \in Workers : IsFiniteSet(pullers[w].page)
  /\ QuarantineWithinCapacity

\* Dropping rows does not exceed a limit.
LEMMA FewerRowsFit ==
  ASSUME NEW rows, IsFiniteSet(rows), NEW fewer \in SUBSET rows,
         WithinQuarantineCapacity(rows)
  PROVE  IsFiniteSet(fewer) /\ WithinQuarantineCapacity(fewer)
<1> DEFINE Heavy(S) == {r \in S : r.cid \in HeavyCids}
<1>1. IsFiniteSet(fewer) /\ Cardinality(fewer) <= Cardinality(rows)
  BY FS_Subset, Zenon
<1>2. Heavy(rows) \in SUBSET rows /\ Heavy(fewer) \in SUBSET Heavy(rows)
  BY Zenon
<1>3. IsFiniteSet(Heavy(rows)) /\ IsFiniteSet(Heavy(fewer))
      /\ Cardinality(Heavy(fewer)) <= Cardinality(Heavy(rows))
  BY <1>2, FS_Subset, Zenon
<1> HIDE DEF Heavy
<1>4. /\ Cardinality(rows) \in Nat /\ Cardinality(fewer) \in Nat
      /\ Cardinality(Heavy(rows)) \in Nat /\ Cardinality(Heavy(fewer)) \in Nat
  BY <1>1, <1>3, FS_CardinalityType, Zenon
<1>5. /\ Cardinality(rows) <= MaxQuarantine
      /\ Cardinality(rows) + Cardinality(Heavy(rows)) <= MaxQuarantineBytes
  BY Zenon DEF WithinQuarantineCapacity, Heavy
<1>6. /\ Cardinality(fewer) <= MaxQuarantine
      /\ Cardinality(fewer) + Cardinality(Heavy(fewer)) <= MaxQuarantineBytes
  BY <1>1, <1>3, <1>4, <1>5, StoreAssumption
<1> QED
  BY <1>1, <1>6, Zenon DEF WithinQuarantineCapacity, Heavy

\* A page is finite, as the feed's rows are.
LEMMA QueriedPageFinite ==
  ASSUME PullInv, NEW w \in Workers, PullQuery(w)
  PROVE  IsFiniteSet(pullers'[w].page)
<1> DEFINE q == pullers[w].snap
           f == source[q.link]
           rows == PageRows(f, q.pull.position)
           page == {ReceiptOf(q.link, f.domain, r) : r \in rows}
           g == [r \in rows |-> ReceiptOf(q.link, f.domain, r)]
<1>1. pullers'[w].page = page
  <2>1. pullers \in [Workers -> Puller]
    BY Zenon DEF PullInv, TypeOK
  <2>2. PICK end : pullers' = [pullers EXCEPT ![w] =
          [phase |-> "page", snap |-> q, cursor |-> [domain |-> f.domain, position |-> end],
           page |-> page, settled |-> {}, pending |-> {}]]
    BY Zenon DEF PullQuery
  <2> QED
    BY <2>1, <2>2, Zenon
<1>2. q.link \in Links
  BY Zenon DEF PullQuery, PullInv, TypeOK, Puller, Snapshot
<1>3. IsFiniteSet(rows)
  <2>1. rows \in SUBSET f.rows
    BY Zenon DEF PageRows, RowsAfter
  <2>2. IsFiniteSet(f.rows)
    BY <1>2, Zenon DEF PullInv, FeedsBounded
  <2> HIDE DEF rows, f
  <2> QED
    BY <2>1, <2>2, FS_Subset, Zenon
<1> HIDE DEF rows
<1>4. g \in Surjection(rows, page)
  BY Zenon DEF Surjection
<1> HIDE DEF g, page
<1> QED
  BY <1>1, <1>3, <1>4, FS_Surjection, Zenon

\* Only a query and a commit could add to what is counted.
LEMMA CapacityNext ==
  ASSUME PullInv, CapacityInv, Next
  PROVE  CapacityInv'
<1>1. pullers \in [Workers -> Puller]
  BY Zenon DEF PullInv, TypeOK
<1>2. ASSUME quarantine' \subseteq quarantine,
             \A w \in Workers : pullers'[w].page \in {pullers[w].page, {}}
      PROVE  CapacityInv'
  BY <1>2, FewerRowsFit, FS_EmptySet, Zenon DEF CapacityInv, QuarantineWithinCapacity
<1>3. CASE Remote
  BY <1>2, <1>3, RemoteStep, Zenon DEF PullInv, storeVars
<1>4. ASSUME NEW l \in Links, EnsureLink(l) PROVE CapacityInv'
  BY <1>2, <1>4, Zenon DEF EnsureLink, GetOrCreateLink, pullVars
<1>5. ASSUME NEW w \in Workers, PullPage(w) PROVE CapacityInv'
  <2>1. CASE PullQuery(w)
    <3>1. quarantine' = quarantine /\ \A v \in Workers \ {w} : pullers'[v] = pullers[v]
      BY <1>1, <2>1, Zenon DEF PullQuery, storeVars
    <3> QED
      BY <2>1, <3>1, QueriedPageFinite, Zenon DEF CapacityInv, QuarantineWithinCapacity
  <2>2. CASE PullCommit(w)
    <3> DEFINE p == pullers[w]
               rows == (quarantine \cup p.pending) \ p.settled
    <3>1. /\ quarantine' = rows /\ (p.pending # {} => WithinQuarantineCapacity(rows))
          /\ pullers' = [pullers EXCEPT ![w] = IdlePuller]
      BY <2>2, Zenon DEF PullCommit, CommitPullPage, PullPageAccepted
    <3>2. \A v \in Workers : pullers'[v].page \in {pullers[v].page, {}}
      BY <1>1, <3>1, Zenon DEF IdlePuller
    <3>3. CASE p.pending = {}
      BY <1>2, <3>1, <3>2, <3>3, Zenon
    <3>4. CASE p.pending # {}
      <4>1. IsFiniteSet(p.page) /\ p.pending \in SUBSET p.page /\ IsFiniteSet(quarantine)
        BY Zenon DEF CapacityInv, PullInv, TypeOK
      <4>2. IsFiniteSet(quarantine \cup p.pending)
        BY <4>1, FS_Subset, FS_Union, Zenon
      <4>3. IsFiniteSet(rows)
        BY <4>2, FS_Subset, rows \in SUBSET (quarantine \cup p.pending), Zenon
      <4> QED
        BY <3>1, <3>2, <3>4, <4>3, FS_EmptySet, Zenon DEF CapacityInv, QuarantineWithinCapacity
    <3> QED
      BY <3>3, <3>4, Zenon
  <2>3. CASE \/ \E l \in Links : PullStart(w, l)
             \/ PullCommitRefused(w) \/ PullAbort(w)
    <3>1. quarantine' = quarantine
      BY <2>3, Zenon DEF PullStart, PullCommitRefused, PullAbort, storeVars
    <3>2. \E p : pullers' = [pullers EXCEPT ![w] = p] /\ p.page = {}
      <4>1. ASSUME NEW l \in Links, PullStart(w, l)
            PROVE  \E p : pullers' = [pullers EXCEPT ![w] = p] /\ p.page = {}
        <5> DEFINE p == [IdlePuller EXCEPT !.phase = "query", !.snap = SnapshotOf(l)]
        <5>1. pullers' = [pullers EXCEPT ![w] = p]
          BY <4>1, Zenon DEF PullStart
        <5>2. p.page = {}
          BY Zenon DEF IdlePuller
        <5> QED
          BY <5>1, <5>2, Zenon
      <4>2. CASE PullCommitRefused(w) \/ PullAbort(w)
        <5>1. IdlePuller.page = {}
          BY Zenon DEF IdlePuller
        <5> QED
          BY <4>2, <5>1, Zenon DEF PullCommitRefused, PullAbort
      <4> QED
        BY <2>3, <4>1, <4>2, Zenon
    <3> QED
      BY <1>1, <1>2, <3>1, <3>2, Zenon
  <2>4. CASE \E r \in Todo(w) : PullAdmitted(w, r) \/ PullDeferred(w, r)
    BY <1>1, <1>2, <2>4 DEF PullAdmitted, PullDeferred, Puller, storeVars
  <2> QED
    BY <1>5, <2>1, <2>2, <2>3, <2>4, Zenon DEF PullPage
<1>6. ASSUME NEW p \in Projections, Retry(p) PROVE CapacityInv'
  <2>1. quarantine' \subseteq quarantine /\ pullers' = pullers
    BY <1>6, Zenon
       DEF Retry, RetrySelect, RetryMaterialized, RetrySettle, RetryCrash, RetryPending,
                SettleQuarantineForProjection, SettleQuarantineInterrupted, storeVars
  <2> QED
    BY <1>2, <2>1, Zenon
<1>7. CASE Cleaning
  <2>1. quarantine' \subseteq quarantine /\ pullers' = pullers
    BY <1>7, Zenon DEF Cleaning, Cleanup, CleanerList, CleanerRemove, CleanerStale, RetireLink,
                DeleteLinkAndPendingWork, pullVars
  <2> QED
    BY <1>2, <2>1, Zenon
<1>8. CASE Reset
  <2>1. quarantine' \subseteq quarantine /\ pullers' = pullers
    BY <1>8, Zenon DEF Reset, Clear, StartClear, ClearLink, LinksCleared, ClearRow, ClearDone,
                ClearInterrupted, pullVars
  <2> QED
    BY <1>2, <2>1, Zenon
<1> QED
  BY <1>3, <1>4, <1>5, <1>6, <1>7, <1>8, Zenon DEF Next

\* The tenant's quarantine keeps within its row and byte limits, however many
\* pages of however many links race for the last slots.
THEOREM WithinCapacity == Spec => []QuarantineWithinCapacity
<1>1. Init => CapacityInv
  <2> SUFFICES ASSUME Init PROVE CapacityInv
    BY Zenon
  <2>1. quarantine = {} /\ \A w \in Workers : pullers[w].page = {}
    BY Zenon DEF Init, StoreInit, PullInit, IdlePuller
  <2>2. {r \in {} : r.cid \in HeavyCids} = {}
    BY Zenon
  <2>3. Cardinality({}) = 0
    BY FS_EmptySet, Zenon
  <2>4. WithinQuarantineCapacity({})
    BY <2>2, <2>3, StoreAssumption DEF WithinQuarantineCapacity
  <2> QED
    BY <2>1, <2>4, FS_EmptySet, Zenon DEF CapacityInv, QuarantineWithinCapacity
<1>2. PullInv /\ CapacityInv /\ [Next]_vars => CapacityInv'
  <2>1. CapacityInv /\ UNCHANGED vars => CapacityInv'
    BY Zenon DEF CapacityInv, QuarantineWithinCapacity, vars, storeVars, pullVars
  <2> QED
    BY <2>1, CapacityNext, Zenon
<1>3. CapacityInv => QuarantineWithinCapacity
  BY Zenon DEF CapacityInv
<1> QED
  BY <1>1, <1>2, <1>3, PullInvariant, PTL DEF Spec
=============================================================================
