------------------------- MODULE SyncNextPushProofs --------------------------
(***************************************************************************)
(* Machine-checked theorems about SyncNextPush, for every set of links,    *)
(* records, CIDs and workers and for every bound: the outbound engine      *)
(* loses nothing.                                                          *)
(*                                                                         *)
(* PushNoLoss is not inductive.  A commit is sound because of what the     *)
(* page attempt read and did before, and dropping a covered obligation is  *)
(* sound because the write that covers it was the record's latest state    *)
(* when it was read: PushInv says what stays true of entries in flight     *)
(* while the feed moves on.                                                *)
(*                                                                         *)
(* First the definitions and what the steps do to the shape of every       *)
(* variable; then the steps of the feed, the store and the links, those    *)
(* that work on a page or an obligation, the theorems, and what a retry or *)
(* a commit may do to the obligations.                                     *)
(***************************************************************************)
EXTENDS SyncNextPush, FiniteSetTheorems, TLAPS

\* While a reset removes pending rows there is no link.
RowsClearedLast == clearing = "rows" => \A l \in Links : links[l] = NoLink

\* The feed: rows at issued positions, one to a position and one to a CID,
\* and the latest state of a record is one of its rows.
FeedSound(f, cur) ==
  /\ IsFiniteSet(f.rows)
  /\ \A r \in f.rows : r.position <= f.head
  /\ \A r, s \in f.rows : r.position = s.position \/ r.cid = s.cid => r = s
  /\ \A x \in Records : cur[x] # None =>
       \E r \in f.rows : r.cid = cur[x] /\ r.record = x

\* A token never runs ahead of the feed.
NotAhead(t, f) ==
  /\ t.domain # None => t.domain <= f.domain
  /\ t.domain = f.domain => t.position <= f.head

\* An entry names a former or present position of the feed.  While the row is
\* there the entry describes it; if it was its record's latest state, no row
\* before it is the latest state now.
EntrySound(o, f, cur) ==
  /\ NotAhead(o, f)
  /\ o.domain = f.domain => \A r \in f.rows :
       /\ r.position = o.position =>
            r.cid = o.cid /\ o.record = IF r.write THEN r.record ELSE None
       /\ o.latest /\ o.record = r.record /\ cur[r.record] = r.cid =>
            o.position <= r.position

\* That holds of every obligation, acknowledged entry and entry in flight.
EntriesSound(p, f, cur) ==
  \A o \in p.page \cup p.selected : EntrySound(o, f, cur)

AllSound ==
  /\ \A o \in delivery : EntrySound(o, feed, current)
  /\ \A l \in Links : \A o \in acked[l] : EntrySound(o, feed, current)
  /\ \A w \in Workers : EntriesSound(pushers[w], feed, current)

\* What is left of a page: entries neither pending nor settled.
Left(p) == {e \in p.page : e \notin p.pending /\ KeyOf(e) \notin p.settled}

\* The dispositions of a page: one entry to a position, classified from the
\* first on; what it settled, and the writes it remembers, are acknowledged.
PageClassified(p, ack) ==
  /\ IsFiniteSet(p.page)
  /\ \A e \in p.page : /\ e.link = p.snap.link /\ e.domain = p.cursor.domain
                        /\ e.position <= p.cursor.position
  /\ \A e, o \in p.page : e.position = o.position => e = o
  /\ p.pending \subseteq p.page
  /\ p.settled \subseteq {KeyOf(e) : e \in p.page}
  /\ \A e \in p.page \ Left(p), o \in Left(p) : e.position < o.position
  /\ \A k \in p.settled : \E a \in ack : a.cid = k.cid
  /\ \A h \in p.handled : \E a \in ack :
       a.latest /\ a.record = h.record /\ a.domain = h.domain /\ a.position = h.position

\* A page holds every live row between the checkpoint it was queried from and
\* its cursor.
PageComplete(p, f) ==
  /\ p.snap.push = NoToken \/ p.snap.push.domain = p.cursor.domain
  /\ p.cursor.domain # None
  /\ NotAhead(p.cursor, f)
  /\ p.cursor.domain = f.domain => \A r \in f.rows :
       p.snap.push.position < r.position /\ r.position <= p.cursor.position =>
         \E e \in p.page : e.position = r.position

\* That stays true of every page in flight.
PagesSound ==
  \A w \in Workers : pushers[w].phase = "page" =>
    /\ PageClassified(pushers[w], acked[pushers[w].snap.link])
    /\ PageComplete(pushers[w], feed)

\* Nothing is classified before the page is read.
Fresh(p) == p.phase = "query" => p.settled = {} /\ p.pending = {} /\ p.handled = {}

NothingClassified == \A w \in Workers : Fresh(pushers[w])

\* A retry selected one obligation, of its own link, and settles it only when
\* the endpoint has acknowledged it.
RetriesSound ==
  \A w \in Workers : \A d \in pushers[w].selected :
    /\ pushers[w].selected = {d}
    /\ d.link = pushers[w].snap.link
    /\ pushers[w].phase = "delivered" =>
         [d EXCEPT !.attempt = 0] \in acked[d.link]

CheckpointsNotAhead == \A l \in Links : NotAhead(links[l].push, feed)

\* The inductive invariant.
PushInv ==
  /\ TypeOK
  /\ FeedSound(feed, current)
  /\ AllSound
  /\ PagesSound
  /\ NothingClassified
  /\ RetriesSound
  /\ CheckpointsNotAhead
  /\ RowsClearedLast
  /\ PushNoLoss

-----------------------------------------------------------------------------
(* The store, as in SyncNextPullProofs. *)

\* The store's own steps keep the store well shaped.
LEMMA EnsureLinkType ==
  ASSUME StoreTypeOK, NEW l \in Links, GetOrCreateLink(l)
  PROVE  StoreTypeOK'
<1> USE StoreAssumption
<1> DEFINE new == [lifetime |-> lifetimes + 1, pull |-> NoToken, push |-> NoToken]
<1>1. links' = [links EXCEPT ![l] = new]
  BY Zenon DEF GetOrCreateLink, NoLink
<1>2. lifetimes' = lifetimes + 1 /\ lifetimes' \in 0 .. MaxLifetimes
  BY DEF GetOrCreateLink, StoreTypeOK
<1>3. new \in Link /\ new.lifetime # 0
  BY <1>2 DEF Link, Token, NoToken, StoreTypeOK
<1> HIDE DEF new
<1>4. new.lifetime = lifetimes'
  BY <1>2, Zenon DEF new
<1>5. links' \in [Links -> Link]
  BY <1>1, <1>3, Zenon DEF StoreTypeOK
<1>6. ASSUME NEW m \in Links
      PROVE  links'[m].lifetime <= lifetimes' /\ (links'[m].lifetime = 0 => links'[m] = NoLink)
  BY <1>1, <1>2, <1>3, <1>4 DEF StoreTypeOK, Link
<1> QED
  BY <1>2, <1>5, <1>6, Zenon DEF GetOrCreateLink, StoreTypeOK

\* Removing a link, as retirement, deletion and resets do, keeps the links'
\* shape.
LEMMA LinkRemovedType ==
  ASSUME StoreTypeOK, NEW l \in Links, links' = [links EXCEPT ![l] = NoLink],
         lifetimes' = lifetimes
  PROVE  /\ links' \in [Links -> Link]
         /\ \A m \in Links : /\ links'[m].lifetime <= lifetimes'
                             /\ links'[m].lifetime = 0 => links'[m] = NoLink
<1>1. NoLink \in Link /\ NoLink.lifetime = 0
  BY Zenon DEF NoLink, Link, Token, NoToken
<1>2. lifetimes \in Nat /\ 0 <= lifetimes
  BY StoreAssumption DEF StoreTypeOK
<1> QED
  BY <1>1, <1>2, Zenon DEF StoreTypeOK

\* Listing and removing links keeps the shape of every variable.
LEMMA CleanupType ==
  ASSUME StoreTypeOK, Cleanup
  PROVE  StoreTypeOK'
<1>1. ASSUME NEW l \in Links, CleanerList(l) PROVE StoreTypeOK'
  <2>1. [link |-> l, lifetime |-> links[l].lifetime] \in [link : Links, lifetime : Nat]
    BY Zenon DEF StoreTypeOK, Link
  <2> QED
    BY <1>1, <2>1, Zenon DEF CleanerList, StoreTypeOK
<1>2. CASE CleanerRemove
  <2>1. cleaner.link \in Links
    BY <1>2, Zenon DEF CleanerRemove, StoreTypeOK
  <2>2. /\ links' = [links EXCEPT ![cleaner.link] = NoLink]
        /\ lifetimes' = lifetimes /\ clearing' = clearing
        /\ delivery' \subseteq delivery /\ quarantine' \subseteq quarantine
        /\ cleaner' = NoLifetime
    BY <1>2, Zenon DEF CleanerRemove, RetireLink, DeleteLinkAndPendingWork
  <2> QED
    BY <2>1, <2>2, LinkRemovedType, Zenon DEF StoreTypeOK
<1>3. CASE CleanerStale
  BY <1>3, Zenon DEF CleanerStale, StoreTypeOK
<1> QED
  BY <1>1, <1>2, <1>3, Zenon DEF Cleanup

\* Every write of a reset keeps the shape of the store.
LEMMA ClearType ==
  ASSUME StoreTypeOK, Clear
  PROVE  StoreTypeOK'
<1>1. CASE StartClear
  BY <1>1, Zenon DEF StartClear, StoreTypeOK
<1>2. ASSUME NEW l \in Links, ClearLink(l) PROVE StoreTypeOK'
  BY <1>2, LinkRemovedType, Zenon DEF ClearLink, StoreTypeOK
<1>3. CASE LinksCleared
  BY <1>3, Zenon DEF LinksCleared, StoreTypeOK
<1>4. CASE ClearRow
  BY <1>4, Zenon DEF ClearRow, StoreTypeOK
<1>5. CASE ClearDone
  BY <1>5, Zenon DEF ClearDone, StoreTypeOK
<1>6. CASE ClearInterrupted
  BY <1>6, Zenon DEF ClearInterrupted, StoreTypeOK
<1> QED
  BY <1>1, <1>2, <1>3, <1>4, <1>5, <1>6, Zenon DEF Clear

-----------------------------------------------------------------------------
\* The initial state has the right shape: no link, idle workers, an empty feed.
LEMMA TypeInit == Init => TypeOK
<1> SUFFICES ASSUME Init PROVE TypeOK
  BY Zenon
<1> USE StoreAssumption, PushAssumption
<1>1. NoToken \in Token /\ NoLink \in Link
  BY Zenon DEF NoToken, Token, NoLink, Link
<1>2. StoreTypeOK
  BY <1>1 DEF Init, StoreInit, StoreTypeOK, NoLink
<1>3. feed \in Feed
  BY DEF Init, PushInit, Feed, Domains
<1>4. IdlePusher \in Pusher /\ IdlePusher.phase = "idle"
  BY <1>1, Zenon DEF IdlePusher, Pusher
<1> QED
  BY <1>2, <1>3, <1>4, Zenon DEF Init, PushInit, TypeOK

\* What each worker holds has its shape.
PushersOK ==
  /\ pushers \in [Workers -> Pusher]
  /\ \A w \in Workers : pushers[w].phase # "idle" => pushers[w].snap # NoSnapshot

\* A worker may take up any well-formed attempt.
LEMMA PushersUpdated ==
  ASSUME PushersOK, NEW w \in Workers, NEW p \in Pusher,
         p.phase # "idle" => p.snap # NoSnapshot,
         pushers' = [pushers EXCEPT ![w] = p]
  PROVE  PushersOK' /\ \A v \in Workers : pushers'[v] = IF v = w THEN p ELSE pushers[v]
  BY Zenon DEF PushersOK

\* An idle worker holds nothing.
LEMMA IdlePusherOK ==
  /\ IdlePusher \in Pusher
  /\ IdlePusher.phase = "idle"
  /\ IdlePusher.page = {} /\ IdlePusher.selected = {} /\ IdlePusher.pending = {}
  BY Zenon DEF IdlePusher, Pusher, NoToken, Token

\* A busy worker's snapshot is of one of the links.
LEMMA BusySnapshot ==
  ASSUME TypeOK, NEW w \in Workers, pushers[w].phase # "idle"
  PROVE  /\ pushers[w] \in Pusher /\ pushers[w].snap \in Snapshot
         /\ pushers[w].snap.link \in Links /\ pushers[w].snap.push \in Token
  BY Zenon DEF TypeOK, Pusher, Snapshot

\* Starting a page or a retry takes a snapshot of a stored link.
LEMMA StartStep ==
  ASSUME TypeOK, NEW w \in Workers, NEW l \in Links,
         PushStart(w, l) \/ RetryStart(w, l)
  PROVE  \E p \in Pusher :
           /\ pushers' = [pushers EXCEPT ![w] = p]
           /\ p.phase \in {"query", "select"} /\ p.snap # NoSnapshot
           /\ p.page = {} /\ p.selected = {} /\ Fresh(p)
<1> DEFINE p(phase) == [IdlePusher EXCEPT !.phase = phase, !.snap = SnapshotOf(l)]
<1>1. SnapshotOf(l) \in Snapshot /\ SnapshotOf(l) # NoSnapshot
  BY Zenon DEF SnapshotOf, Snapshot, NoSnapshot, PushStart, RetryStart, TypeOK, StoreTypeOK,
         Link
<1>2. ASSUME NEW phase \in {"query", "select"}
      PROVE  /\ p(phase) \in Pusher /\ p(phase).phase = phase
             /\ p(phase).snap = SnapshotOf(l)
             /\ p(phase).page = {} /\ p(phase).selected = {}
             /\ p(phase).settled = {} /\ p(phase).pending = {} /\ p(phase).handled = {}
  BY <1>1, Zenon DEF IdlePusher, Pusher, NoToken, Token
<1>3. \E phase \in {"query", "select"} : pushers' = [pushers EXCEPT ![w] = p(phase)]
  BY Zenon DEF PushStart, RetryStart
<1> HIDE DEF p
<1> QED
  BY <1>1, <1>2, <1>3, Zenon DEF Fresh

\* A queried page is made of obligations, with a token of the feed as its
\* cursor.
LEMMA QueryStep ==
  ASSUME TypeOK, NEW w \in Workers, PushQuery(w)
  PROVE  \E p \in Pusher, end \in 0 .. MaxHead :
           /\ pushers' = [pushers EXCEPT ![w] = p]
           /\ IsPageEnd(feed, pushers[w].snap.push.position, end)
           /\ p.phase = "page" /\ p.snap = pushers[w].snap
           /\ p.cursor = [domain |-> feed.domain, position |-> end]
           /\ p.page = {DeliveryInput(p.snap.link, feed.domain, r) :
                          r \in PageRows(feed, p.snap.push.position)}
           /\ p.settled = pushers[w].settled /\ p.pending = pushers[w].pending
           /\ p.handled = pushers[w].handled /\ p.selected = pushers[w].selected
<1> USE StoreAssumption, PushAssumption
<1> DEFINE q == pushers[w].snap
           page == {DeliveryInput(q.link, feed.domain, r) :
                      r \in PageRows(feed, q.push.position)}
           p(end) == [pushers[w] EXCEPT
                        !.phase = "page",
                        !.cursor = [domain |-> feed.domain, position |-> end],
                        !.page = page]
<1>1. PICK end \in 0 .. MaxHead : /\ IsPageEnd(feed, q.push.position, end)
                                  /\ pushers' = [pushers EXCEPT ![w] = p(end)]
  BY Zenon DEF PushQuery
<1>2. pushers[w] \in Pusher /\ q.link \in Links
  BY BusySnapshot, Zenon DEF PushQuery
<1>3. [domain |-> feed.domain, position |-> end] \in Token
  BY DEF Token, Feed, TypeOK
<1>4. ASSUME NEW r \in PageRows(feed, q.push.position)
      PROVE  DeliveryInput(q.link, feed.domain, r) \in Obligation
  <2>1. r \in Row
    BY Zenon DEF PageRows, RowsAfter, Feed, TypeOK
  <2>2. /\ r.position \in Nat /\ r.cid \in Cids /\ feed.domain \in Domains
        /\ (IF r.write THEN r.record ELSE None) \in Records \cup {None}
    BY <2>1 DEF Row, Feed, TypeOK
  <2>3. (current[r.record] = r.cid) \in BOOLEAN
    BY Zenon
  <2> QED
    BY <1>2, <2>2, <2>3, Zenon DEF DeliveryInput, Obligation
<1>5. page \in SUBSET Obligation
  BY <1>4, Zenon
<1> HIDE DEF page
<1>6. /\ p(end) \in Pusher /\ p(end).phase = "page" /\ p(end).snap = q
      /\ p(end).cursor = [domain |-> feed.domain, position |-> end]
      /\ p(end).page = page
      /\ p(end).settled = pushers[w].settled /\ p(end).pending = pushers[w].pending
      /\ p(end).handled = pushers[w].handled /\ p(end).selected = pushers[w].selected
  BY <1>2, <1>3, <1>5, Zenon DEF Pusher
<1> HIDE DEF p
<1> QED
  BY <1>1, <1>6, Zenon DEF page

\* The key of an entry is a receipt.
LEMMA KeyType == \A o \in Obligation : KeyOf(o) \in Receipt
  BY Zenon DEF KeyOf, Obligation, Receipt

\* The remembered writes stay writes that were handled.
LEMMA RememberedType ==
  ASSUME NEW handled \in SUBSET HandledWrite, NEW e \in Obligation
  PROVE  RememberHandledWrite(handled, e) \in SUBSET HandledWrite
<1>1. CASE e.latest /\ e.record # None
  <2>1. [record |-> e.record, domain |-> e.domain, position |-> e.position]
          \in HandledWrite
    BY <1>1, Zenon DEF Obligation, HandledWrite
  <2> QED
    BY <1>1, <2>1, Zenon DEF RememberHandledWrite
<1>2. CASE ~(e.latest /\ e.record # None)
  BY <1>2, Zenon DEF RememberHandledWrite
<1> QED
  BY <1>1, <1>2, Zenon

\* What classifying one entry does to a page attempt.
Classifies(p, o) ==
  /\ p.phase = o.phase /\ p.snap = o.snap /\ p.cursor = o.cursor
  /\ p.page = o.page /\ p.selected = o.selected

\* An acknowledged entry is settled and, if current, remembered.
LEMMA AckedStep ==
  ASSUME TypeOK, NEW w \in Workers, NEW e \in Todo(w), PushAcked(w, e)
  PROVE  \E p \in Pusher :
           /\ pushers' = [pushers EXCEPT ![w] = p]
           /\ Classifies(p, pushers[w])
           /\ p.pending = pushers[w].pending
           /\ p.settled = pushers[w].settled \cup {KeyOf(e)}
           /\ p.handled = RememberHandledWrite(pushers[w].handled, e)
<1> DEFINE handled == RememberHandledWrite(pushers[w].handled, e)
           p == [pushers[w] EXCEPT !.settled = pushers[w].settled \cup {KeyOf(e)},
                                   !.handled = handled]
<1>1. pushers[w] \in Pusher /\ e \in Obligation
  BY Zenon DEF TypeOK, Todo, Pusher
<1>2. handled \in SUBSET HandledWrite
  BY <1>1, RememberedType, Zenon DEF Pusher
<1>3. pushers[w].settled \cup {KeyOf(e)} \in SUBSET Receipt
  BY <1>1, KeyType, Zenon DEF Pusher
<1>4. pushers' = [pushers EXCEPT ![w] = p]
  BY Zenon DEF PushAcked
<1> HIDE DEF handled
<1>5. /\ p \in Pusher /\ Classifies(p, pushers[w])
      /\ p.pending = pushers[w].pending /\ p.handled = handled
      /\ p.settled = pushers[w].settled \cup {KeyOf(e)}
  BY <1>1, <1>2, <1>3, Zenon DEF Pusher, Classifies
<1> QED
  BY <1>4, <1>5, Zenon DEF handled

\* A failed entry is pending.
LEMMA FailedStep ==
  ASSUME TypeOK, NEW w \in Workers, NEW e \in Todo(w), NEW blocks \in BOOLEAN,
         PushFailed(w, e, blocks)
  PROVE  \E p \in Pusher :
           /\ pushers' = [pushers EXCEPT ![w] = p]
           /\ Classifies(p, pushers[w])
           /\ p.pending = pushers[w].pending \cup {e}
           /\ p.settled = pushers[w].settled
           /\ p.handled = pushers[w].handled
<1> DEFINE p == [pushers[w] EXCEPT !.pending = pushers[w].pending \cup {e},
                                   !.blocked = blocks]
<1>1. pushers[w] \in Pusher /\ e \in Obligation
  BY Zenon DEF TypeOK, Todo, Pusher
<1>2. pushers' = [pushers EXCEPT ![w] = p]
  BY Zenon DEF PushFailed
<1>3. /\ p \in Pusher /\ Classifies(p, pushers[w])
      /\ p.pending = pushers[w].pending \cup {e} /\ p.settled = pushers[w].settled
      /\ p.handled = pushers[w].handled
  BY <1>1, Zenon DEF Pusher, Classifies
<1> QED
  BY <1>2, <1>3, Zenon

\* A retry holds the one obligation it selected.
LEMMA SelectStep ==
  ASSUME TypeOK, NEW w \in Workers, NEW d \in delivery, RetrySelect(w, d)
  PROVE  \E p \in Pusher :
           /\ pushers' = [pushers EXCEPT ![w] = p]
           /\ p.phase = "retry" /\ p.snap = pushers[w].snap
           /\ p.page = pushers[w].page /\ p.selected = {d}
<1> DEFINE p == [pushers[w] EXCEPT !.phase = "retry", !.selected = {d}]
<1>1. pushers[w] \in Pusher /\ d \in Obligation
  BY Zenon DEF TypeOK, StoreTypeOK
<1>2. pushers' = [pushers EXCEPT ![w] = p]
  BY Zenon DEF RetrySelect
<1>3. /\ p \in Pusher /\ p.phase = "retry" /\ p.snap = pushers[w].snap
      /\ p.page = pushers[w].page /\ p.selected = {d}
  BY <1>1, Zenon DEF Pusher
<1> QED
  BY <1>2, <1>3, Zenon

\* An acknowledged retry keeps what it selected.
LEMMA RetryAckedStep ==
  ASSUME TypeOK, NEW w \in Workers, NEW d \in pushers[w].selected, RetryAcked(w, d)
  PROVE  \E p \in Pusher :
           /\ pushers' = [pushers EXCEPT ![w] = p]
           /\ p.phase = "delivered" /\ p.snap = pushers[w].snap
           /\ p.page = pushers[w].page /\ p.selected = pushers[w].selected
<1> DEFINE p == [pushers[w] EXCEPT !.phase = "delivered"]
<1>1. pushers[w] \in Pusher
  BY Zenon DEF TypeOK
<1>2. pushers' = [pushers EXCEPT ![w] = p]
  BY Zenon DEF RetryAcked
<1>3. /\ p \in Pusher /\ p.phase = "delivered" /\ p.snap = pushers[w].snap
      /\ p.page = pushers[w].page /\ p.selected = pushers[w].selected
  BY <1>1, Zenon DEF Pusher
<1> QED
  BY <1>2, <1>3, Zenon

-----------------------------------------------------------------------------
\* What one step of the local store may do: rows are removed or appended above
\* the head, and no old row becomes the latest state; or the feed starts over
\* in a later domain.
FeedMoves(f, cur, g, new) ==
  \/ /\ g.domain = f.domain
     /\ f.head <= g.head
     /\ \A r \in g.rows :
          \/ r \in f.rows /\ (new[r.record] = r.cid => cur[r.record] = r.cid)
          \/ f.head < r.position /\ r.position <= g.head
  \/ /\ g.domain > f.domain
     /\ g.rows = {}

\* A row at the next position, and the feed with it in place of others.
NextRow(f, c, x, write) ==
  [position |-> f.head + 1, cid |-> c, record |-> x, write |-> write]

Appended(f, row, old) ==
  [domain |-> f.domain, head |-> f.head + 1, rows |-> (f.rows \ old) \cup {row}]

\* The row at the next position is a row.
LEMMA NextRowType ==
  ASSUME NEW f \in Feed, f.head < MaxHead, NEW c \in Cids, NEW x \in Records,
         NEW write, write \in BOOLEAN
  PROVE  /\ NextRow(f, c, x, write) \in Row
         /\ NextRow(f, c, x, write).position = f.head + 1
         /\ NextRow(f, c, x, write).cid = c
         /\ NextRow(f, c, x, write).record = x
<1>1. f.head + 1 \in 1 .. MaxHead
  BY PushAssumption DEF Feed
<1> QED
  BY <1>1, Zenon DEF Row, NextRow

\* Appending a row gives a feed again.
LEMMA AppendedFeed ==
  ASSUME NEW f \in Feed, f.head < MaxHead, IsFiniteSet(f.rows), NEW old,
         NEW row \in Row
  PROVE  /\ Appended(f, row, old) \in Feed
         /\ IsFiniteSet(Appended(f, row, old).rows)
         /\ Appended(f, row, old).domain = f.domain
         /\ Appended(f, row, old).head = f.head + 1
         /\ Appended(f, row, old).rows = (f.rows \ old) \cup {row}
<1>1. f.head + 1 \in 0 .. MaxHead
  BY PushAssumption DEF Feed
<1>2. (f.rows \ old) \cup {row} \in SUBSET Row
  BY Zenon DEF Feed
<1>3. IsFiniteSet((f.rows \ old) \cup {row})
  BY FS_Subset, FS_AddElement, IsFiniteSet(f.rows \ old), Zenon
<1> QED
  BY <1>1, <1>2, <1>3, Zenon DEF Feed, Appended

\* A new message: it displaces only rows of its record, and only if it becomes
\* the latest state.
LEMMA CommitMoves ==
  ASSUME TypeOK, FeedSound(feed, current),
         NEW record \in Records, NEW c \in Cids, NEW write \in BOOLEAN,
         NEW latest \in BOOLEAN, LocalCommit(record, c, write, latest)
  PROVE  /\ feed' \in Feed /\ current' \in [Records -> Cids \cup {None}]
         /\ FeedMoves(feed, current, feed', current')
         /\ FeedSound(feed', current')
<1> USE PushAssumption
<1> DEFINE row == NextRow(feed, c, record, write)
<1>1. PICK old \in SUBSET {r \in feed.rows : latest /\ r.record = record} :
        feed' = Appended(feed, row, old)
  BY Zenon DEF LocalCommit, TypeOK, Feed, Appended, NextRow
<1>2. feed \in Feed /\ feed.head < MaxHead /\ IsFiniteSet(feed.rows)
  BY Zenon DEF TypeOK, LocalCommit, FeedSound
<1>3. /\ feed' \in Feed /\ IsFiniteSet(feed'.rows)
      /\ feed'.domain = feed.domain /\ feed'.head = feed.head + 1
      /\ feed'.rows = (feed.rows \ old) \cup {row}
      /\ row.position = feed.head + 1 /\ row.cid = c /\ row.record = record
  BY <1>1, <1>2, NextRowType, AppendedFeed
<1>4. /\ current \in [Records -> Cids \cup {None}]
      /\ current' = IF latest THEN [current EXCEPT ![record] = c] ELSE current
      /\ \A r \in feed.rows : r.cid # c
  BY Zenon DEF LocalCommit, TypeOK
<1>5. feed.head \in Nat /\ \A r \in feed.rows : r.position \in Nat /\ r.record \in Records
  BY <1>2 DEF Feed, Row
<1> HIDE DEF row
<1>6. current' \in [Records -> Cids \cup {None}]
  BY <1>4, Zenon
<1>7. \A r \in feed.rows : current'[r.record] = r.cid => current[r.record] = r.cid
  BY <1>4, <1>5, Zenon
<1>8. FeedMoves(feed, current, feed', current')
  <2>1. feed.head <= feed.head + 1 /\ feed.head < row.position /\ row.position <= feed.head + 1
    BY <1>3, <1>5
  <2> QED
    BY <1>3, <1>7, <2>1, Zenon DEF FeedMoves
<1>9. FeedSound(feed', current')
  <2>1. \A r \in feed.rows : r.position <= feed.head /\ r.position # row.position
    BY <1>3, <1>5 DEF FeedSound
  <2>2. \A r \in feed'.rows : r.position <= feed'.head
    BY <1>3, <1>5, <2>1
  <2>3. \A r, s \in feed'.rows : r.position = s.position \/ r.cid = s.cid => r = s
    BY <1>3, <1>4, <2>1, Zenon DEF FeedSound
  <2>4. ASSUME NEW x \in Records, current'[x] # None
        PROVE  \E r \in feed'.rows : r.cid = current'[x] /\ r.record = x
    <3>1. CASE latest /\ x = record
      BY <1>3, <1>4, <3>1, Zenon
    <3>2. CASE ~(latest /\ x = record)
      <4>1. current'[x] = current[x]
        BY <1>4, <3>2, Zenon
      <4>2. PICK r \in feed.rows : r.cid = current[x] /\ r.record = x
        BY <2>4, <4>1, Zenon DEF FeedSound
      <4> QED
        BY <1>3, <3>2, <4>1, <4>2, Zenon
    <3> QED
      BY <3>1, <3>2, Zenon
  <2> QED
    BY <1>3, <2>2, <2>3, <2>4, Zenon DEF FeedSound
<1> QED
  BY <1>3, <1>6, <1>8, <1>9, Zenon

\* Data that arrives moves the record's only row to a fresh position.
LEMMA CompleteMoves ==
  ASSUME TypeOK, FeedSound(feed, current), NEW old \in feed.rows, LocalCompleteData(old)
  PROVE  /\ feed' \in Feed /\ current' \in [Records -> Cids \cup {None}]
         /\ FeedMoves(feed, current, feed', current')
         /\ FeedSound(feed', current')
<1> USE PushAssumption
<1> DEFINE row == NextRow(feed, old.cid, old.record, old.write)
<1>1. feed \in Feed /\ feed.head < MaxHead /\ IsFiniteSet(feed.rows) /\ old \in Row
  BY Zenon DEF TypeOK, LocalCompleteData, FeedSound, Feed
<1>2. old.cid \in Cids /\ old.record \in Records /\ old.write \in BOOLEAN
  BY <1>1, Zenon DEF Row
<1>3. [old EXCEPT !.position = feed.head + 1] = row
  BY <1>1 DEF Row, NextRow
<1>4. feed' = Appended(feed, row, {old})
  BY <1>3, Zenon DEF LocalCompleteData, TypeOK, Feed, Appended
<1>5. /\ feed' \in Feed /\ IsFiniteSet(feed'.rows)
      /\ feed'.domain = feed.domain /\ feed'.head = feed.head + 1
      /\ feed'.rows = (feed.rows \ {old}) \cup {row}
      /\ row.position = feed.head + 1 /\ row.cid = old.cid /\ row.record = old.record
  BY <1>1, <1>2, <1>4, NextRowType, AppendedFeed
<1>6. /\ current \in [Records -> Cids \cup {None}]
      /\ current' = [current EXCEPT ![old.record] = old.cid]
      /\ \A r \in feed.rows : r.record = old.record => r = old
  BY Zenon DEF LocalCompleteData, TypeOK
<1>7. feed.head \in Nat /\ \A r \in feed.rows : r.position \in Nat /\ r.record \in Records
  BY <1>1 DEF Feed, Row
<1> HIDE DEF row
<1>8. current' \in [Records -> Cids \cup {None}]
  BY <1>2, <1>6, Zenon
<1>9. \A r \in feed.rows \ {old} : current'[r.record] = current[r.record]
  BY <1>2, <1>6, <1>7, Zenon
<1>10. FeedMoves(feed, current, feed', current')
  <2>1. feed.head <= feed.head + 1 /\ feed.head < row.position /\ row.position <= feed.head + 1
    BY <1>5, <1>7
  <2> QED
    BY <1>5, <1>9, <2>1, Zenon DEF FeedMoves
<1>11. FeedSound(feed', current')
  <2>1. \A r \in feed.rows : r.position <= feed.head /\ r.position # row.position
    BY <1>5, <1>7 DEF FeedSound
  <2>2. \A r \in feed'.rows : r.position <= feed'.head
    BY <1>5, <1>7, <2>1
  <2>3. \A r \in feed.rows \ {old} : r.cid # row.cid
    BY <1>5, Zenon DEF FeedSound
  <2>4. \A r, s \in feed'.rows : r.position = s.position \/ r.cid = s.cid => r = s
    BY <1>5, <2>1, <2>3, Zenon DEF FeedSound
  <2>5. ASSUME NEW x \in Records, current'[x] # None
        PROVE  \E r \in feed'.rows : r.cid = current'[x] /\ r.record = x
    <3>1. CASE x = old.record
      BY <1>5, <1>6, <3>1, Zenon
    <3>2. CASE x # old.record
      <4>1. current'[x] = current[x]
        BY <1>6, <3>2, Zenon
      <4>2. PICK r \in feed.rows : r.cid = current[x] /\ r.record = x
        BY <2>5, <4>1, Zenon DEF FeedSound
      <4> QED
        BY <1>5, <3>2, <4>1, <4>2, Zenon
    <3> QED
      BY <3>1, <3>2, Zenon
  <2> QED
    BY <1>5, <2>2, <2>4, <2>5, Zenon DEF FeedSound
<1> QED
  BY <1>5, <1>8, <1>10, <1>11, Zenon

\* Every step of the local store is such a move and touches nothing else.
LEMMA LocalStep ==
  ASSUME TypeOK, FeedSound(feed, current), Local
  PROVE  /\ UNCHANGED <<storeVars, acked, pushers>>
         /\ feed' \in Feed /\ current' \in [Records -> Cids \cup {None}]
         /\ FeedMoves(feed, current, feed', current')
         /\ FeedSound(feed', current')
<1>1. UNCHANGED <<storeVars, acked, pushers>>
  BY Zenon DEF Local, LocalCommit, LocalCompleteData, LocalClear
<1>2. CASE LocalClear
  <2>1. feed' = [domain |-> feed.domain + 1, head |-> 0, rows |-> {}]
    BY <1>2, Zenon DEF LocalClear
  <2>2. feed.domain + 1 \in Domains /\ feed.domain + 1 > feed.domain
    BY <1>2, StoreAssumption DEF LocalClear, TypeOK, Feed, Domains
  <2>3. feed' \in Feed
    BY <2>1, <2>2, PushAssumption DEF Feed
  <2>4. current' \in [Records -> Cids \cup {None}] /\ \A x \in Records : current'[x] = None
    BY <1>2, Zenon DEF LocalClear
  <2>5. FeedMoves(feed, current, feed', current')
    BY <2>1, <2>2, Zenon DEF FeedMoves
  <2>6. FeedSound(feed', current')
    BY <2>1, <2>4, FS_EmptySet, Zenon DEF FeedSound
  <2> QED
    BY <1>1, <2>3, <2>4, <2>5, <2>6, Zenon
<1> QED
  BY <1>1, <1>2, CommitMoves, CompleteMoves, Zenon DEF Local

-----------------------------------------------------------------------------
\* A committed page retains only obligations that were there or are pending.
LEMMA DeliveryAfterRows ==
  ASSUME NEW q, NEW pending, NEW settled, NEW handled
  PROVE  DeliveryAfter(q, pending, settled, handled) \subseteq delivery \cup pending
  BY Zenon DEF DeliveryAfter

\* What a commit changes: the checkpoint of the current link, and obligations.
LEMMA PushCommitStep ==
  ASSUME TypeOK, NEW w \in Workers, PushCommit(w)
  PROVE  \E t \in PageTokens :
           LET p == pushers[w] IN
           /\ p \in Pusher /\ p.snap.link \in Links /\ t \in Token
           /\ p.phase = "page" /\ Unlocked /\ IsCurrent(p.snap)
           /\ IsPageCheckpoint(w, t)
           /\ PushPageAccepted(p.snap, t, Classified(w), PagePending(w), PageSettled(w),
                               p.handled)
           /\ delivery' = DeliveryAfter(p.snap, PagePending(w), PageSettled(w), p.handled)
           /\ links' = [links EXCEPT ![p.snap.link] =
                          [links[p.snap.link] EXCEPT !.push = t]]
           /\ pushers' = [pushers EXCEPT ![w] = IdlePusher]
           /\ UNCHANGED <<quarantine, lifetimes, clearing, cleaner, feed, current, acked>>
<1>1. pushers[w].phase = "page"
  BY Zenon DEF PushCommit, ReadyToCommit
<1>2. PageTokens \subseteq Token
  BY PushAssumption DEF PageTokens, Token
<1> QED
  BY <1>1, <1>2, BusySnapshot, Zenon DEF PushCommit, CommitPushPage, PushPageAccepted

\* A commit keeps the shape of links and obligations.
LEMMA PushCommitType ==
  ASSUME TypeOK, NEW w \in Workers, PushCommit(w)
  PROVE  PushersOK' /\ StoreTypeOK'
<1> USE StoreAssumption
<1> DEFINE p == pushers[w]
           link(t) == [links[p.snap.link] EXCEPT !.push = t]
<1>1. PICK t \in Token :
        /\ p \in Pusher /\ p.snap.link \in Links /\ IsCurrent(p.snap)
        /\ delivery' = DeliveryAfter(p.snap, PagePending(w), PageSettled(w), p.handled)
        /\ links' = [links EXCEPT ![p.snap.link] = link(t)]
        /\ pushers' = [pushers EXCEPT ![w] = IdlePusher]
        /\ UNCHANGED <<quarantine, lifetimes, clearing, cleaner>>
  BY PushCommitStep, Zenon
<1>2. PagePending(w) \subseteq Obligation
  BY <1>1, Zenon DEF PagePending, Pusher
<1>3. delivery' \subseteq Obligation
  BY <1>1, <1>2, DeliveryAfterRows, Zenon DEF TypeOK, StoreTypeOK
<1>4. links[p.snap.link] \in Link /\ links[p.snap.link].lifetime # 0
  BY <1>1, Zenon DEF TypeOK, StoreTypeOK, IsCurrent
<1>5. link(t) \in Link /\ link(t).lifetime = links[p.snap.link].lifetime
  BY <1>4, Zenon DEF Link
<1>6. PushersOK'
  BY <1>1, IdlePusherOK, PushersUpdated, Zenon DEF TypeOK, PushersOK
<1> HIDE DEF link
<1>7. StoreTypeOK'
  BY <1>1, <1>3, <1>4, <1>5, Zenon DEF TypeOK, StoreTypeOK
<1> QED
  BY <1>6, <1>7, Zenon

\* A retry that ends keeps the shape of the obligations.
LEMMA RetryFinishType ==
  ASSUME TypeOK, NEW w \in Workers, NEW d \in pushers[w].selected,
         RetrySettle(w, d) \/ RetryPending(w, d)
  PROVE  PushersOK' /\ StoreTypeOK'
<1>1. /\ pushers' = [pushers EXCEPT ![w] = IdlePusher]
      /\ UNCHANGED <<links, quarantine, lifetimes, clearing, cleaner>>
      /\ delivery' \subseteq delivery \cup {[d EXCEPT !.attempt = @ + 1]}
  BY Zenon DEF RetrySettle, RetryPending, FinishDeliverySettled, FinishDeliveryPending
<1>2. d \in Obligation
  BY Zenon DEF TypeOK, Pusher
<1>3. [d EXCEPT !.attempt = @ + 1] \in Obligation
  BY <1>2 DEF Obligation
<1>4. PushersOK'
  BY <1>1, IdlePusherOK, PushersUpdated, Zenon DEF TypeOK, PushersOK
<1> QED
  BY <1>1, <1>3, <1>4, Zenon DEF TypeOK, StoreTypeOK

\* An acknowledgement adds an entry.
LEMMA AckedType ==
  ASSUME TypeOK, NEW o \in Obligation, acked' = [acked EXCEPT ![o.link] = @ \cup {o}]
  PROVE  /\ acked' \in [Links -> SUBSET Obligation]
         /\ \A l \in Links : acked[l] \subseteq acked'[l]
         /\ o \in acked'[o.link]
         /\ \A l \in Links : \A a \in acked'[l] : a \in acked[l] \/ a = o
<1>1. o.link \in Links /\ acked \in [Links -> SUBSET Obligation]
  BY Zenon DEF TypeOK, Obligation
<1> QED
  BY <1>1, Zenon

\* An obligation acknowledged by a retry is the entry it was made from.
LEMMA FirstAttempt ==
  ASSUME NEW d \in Obligation
  PROVE  LET a == [d EXCEPT !.attempt = 0] IN
         /\ a \in Obligation /\ a.link = d.link /\ a.domain = d.domain
         /\ a.position = d.position /\ a.cid = d.cid /\ a.record = d.record
         /\ a.latest = d.latest
  BY Zenon DEF Obligation

\* No step of the engine, of the local store or of a reset breaks the shapes.
LEMMA TypeNext == TypeOK /\ FeedSound(feed, current) /\ [Next]_vars => TypeOK'
<1> SUFFICES ASSUME TypeOK, FeedSound(feed, current), [Next]_vars PROVE TypeOK'
  BY Zenon
<1>1. CASE Local
  BY <1>1, LocalStep, Zenon DEF TypeOK, StoreTypeOK, storeVars
<1>2. ASSUME NEW l \in Links, EnsureLink(l) PROVE TypeOK'
  BY <1>2, EnsureLinkType, Zenon DEF EnsureLink, pushVars, TypeOK
<1>3. ASSUME NEW w \in Workers, PushPage(w) PROVE TypeOK'
  <2> USE DEF storeVars
  <2>1. ASSUME NEW l \in Links, PushStart(w, l) PROVE TypeOK'
    <3>1. PushersOK'
      BY <2>1, StartStep, PushersUpdated, Zenon DEF TypeOK, PushersOK
    <3> QED
      BY <2>1, <3>1, Zenon DEF PushStart, TypeOK, StoreTypeOK, PushersOK
  <2>2. CASE PushQuery(w)
    <3>0. PushersOK /\ pushers[w].snap # NoSnapshot
      BY <2>2, Zenon DEF TypeOK, PushersOK, PushQuery
    <3>1. PushersOK'
      BY <2>2, <3>0, QueryStep, PushersUpdated, Zenon
    <3> QED
      BY <2>2, <3>1, Zenon DEF PushQuery, TypeOK, StoreTypeOK, PushersOK
  <2>3. ASSUME NEW e \in Todo(w), PushAcked(w, e) PROVE TypeOK'
    <3>1. PushersOK'
      BY <2>3, AckedStep, PushersUpdated DEF TypeOK, PushersOK, Classifies
    <3>2. e \in Obligation
      BY Zenon DEF TypeOK, Todo, Pusher
    <3>3. acked' \in [Links -> SUBSET Obligation]
      BY <2>3, <3>2, AckedType, Zenon DEF PushAcked
    <3> QED
      BY <2>3, <3>1, <3>3, Zenon DEF PushAcked, TypeOK, StoreTypeOK, PushersOK
  <2>4. ASSUME NEW e \in Todo(w), NEW blocks \in BOOLEAN, PushFailed(w, e, blocks)
        PROVE  TypeOK'
    <3>1. PushersOK'
      BY <2>4, FailedStep, PushersUpdated DEF TypeOK, PushersOK, Classifies
    <3> QED
      BY <2>4, <3>1, Zenon DEF PushFailed, TypeOK, StoreTypeOK, PushersOK
  <2>5. CASE PushCommit(w)
    BY <2>5, PushCommitType, Zenon DEF PushCommit, TypeOK, PushersOK
  <2>6. CASE PushCommitRefused(w) \/ PushAbort(w)
    <3>1. PushersOK'
      BY <2>6, IdlePusherOK, PushersUpdated, Zenon
         DEF PushCommitRefused, PushAbort, TypeOK, PushersOK
    <3> QED
      BY <2>6, <3>1, Zenon DEF PushCommitRefused, PushAbort, TypeOK, StoreTypeOK, PushersOK
  <2> QED
    BY <1>3, <2>1, <2>2, <2>3, <2>4, <2>5, <2>6, Zenon DEF PushPage
<1>4. ASSUME NEW w \in Workers, Retry(w) PROVE TypeOK'
  <2> USE DEF storeVars
  <2>1. ASSUME NEW l \in Links, RetryStart(w, l) PROVE TypeOK'
    <3>1. PushersOK'
      BY <2>1, StartStep, PushersUpdated, Zenon DEF TypeOK, PushersOK
    <3> QED
      BY <2>1, <3>1, Zenon DEF RetryStart, TypeOK, StoreTypeOK, PushersOK
  <2>2. ASSUME NEW d \in delivery, RetrySelect(w, d) PROVE TypeOK'
    <3>0. PushersOK /\ pushers[w].snap # NoSnapshot
      BY <2>2, Zenon DEF TypeOK, PushersOK, RetrySelect
    <3>1. PushersOK'
      BY <2>2, <3>0, SelectStep, PushersUpdated, Zenon
    <3> QED
      BY <2>2, <3>1, Zenon DEF RetrySelect, TypeOK, StoreTypeOK, PushersOK
  <2>3. ASSUME NEW d \in pushers[w].selected, RetryAcked(w, d) PROVE TypeOK'
    <3>0. PushersOK /\ pushers[w].snap # NoSnapshot
      BY <2>3, Zenon DEF TypeOK, PushersOK, RetryAcked
    <3>1. PushersOK'
      BY <2>3, <3>0, RetryAckedStep, PushersUpdated, Zenon
    <3> DEFINE a == [d EXCEPT !.attempt = 0]
    <3>2. d \in Obligation
      BY Zenon DEF TypeOK, Pusher
    <3>3. a \in Obligation /\ a.link = d.link
      BY <3>2, FirstAttempt, Zenon
    <3>4. acked' = [acked EXCEPT ![a.link] = @ \cup {a}]
      BY <2>3, <3>3, Zenon DEF RetryAcked
    <3> HIDE DEF a
    <3>5. acked' \in [Links -> SUBSET Obligation]
      BY <3>3, <3>4, AckedType, Zenon
    <3> QED
      BY <2>3, <3>1, <3>5, Zenon DEF RetryAcked, TypeOK, StoreTypeOK, PushersOK
  <2>4. ASSUME NEW d \in pushers[w].selected, RetrySettle(w, d) \/ RetryPending(w, d)
        PROVE  TypeOK'
    BY <2>4, RetryFinishType, Zenon DEF RetrySettle, RetryPending, TypeOK, PushersOK
  <2>5. ASSUME NEW d \in pushers[w].selected, RetryStale(w, d) PROVE TypeOK'
    <3>1. PushersOK'
      BY <2>5, IdlePusherOK, PushersUpdated, Zenon DEF RetryStale, TypeOK, PushersOK
    <3> QED
      BY <2>5, <3>1, Zenon DEF RetryStale, TypeOK, StoreTypeOK, PushersOK
  <2> QED
    BY <1>4, <2>1, <2>2, <2>3, <2>4, <2>5, Zenon DEF Retry
<1>5. CASE Cleaning
  BY <1>5, CleanupType, Zenon DEF Cleaning, pushVars, TypeOK
<1>6. CASE Reset
  BY <1>6, ClearType, Zenon DEF Reset, pushVars, TypeOK
<1>7. CASE UNCHANGED vars
  BY <1>7, Zenon DEF vars, storeVars, pushVars, TypeOK, StoreTypeOK
<1> QED
  BY <1>1, <1>2, <1>3, <1>4, <1>5, <1>6, <1>7, Zenon DEF Next

\* A feed always has a domain.
LEMMA FeedDomain == \A f \in Feed : f.domain \in Nat /\ f.domain # None /\ f.head \in Nat
  BY StoreAssumption, PushAssumption DEF Feed, Domains

\* The absent checkpoint is not ahead of any feed.
LEMMA NoTokenNotAhead == \A f \in Feed : NotAhead(NoToken, f)
  BY FeedDomain, Zenon DEF NotAhead, NoToken

\* What is not ahead of the feed is not ahead of it after a step of the local
\* store.
LEMMA NotAheadMoves ==
  ASSUME NEW t, t.domain \in Domains \cup {None}, t.position \in Nat,
         NEW f \in Feed, NEW g \in Feed, NEW cur, NEW new,
         NotAhead(t, f), FeedMoves(f, cur, g, new)
  PROVE  NotAhead(t, g)
  BY StoreAssumption, PushAssumption DEF NotAhead, FeedMoves, Feed, Domains

\* A row of the changed feed that a token has passed was there before, and it
\* is its record's latest state only if it was before.
LEMMA PassedRowIsOld ==
  ASSUME NEW t, t.position \in Nat, NEW f \in Feed, NEW g \in Feed, NEW cur, NEW new,
         NotAhead(t, f), FeedMoves(f, cur, g, new),
         NEW r \in g.rows, t.domain = g.domain, r.position <= t.position
  PROVE  /\ r \in f.rows /\ t.domain = f.domain /\ g.domain = f.domain
         /\ new[r.record] = r.cid => cur[r.record] = r.cid
<1>1. f.head \in Nat /\ r.position \in Nat
  BY PushAssumption DEF Feed, Row
<1> QED
  BY <1>1 DEF NotAhead, FeedMoves

\* An entry stays sound when the feed moves on.
LEMMA EntrySoundMoves ==
  ASSUME NEW o \in Obligation, NEW f \in Feed, NEW g \in Feed, NEW cur, NEW new,
         EntrySound(o, f, cur), FeedMoves(f, cur, g, new)
  PROVE  EntrySound(o, g, new)
<1>1. o.domain \in Domains \cup {None} /\ o.position \in Nat /\ NotAhead(o, f)
  BY Zenon DEF Obligation, EntrySound
<1>2. NotAhead(o, g)
  BY <1>1, NotAheadMoves, Zenon
<1>3. ASSUME NEW r \in g.rows, o.domain = g.domain
      PROVE  /\ r.position = o.position =>
                  r.cid = o.cid /\ o.record = IF r.write THEN r.record ELSE None
             /\ o.latest /\ o.record = r.record /\ new[r.record] = r.cid =>
                  o.position <= r.position
  <2>1. r.position \in Nat
    BY DEF Feed, Row
  <2>2. CASE r.position <= o.position
    <3>1. /\ r \in f.rows /\ o.domain = f.domain
          /\ new[r.record] = r.cid => cur[r.record] = r.cid
      BY <1>1, <1>3, <2>2, PassedRowIsOld, Zenon
    <3> QED
      BY <3>1, Zenon DEF EntrySound
  <2>3. CASE o.position < r.position
    BY <1>1, <2>1, <2>3
  <2> QED
    BY <1>1, <2>1, <2>2, <2>3
<1> QED
  BY <1>2, <1>3, Zenon DEF EntrySound

\* A page stays complete when the feed moves on.
LEMMA PageCompleteMoves ==
  ASSUME NEW p, p.cursor \in Token, NEW f \in Feed, NEW g \in Feed, NEW cur, NEW new,
         PageComplete(p, f), FeedMoves(f, cur, g, new)
  PROVE  PageComplete(p, g)
<1>1. /\ p.cursor.domain \in Domains \cup {None} /\ p.cursor.position \in Nat
      /\ NotAhead(p.cursor, f)
  BY Zenon DEF Token, PageComplete
<1>2. NotAhead(p.cursor, g)
  BY <1>1, NotAheadMoves, Zenon
<1>3. ASSUME NEW r \in g.rows, p.cursor.domain = g.domain,
             p.snap.push.position < r.position, r.position <= p.cursor.position
      PROVE  \E e \in p.page : e.position = r.position
  <2>1. r \in f.rows /\ p.cursor.domain = f.domain
    BY <1>1, <1>3, PassedRowIsOld, Zenon
  <2> QED
    BY <1>3, <2>1, Zenon DEF PageComplete
<1> QED
  BY <1>2, <1>3, Zenon DEF PageComplete

\* What the local store does leaves the invariant standing: checkpoints, pages
\* and entries in flight only ever lose rows they have passed.
LEMMA InvLocal ==
  ASSUME PushInv, Local
  PROVE  PushInv'
<1>1. /\ UNCHANGED <<links, quarantine, delivery, lifetimes, clearing, cleaner>>
      /\ UNCHANGED <<acked, pushers>>
      /\ feed' \in Feed /\ FeedMoves(feed, current, feed', current')
      /\ FeedSound(feed', current')
  BY LocalStep, Zenon DEF PushInv, storeVars
<1>2. TypeOK'
  BY TypeNext, Zenon DEF PushInv, Next
<1>3. feed \in Feed
  BY Zenon DEF PushInv, TypeOK
<1>4. \A o \in Obligation : EntrySound(o, feed, current) => EntrySound(o, feed', current')
  BY <1>1, <1>3, EntrySoundMoves, Zenon
<1>5. AllSound'
  <2>1. /\ delivery \subseteq Obligation
        /\ \A l \in Links : acked[l] \subseteq Obligation
        /\ \A w \in Workers : pushers[w].page \cup pushers[w].selected \subseteq Obligation
    BY Zenon DEF PushInv, TypeOK, StoreTypeOK, Pusher
  <2> QED
    BY <1>1, <1>4, <2>1, Zenon DEF PushInv, AllSound, EntriesSound
<1>6. PagesSound'
  <2> SUFFICES ASSUME NEW w \in Workers, pushers[w].phase = "page"
               PROVE  /\ PageClassified(pushers[w], acked[pushers[w].snap.link])
                      /\ PageComplete(pushers[w], feed')
    BY <1>1, Zenon DEF PagesSound
  <2>1. /\ PageClassified(pushers[w], acked[pushers[w].snap.link])
        /\ PageComplete(pushers[w], feed)
    BY Zenon DEF PushInv, PagesSound
  <2>2. pushers[w].cursor \in Token
    BY Zenon DEF PushInv, TypeOK, Pusher
  <2> QED
    BY <1>1, <1>3, <2>1, <2>2, PageCompleteMoves, Zenon
<1>7. NothingClassified' /\ RetriesSound' /\ RowsClearedLast'
  BY <1>1, Zenon DEF PushInv, NothingClassified, RetriesSound, RowsClearedLast
<1>8. \A l \in Links : /\ links[l].push.domain \in Domains \cup {None}
                       /\ links[l].push.position \in Nat
                       /\ NotAhead(links[l].push, feed)
  BY Zenon DEF PushInv, TypeOK, StoreTypeOK, Link, Token, CheckpointsNotAhead
<1>9. CheckpointsNotAhead'
  BY <1>1, <1>3, <1>8, NotAheadMoves, Zenon DEF CheckpointsNotAhead
<1>10. PushNoLoss'
  <2> SUFFICES ASSUME NEW l \in Links, NEW r \in feed'.rows,
                      links[l].push.domain = feed'.domain,
                      r.position <= links[l].push.position
               PROVE  \/ \E a \in acked[l] : a.cid = r.cid
                      \/ \E d \in delivery : /\ d.link = l /\ d.domain = links[l].push.domain
                                             /\ d.position = r.position /\ d.cid = r.cid
                      \/ Superseded(l, r)'
    BY <1>1, Zenon DEF PushNoLoss
  <2>1. /\ r \in feed.rows /\ links[l].push.domain = feed.domain
        /\ feed'.domain = feed.domain
        /\ current'[r.record] = r.cid => current[r.record] = r.cid
    BY <1>1, <1>3, <1>8, PassedRowIsOld, Zenon
  <2>2. Superseded(l, r) => Superseded(l, r)'
    BY <1>1, <2>1, Zenon DEF Superseded
  <2> QED
    BY <2>1, <2>2, Zenon DEF PushInv, PushNoLoss
<1> QED
  BY <1>1, <1>2, <1>5, <1>6, <1>7, <1>9, <1>10, Zenon DEF PushInv

-----------------------------------------------------------------------------
\* Steps of the store alone (creating, cleaning up, resetting): a checkpoint
\* stays or disappears, and no obligation of one that stays is lost.
LEMMA InvStoreOnly ==
  ASSUME PushInv, TypeOK', UNCHANGED pushVars, RowsClearedLast',
         delivery' \subseteq delivery,
         \A l \in Links :
           \/ links'[l].push = NoToken
           \/ /\ links'[l].push = links[l].push
              /\ \A d \in delivery : d.link = l => d \in delivery'
  PROVE  PushInv'
<1>1. feed' = feed /\ current' = current /\ acked' = acked /\ pushers' = pushers
  BY Zenon DEF pushVars
<1>2. FeedSound(feed', current') /\ PagesSound' /\ NothingClassified' /\ RetriesSound'
  BY <1>1, Zenon DEF PushInv, PagesSound, NothingClassified, RetriesSound
<1>3. AllSound'
  BY <1>1, Zenon DEF PushInv, AllSound
<1>4. feed \in Feed
  BY Zenon DEF PushInv, TypeOK
<1>5. CheckpointsNotAhead'
  BY <1>1, <1>4, NoTokenNotAhead, Zenon DEF PushInv, CheckpointsNotAhead
<1>6. PushNoLoss'
  <2> SUFFICES ASSUME NEW l \in Links, NEW r \in feed.rows,
                      links'[l].push.domain = feed.domain,
                      r.position <= links'[l].push.position
               PROVE  \/ \E a \in acked[l] : a.cid = r.cid
                      \/ \E d \in delivery' : /\ d.link = l
                                              /\ d.domain = links'[l].push.domain
                                              /\ d.position = r.position /\ d.cid = r.cid
                      \/ Superseded(l, r)'
    BY <1>1, Zenon DEF PushNoLoss
  <2>1. links'[l].push # NoToken
    BY <1>4, FeedDomain DEF NoToken
  <2>2. /\ links'[l].push = links[l].push
        /\ \A d \in delivery : d.link = l => d \in delivery'
    BY <2>1, Zenon
  <2>3. Superseded(l, r) => Superseded(l, r)'
    BY <1>1, Zenon DEF Superseded
  <2> QED
    BY <2>2, <2>3 DEF PushInv, PushNoLoss
<1> QED
  BY <1>2, <1>3, <1>5, <1>6, Zenon DEF PushInv

\* A new link has no checkpoint, so it has passed no row.
LEMMA InvEnsureLink ==
  ASSUME PushInv, NEW l \in Links, EnsureLink(l)
  PROVE  PushInv'
<1>1. TypeOK'
  BY TypeNext, Zenon DEF PushInv, Next
<1>2. UNCHANGED pushVars /\ delivery' = delivery /\ clearing = "no" /\ clearing' = "no"
  BY Zenon DEF EnsureLink, GetOrCreateLink, Unlocked
<1>3. links \in [Links -> Link]
  BY Zenon DEF PushInv, TypeOK, StoreTypeOK
<1>4. \A m \in Links : links'[m].push = NoToken \/ links'[m].push = links[m].push
  BY <1>3, Zenon DEF EnsureLink, GetOrCreateLink
<1> QED
  BY <1>1, <1>2, <1>4, InvStoreOnly, Zenon DEF RowsClearedLast

\* A removed link loses its checkpoint with its obligations.
LEMMA InvCleaning ==
  ASSUME PushInv, Cleaning
  PROVE  PushInv'
<1>1. TypeOK'
  BY TypeNext, Zenon DEF PushInv, Next
<1>2. UNCHANGED pushVars /\ links \in [Links -> Link]
  BY Zenon DEF Cleaning, PushInv, TypeOK, StoreTypeOK
<1>3. CASE CleanerRemove
  <2>1. clearing = "no" /\ clearing' = "no" /\ cleaner.link \in Links
    BY <1>3, Zenon DEF CleanerRemove, RetireLink, DeleteLinkAndPendingWork, Unlocked,
                PushInv, TypeOK, StoreTypeOK
  <2>2. /\ links' = [links EXCEPT ![cleaner.link] = NoLink]
        /\ delivery' = {d \in delivery : d.link # cleaner.link}
    BY <1>3, Zenon DEF CleanerRemove, RetireLink, DeleteLinkAndPendingWork
  <2>3. \A l \in Links :
          \/ links'[l].push = NoToken
          \/ links'[l].push = links[l].push /\ l # cleaner.link
    BY <1>2, <2>1, <2>2, Zenon DEF NoLink
  <2> QED
    BY <1>1, <1>2, <2>1, <2>2, <2>3, InvStoreOnly, Zenon DEF RowsClearedLast
<1>4. CASE CleanerStale \/ \E l \in Links : CleanerList(l)
  <2>1. UNCHANGED <<links, delivery, clearing>>
    BY <1>4, Zenon DEF CleanerStale, CleanerList
  <2> QED
    BY <1>1, <1>2, <2>1, InvStoreOnly, Zenon DEF PushInv, RowsClearedLast
<1> QED
  BY <1>3, <1>4, Zenon DEF Cleaning, Cleanup

\* The reset empties the links first: when it comes to the obligations no
\* checkpoint is left that would need them, and a crash in between keeps it so.
LEMMA InvReset ==
  ASSUME PushInv, Reset
  PROVE  PushInv'
<1>1. TypeOK'
  BY TypeNext, Zenon DEF PushInv, Next
<1>2. /\ UNCHANGED pushVars
      /\ links \in [Links -> Link]
      /\ \A l \in Links : links[l].lifetime = 0 => links[l] = NoLink
  BY Zenon DEF Reset, PushInv, TypeOK, StoreTypeOK
<1>3. CASE StartClear \/ ClearDone \/ ClearInterrupted
  <2>1. UNCHANGED <<links, delivery>> /\ clearing' # "rows"
    BY <1>3, Zenon DEF StartClear, ClearDone, ClearInterrupted
  <2> QED
    BY <1>1, <1>2, <2>1, InvStoreOnly, Zenon DEF RowsClearedLast
<1>4. ASSUME NEW l \in Links, ClearLink(l) PROVE PushInv'
  <2>1. UNCHANGED delivery /\ clearing' # "rows"
    BY <1>4, Zenon DEF ClearLink
  <2>2. \A m \in Links : links'[m].push = NoToken \/ links'[m].push = links[m].push
    BY <1>2, <1>4, Zenon DEF ClearLink, NoLink
  <2> QED
    BY <1>1, <1>2, <2>1, <2>2, InvStoreOnly, Zenon DEF RowsClearedLast
<1>5. CASE LinksCleared
  <2>1. UNCHANGED <<links, delivery>> /\ \A l \in Links : links[l] = NoLink
    BY <1>2, <1>5, Zenon DEF LinksCleared
  <2> QED
    BY <1>1, <1>2, <2>1, InvStoreOnly, Zenon DEF RowsClearedLast
<1>6. CASE ClearRow
  <2>1. UNCHANGED links /\ \A l \in Links : links[l] = NoLink
    BY <1>6, Zenon DEF ClearRow, PushInv, RowsClearedLast
  <2>2. \A l \in Links : links'[l].push = NoToken
    BY <2>1 DEF NoLink
  <2>3. delivery' \subseteq delivery
    BY <1>6, Zenon DEF ClearRow
  <2> QED
    BY <1>1, <1>2, <2>1, <2>2, <2>3, InvStoreOnly, Zenon DEF RowsClearedLast
<1> QED
  BY <1>3, <1>4, <1>5, <1>6, Zenon DEF Reset, Clear

-----------------------------------------------------------------------------
\* What a page has classified stays so when more is acknowledged.
LEMMA MoreAcknowledged ==
  ASSUME NEW p, NEW ack, NEW more, ack \subseteq more, PageClassified(p, ack)
  PROVE  PageClassified(p, more)
  BY Zenon DEF PageClassified

\* One worker moves on, the feed stays, and more may be acknowledged: the parts
\* of the invariant about entries in flight need only be shown of that worker.
LEMMA WorkerMoves ==
  ASSUME PushInv, TypeOK', UNCHANGED <<feed, current>>,
         NEW w \in Workers, NEW p \in Pusher, pushers' = [pushers EXCEPT ![w] = p],
         EntriesSound(p, feed, current), Fresh(p),
         p.phase = "page" =>
           p.snap.link \in Links /\ PageClassified(p, acked'[p.snap.link]) /\ PageComplete(p, feed),
         \A d \in p.selected :
           /\ p.selected = {d} /\ d.link = p.snap.link
           /\ p.phase = "delivered" => [d EXCEPT !.attempt = 0] \in acked'[d.link],
         \A l \in Links : /\ acked[l] \subseteq acked'[l]
                          /\ \A a \in acked'[l] : EntrySound(a, feed, current),
         \A d \in delivery' : EntrySound(d, feed, current)
  PROVE  AllSound' /\ PagesSound' /\ NothingClassified' /\ RetriesSound'
<1>1. \A v \in Workers : pushers'[v] = IF v = w THEN p ELSE pushers[v]
  BY Zenon DEF PushInv, TypeOK
<1>2. AllSound'
  <2>1. \A v \in Workers : EntriesSound(pushers'[v], feed, current)
    BY <1>1, Zenon DEF PushInv, AllSound
  <2> QED
    BY <2>1, Zenon DEF AllSound
<1>3. PagesSound'
  <2> SUFFICES ASSUME NEW v \in Workers, pushers'[v].phase = "page"
               PROVE  /\ PageClassified(pushers'[v], acked'[pushers'[v].snap.link])
                      /\ PageComplete(pushers'[v], feed)
    BY Zenon DEF PagesSound
  <2>1. CASE v = w
    BY <1>1, <2>1, Zenon
  <2>2. CASE v # w
    <3>1. pushers'[v] = pushers[v] /\ pushers[v].phase = "page"
      BY <1>1, <2>2, Zenon
    <3>2. pushers[v].snap.link \in Links
      BY <3>1, BusySnapshot, Zenon DEF PushInv
    <3>3. /\ PageClassified(pushers[v], acked[pushers[v].snap.link])
          /\ PageComplete(pushers[v], feed)
      BY <3>1, Zenon DEF PushInv, PagesSound
    <3> QED
      BY <3>1, <3>2, <3>3, MoreAcknowledged
  <2> QED
    BY <2>1, <2>2, Zenon
<1>4. RetriesSound'
  <2> SUFFICES ASSUME NEW v \in Workers, NEW d \in pushers'[v].selected
               PROVE  /\ pushers'[v].selected = {d}
                      /\ d.link = pushers'[v].snap.link
                      /\ pushers'[v].phase = "delivered" =>
                           [d EXCEPT !.attempt = 0] \in acked'[d.link]
    BY Zenon DEF RetriesSound
  <2>1. CASE v = w
    BY <1>1, <2>1, Zenon
  <2>2. CASE v # w
    <3>1. pushers'[v] = pushers[v] /\ d \in pushers[v].selected
      BY <1>1, <2>2, Zenon
    <3>2. d.link \in Links
      BY <3>1 DEF PushInv, TypeOK, Pusher, Obligation
    <3> QED
      BY <3>1, <3>2 DEF PushInv, RetriesSound
  <2> QED
    BY <2>1, <2>2, Zenon
<1>5. NothingClassified'
  BY <1>1, Zenon DEF PushInv, NothingClassified
<1> QED
  BY <1>2, <1>3, <1>4, <1>5, Zenon

\* If the store stays as it is, that is all there is to show.
LEMMA InvStoreKept ==
  ASSUME PushInv, TypeOK', UNCHANGED <<storeVars, feed, current>>,
         \A l \in Links : acked[l] \subseteq acked'[l],
         AllSound', PagesSound', NothingClassified', RetriesSound'
  PROVE  PushInv'
<1>1. UNCHANGED <<links, delivery, clearing, feed, current>>
  BY Zenon DEF storeVars
<1>2. FeedSound(feed', current') /\ CheckpointsNotAhead' /\ RowsClearedLast'
  BY <1>1, Zenon DEF PushInv, CheckpointsNotAhead, RowsClearedLast
<1>3. PushNoLoss'
  <2>1. \A l \in Links : \A r \in feed.rows : Superseded(l, r) => Superseded(l, r)'
    BY <1>1, Zenon DEF Superseded
  <2> QED
    BY <1>1, <2>1 DEF PushInv, PushNoLoss
<1> QED
  BY <1>2, <1>3, Zenon DEF PushInv

\* An idle worker has nothing in flight.
LEMMA IdleSound ==
  /\ EntriesSound(IdlePusher, feed, current) /\ Fresh(IdlePusher)
  /\ IdlePusher.phase # "page" /\ IdlePusher.selected = {}
  BY IdlePusherOK, Zenon DEF EntriesSound, Fresh

\* A worker may give up at any time.
LEMMA InvIdle ==
  ASSUME PushInv, TypeOK', UNCHANGED <<storeVars, feed, current, acked>>,
         NEW w \in Workers, pushers' = [pushers EXCEPT ![w] = IdlePusher]
  PROVE  PushInv'
<1>1. delivery' = delivery /\ acked' = acked
  BY Zenon DEF storeVars
<1>2. /\ \A l \in Links : \A a \in acked[l] : EntrySound(a, feed, current)
      /\ \A d \in delivery : EntrySound(d, feed, current)
  BY Zenon DEF PushInv, AllSound
<1>3. AllSound' /\ PagesSound' /\ NothingClassified' /\ RetriesSound'
  BY <1>1, <1>2, IdlePusherOK, IdleSound, WorkerMoves, Zenon
<1> QED
  BY <1>1, <1>3, InvStoreKept, Zenon

\* Starting holds nothing but a snapshot; selecting holds a sound obligation.
LEMMA InvStart ==
  ASSUME PushInv, NEW w \in Workers, NEW l \in Links,
         PushStart(w, l) \/ RetryStart(w, l)
  PROVE  PushInv'
<1>1. TypeOK'
  BY TypeNext, Zenon DEF PushInv, Next, PushPage, Retry
<1>2. UNCHANGED <<storeVars, feed, current, acked>> /\ delivery' = delivery
  BY Zenon DEF PushStart, RetryStart, storeVars
<1>3. PICK p \in Pusher :
        /\ pushers' = [pushers EXCEPT ![w] = p]
        /\ p.phase \in {"query", "select"} /\ p.page = {} /\ p.selected = {} /\ Fresh(p)
  BY StartStep, Zenon DEF PushInv
<1>4. EntriesSound(p, feed, current) /\ p.phase # "page"
  BY <1>3, Zenon DEF EntriesSound
<1>5. /\ \A m \in Links : \A a \in acked[m] : EntrySound(a, feed, current)
      /\ \A d \in delivery : EntrySound(d, feed, current)
  BY Zenon DEF PushInv, AllSound
<1>6. AllSound' /\ PagesSound' /\ NothingClassified' /\ RetriesSound'
  BY <1>1, <1>2, <1>3, <1>4, <1>5, WorkerMoves, Zenon
<1> QED
  BY <1>1, <1>2, <1>6, InvStoreKept, Zenon

\* A retry selects a sound obligation of its link.
LEMMA InvSelect ==
  ASSUME PushInv, NEW w \in Workers, NEW d \in delivery, RetrySelect(w, d)
  PROVE  PushInv'
<1>1. TypeOK'
  BY TypeNext, Zenon DEF PushInv, Next, Retry
<1>2. /\ UNCHANGED <<storeVars, feed, current, acked>> /\ delivery' = delivery
      /\ d.link = pushers[w].snap.link
  BY Zenon DEF RetrySelect, storeVars
<1>3. PICK p \in Pusher :
        /\ pushers' = [pushers EXCEPT ![w] = p]
        /\ p.phase = "retry" /\ p.snap = pushers[w].snap
        /\ p.page = pushers[w].page /\ p.selected = {d}
  BY SelectStep, Zenon DEF PushInv
<1>4. /\ \A m \in Links : \A a \in acked[m] : EntrySound(a, feed, current)
      /\ \A o \in delivery : EntrySound(o, feed, current)
      /\ EntriesSound(pushers[w], feed, current)
  BY Zenon DEF PushInv, AllSound
<1>5. EntriesSound(p, feed, current) /\ Fresh(p)
  BY <1>3, <1>4, Zenon DEF EntriesSound, Fresh
<1>6. AllSound' /\ PagesSound' /\ NothingClassified' /\ RetriesSound'
  BY <1>1, <1>2, <1>3, <1>4, <1>5, WorkerMoves, Zenon
<1> QED
  BY <1>1, <1>2, <1>6, InvStoreKept, Zenon

-----------------------------------------------------------------------------
\* A row that an acknowledged current write of its record covers is superseded
\* or was acknowledged itself: this is why coverage loses nothing.
LEMMA CoverageIsSound ==
  ASSUME PushInv, NEW l \in Links, NEW r \in feed.rows, NEW d, NEW a \in acked[l],
         EntrySound(d, feed, current), d.domain = feed.domain, d.position = r.position,
         a.latest, a.record = d.record, a.record # None,
         a.domain = feed.domain, d.position <= a.position
  PROVE  (\E x \in acked[l] : x.cid = r.cid) \/ Superseded(l, r)
<1>1. EntrySound(a, feed, current) /\ a.position \in Nat
  BY DEF PushInv, AllSound, TypeOK, Obligation
<1>2. r.write \in BOOLEAN /\ r.position \in Nat
  BY DEF PushInv, TypeOK, Feed, Row
<1>3. d.record = IF r.write THEN r.record ELSE None
  BY Zenon DEF EntrySound
<1>4. r.write /\ r.record = a.record
  BY <1>2, <1>3, Zenon
<1>5. CASE current[r.record] # r.cid
  BY <1>1, <1>2, <1>4, <1>5, Zenon DEF Superseded
<1>6. CASE current[r.record] = r.cid
  <2>1. a.position <= r.position
    BY <1>1, <1>4, <1>6, Zenon DEF EntrySound
  <2>2. a.position = r.position
    BY <1>1, <1>2, <2>1
  <2>3. r.cid = a.cid
    BY <1>1, <2>2, Zenon DEF EntrySound
  <2> QED
    BY <2>3, Zenon
<1> QED
  BY <1>5, <1>6, Zenon

\* What is left of a worker's page.
LEMMA TodoIsLeft == \A w \in Workers : Todo(w) = Left(pushers[w])
  BY Zenon DEF Todo, Left

\* The receipts of a classified page are those of its entries.
LEMMA PageReceipts ==
  ASSUME NEW w \in Workers, NEW ack, PageClassified(pushers[w], ack)
  PROVE  /\ PagePending(w) \subseteq pushers[w].page
         /\ \A k \in PageSettled(w) \cup {KeyOf(e) : e \in PagePending(w)} :
              k.link = pushers[w].snap.link
<1>1. PagePending(w) \subseteq pushers[w].page /\ CoveredPending(w) \subseteq pushers[w].page
  BY Zenon DEF PagePending, CoveredPending, PageClassified
<1>2. \A e \in pushers[w].page : KeyOf(e).link = pushers[w].snap.link
  BY Zenon DEF PageClassified, KeyOf
<1> QED
  BY <1>1, <1>2 DEF PageSettled, PageClassified

\* An obligation of another link is not touched.
LEMMA OtherLinkKept ==
  ASSUME NEW q, NEW pending, NEW settled, NEW handled, NEW d \in delivery,
         d.link # q.link,
         \A k \in settled \cup {KeyOf(e) : e \in pending} : k.link = q.link
  PROVE  d \in DeliveryAfter(q, pending, settled, handled)
<1>1. KeyOf(d).link = d.link
  BY Zenon DEF KeyOf
<1>2. KeyOf(d) \notin settled \cup {KeyOf(e) : e \in pending}
  BY <1>1, Zenon
<1> QED
  BY <1>2 DEF DeliveryAfter

\* An obligation that is gone was covered, or is one of the page's receipts.
LEMMA LostObligation ==
  ASSUME NEW q, NEW pending, NEW settled, NEW handled, NEW d \in delivery,
         d \notin DeliveryAfter(q, pending, settled, handled)
  PROVE  \/ d.link = q.link /\ Covered(d, handled)
         \/ KeyOf(d) \in settled \cup {KeyOf(e) : e \in pending}
  BY Zenon DEF DeliveryAfter

\* A pending entry becomes an obligation unless it is covered.
LEMMA PendingRetained ==
  ASSUME NEW q, NEW pending, NEW settled, NEW handled, NEW e \in pending,
         {KeyOf(x) : x \in pending} \cap settled = {}
  PROVE  Covered(e, handled) \/ e \in DeliveryAfter(q, pending, settled, handled)
  BY Zenon DEF DeliveryAfter

\* The checkpoint of a page is not ahead of its cursor, and what is left of
\* the page lies beyond it.
LEMMA CheckpointWithinPage ==
  ASSUME PushInv, NEW w \in Workers, pushers[w].phase = "page",
         NEW t \in Token, IsPageCheckpoint(w, t)
  PROVE  /\ t.domain = pushers[w].cursor.domain
         /\ t.position <= pushers[w].cursor.position
         /\ NotAhead(t, feed)
         /\ \A e \in Todo(w) : t.position < e.position
<1> DEFINE p == pushers[w]
<1>1. /\ p \in Pusher /\ PageClassified(p, acked[p.snap.link]) /\ PageComplete(p, feed)
      /\ Todo(w) = Left(p)
  BY TodoIsLeft, Zenon DEF PushInv, TypeOK, PagesSound
<1>2. p.cursor.position \in Nat
  BY <1>1, Zenon DEF Pusher, Token
<1>3. CASE Todo(w) = {}
  <2>1. t = p.cursor
    BY <1>3, Zenon DEF IsPageCheckpoint
  <2> QED
    BY <1>1, <1>2, <1>3, <2>1 DEF PageComplete
<1>4. CASE Todo(w) # {}
  <2>1. PICK x \in p.page \ Todo(w) : KeyOf(x).position = t.position
    BY <1>4, Zenon DEF IsPageCheckpoint, Classified
  <2>2. t.domain = p.cursor.domain
    BY <1>4, Zenon DEF IsPageCheckpoint
  <2>3. /\ x.position = t.position /\ x.domain = t.domain
        /\ x.position <= p.cursor.position
    BY <1>1, <2>1, <2>2, Zenon DEF PageClassified, KeyOf
  <2>4. NotAhead(t, feed)
    BY <1>1, <2>2, <2>3, Zenon DEF PushInv, AllSound, EntriesSound, EntrySound, NotAhead
  <2>5. \A e \in Todo(w) : t.position < e.position
    BY <1>1, <2>1, <2>3, Zenon DEF PageClassified
  <2> QED
    BY <2>2, <2>3, <2>4, <2>5, Zenon
<1> QED
  BY <1>3, <1>4, Zenon

\* A covered entry of the committing page leaves its row acknowledged or
\* superseded.
LEMMA CoveredByPage ==
  ASSUME PushInv, NEW w \in Workers, pushers[w].phase = "page",
         NEW l, l = pushers[w].snap.link, NEW r \in feed.rows, NEW d,
         EntrySound(d, feed, current), d.domain = feed.domain, d.position = r.position,
         Covered(d, pushers[w].handled)
  PROVE  (\E x \in acked[l] : x.cid = r.cid) \/ Superseded(l, r)
<1>1. l \in Links /\ PageClassified(pushers[w], acked[l])
  BY BusySnapshot, Zenon DEF PushInv, PagesSound
<1>2. PICK h \in pushers[w].handled :
        d.record # None /\ h.record = d.record /\ SourceAtOrBefore(d, h)
  BY Zenon DEF Covered
<1>3. PICK a \in acked[l] :
        a.latest /\ a.record = h.record /\ a.domain = h.domain /\ a.position = h.position
  BY <1>1, Zenon DEF PageClassified
<1>4. a.domain = feed.domain /\ d.position <= a.position
  BY <1>2, <1>3, Zenon DEF SourceAtOrBefore
<1> QED
  BY <1>1, <1>2, <1>3, <1>4, CoverageIsSound, Zenon

\* The committing link: what lies before the page keeps its disposition, and
\* each row of the page has got one.
LEMMA CommitLosesNothing ==
  ASSUME PushInv, NEW w \in Workers, pushers[w].phase = "page",
         NEW t \in Token, IsPageCheckpoint(w, t),
         NEW l, l = pushers[w].snap.link, links[l].push = pushers[w].snap.push,
         ValidPage(t, Classified(w), {KeyOf(e) : e \in PagePending(w)}, PageSettled(w),
                   pushers[w].snap.push),
         delivery' = DeliveryAfter(pushers[w].snap, PagePending(w), PageSettled(w),
                                   pushers[w].handled),
         NEW r \in feed.rows, t.domain = feed.domain, r.position <= t.position
  PROVE  \/ \E a \in acked[l] : a.cid = r.cid
         \/ \E d \in delivery' : /\ d.link = l /\ d.domain = t.domain
                                 /\ d.position = r.position /\ d.cid = r.cid
         \/ Superseded(l, r)
<1> DEFINE p == pushers[w]
           q == pushers[w].snap
           Keys == {KeyOf(e) : e \in PagePending(w)}
<1>1. /\ l \in Links /\ p \in Pusher /\ q.push \in Token
      /\ PageClassified(p, acked[l]) /\ PageComplete(p, feed)
      /\ Todo(w) = Left(p)
  BY BusySnapshot, TodoIsLeft, Zenon DEF PushInv, PagesSound
<1>2. /\ t.domain = p.cursor.domain /\ t.position <= p.cursor.position
      /\ \A e \in Todo(w) : t.position < e.position
  BY CheckpointWithinPage, Zenon
<1>3. /\ r.position \in Nat /\ 0 < r.position /\ q.push.position \in Nat
      /\ t.position \in Nat /\ p.cursor.position \in Nat
  BY <1>1 DEF PushInv, TypeOK, Feed, Row, Token, Pusher
<1>4. /\ Keys \cup PageSettled(w) = Classified(w) /\ Keys \cap PageSettled(w) = {}
      /\ \A k \in Classified(w) : q.push = NoToken \/ k.position > q.push.position
  BY Zenon DEF ValidPage
<1> HIDE DEF Keys
<1>5. CASE q.push.domain = feed.domain /\ r.position <= q.push.position
  <2>1. CASE (\E a \in acked[l] : a.cid = r.cid) \/ Superseded(l, r)
    BY <2>1, Zenon
  <2>2. ASSUME NEW d \in delivery, d.link = l, d.domain = q.push.domain,
               d.position = r.position, d.cid = r.cid
        PROVE  \/ \E a \in acked[l] : a.cid = r.cid
               \/ d \in delivery'
               \/ Superseded(l, r)
    <3>1. EntrySound(d, feed, current)
      BY Zenon DEF PushInv, AllSound
    <3>2. KeyOf(d) \notin Keys \cup PageSettled(w)
      <4>1. q.push # NoToken
        BY <1>5, FeedDomain DEF NoToken, PushInv, TypeOK
      <4>2. KeyOf(d).position = r.position
        BY <2>2, Zenon DEF KeyOf
      <4> QED
        BY <1>3, <1>4, <1>5, <4>1, <4>2, SMTT(20)
    <3>3. CASE Covered(d, p.handled)
      BY <1>5, <2>2, <3>1, <3>3, CoveredByPage, ZenonT(30)
    <3>4. CASE ~Covered(d, p.handled)
      BY <3>2, <3>4, LostObligation, Zenon DEF Keys
    <3> QED
      BY <3>3, <3>4, Zenon
  <2>3. \/ \E a \in acked[l] : a.cid = r.cid
        \/ \E d \in delivery : /\ d.link = l /\ d.domain = q.push.domain
                               /\ d.position = r.position /\ d.cid = r.cid
        \/ Superseded(l, r)
    BY <1>1, <1>5 DEF PushInv, PushNoLoss
  <2> QED
    BY <1>5, <2>1, <2>2, <2>3, Zenon
<1>6. CASE ~(q.push.domain = feed.domain /\ r.position <= q.push.position)
  <2>1. q.push = NoToken \/ q.push.domain = feed.domain
    BY <1>1, <1>2, Zenon DEF PageComplete
  <2>2. q.push.position < r.position
    BY <1>3, <1>6, <2>1, SMTT(20) DEF NoToken
  <2>3. PICK e \in p.page : e.position = r.position
    BY <1>1, <1>2, <1>3, <2>2 DEF PageComplete
  <2>4. /\ EntrySound(e, feed, current) /\ e.domain = feed.domain /\ e.link = l
    BY <1>1, <1>2, <2>3, Zenon DEF PushInv, AllSound, EntriesSound, PageClassified
  <2>5. e.cid = r.cid
    BY <2>3, <2>4, Zenon DEF EntrySound
  <2>6. e \notin Todo(w)
    BY <1>2, <1>3, <2>3
  <2>7. e \in p.pending \/ KeyOf(e) \in p.settled
    BY <1>1, <2>6, Zenon DEF Left
  <2>8. CASE KeyOf(e) \in p.settled
    <3>1. KeyOf(e).cid = e.cid
      BY Zenon DEF KeyOf
    <3>2. \A k \in p.settled : \E a \in acked[l] : a.cid = k.cid
      BY <1>1, Zenon DEF PageClassified
    <3> QED
      BY <2>5, <2>8, <3>1, <3>2, Zenon
  <2>9. CASE e \in p.pending /\ Covered(e, p.handled)
    BY <2>3, <2>4, <2>9, CoveredByPage, Zenon
  <2>10. CASE e \in p.pending /\ ~Covered(e, p.handled)
    <3>1. e \in PagePending(w)
      BY <2>10, Zenon DEF PagePending, CoveredPending
    <3>2. e \in delivery'
      BY <1>4, <2>10, <3>1, PendingRetained, Zenon DEF Keys
    <3> QED
      BY <2>3, <2>4, <2>5, <3>2, Zenon
  <2> QED
    BY <2>7, <2>8, <2>9, <2>10, Zenon
<1> QED
  BY <1>5, <1>6, Zenon

-----------------------------------------------------------------------------
\* A page holds every live row between the position asked for and its cursor,
\* whether the scan reached the head or stopped at the limit.
LEMMA PageHoldsRows ==
  ASSUME NEW f \in Feed, IsFiniteSet(f.rows), NEW position \in Nat,
         NEW end \in 0 .. MaxHead, IsPageEnd(f, position, end),
         NEW r \in f.rows, position < r.position, r.position <= end
  PROVE  r \in PageRows(f, position)
<1> USE PushAssumption
<1> DEFINE A == RowsAfter(f, position)
           Upto(n) == {s \in A : s.position <= n}
<1>1. r \in A /\ A \in SUBSET f.rows
  BY Zenon DEF RowsAfter
<1>2. IsFiniteSet(A) /\ Cardinality(A) \in Nat
  BY <1>1, FS_Subset, FS_CardinalityType, Zenon
<1>3. \A s \in A : s.position \in Nat
  BY <1>1 DEF Feed, Row
<1>4. CASE Cardinality(A) < PageSize
  <2>1. Upto(r.position) \in SUBSET A
    BY Zenon
  <2>2. Cardinality(Upto(r.position)) <= Cardinality(A)
    BY <1>2, <2>1, FS_Subset, Zenon
  <2>3. Cardinality(Upto(r.position)) \in Nat
    BY <1>2, <2>1, FS_Subset, FS_CardinalityType, Zenon
  <2> QED
    BY <1>1, <1>2, <1>4, <2>2, <2>3 DEF PageRows
<1>5. CASE ~(Cardinality(A) < PageSize)
  <2>1. PICK s \in PageRows(f, position) : s.position = end
    BY <1>5, Zenon DEF IsPageEnd
  <2>2. Upto(r.position) \in SUBSET Upto(end)
    BY <1>1, <1>3
  <2>3. Upto(end) \in SUBSET A
    BY Zenon
  <2>4. IsFiniteSet(Upto(end)) /\ Cardinality(Upto(end)) \in Nat
    BY <1>2, <2>3, FS_Subset, FS_CardinalityType, Zenon
  <2>5. /\ Cardinality(Upto(r.position)) <= Cardinality(Upto(end))
        /\ Cardinality(Upto(r.position)) \in Nat
    BY <2>2, <2>4, FS_Subset, FS_CardinalityType, Zenon
  <2>6. Cardinality(Upto(end)) <= PageSize
    BY <2>1, Zenon DEF PageRows
  <2> QED
    BY <1>1, <2>4, <2>5, <2>6 DEF PageRows
<1> QED
  BY <1>4, <1>5, Zenon

\* The cursor of a page is not ahead of the feed.
LEMMA PageEndNotAhead ==
  ASSUME NEW f \in Feed, \A r \in f.rows : r.position <= f.head,
         NEW position, NEW end, IsPageEnd(f, position, end)
  PROVE  end <= f.head
<1>1. f.head \in Nat
  BY FeedDomain, Zenon
<1>2. PageRows(f, position) \subseteq f.rows
  BY Zenon DEF PageRows, RowsAfter
<1> QED
  BY <1>1, <1>2 DEF IsPageEnd

\* An entry describes the row it was made from.
LEMMA EntryFields ==
  ASSUME NEW l, NEW d, NEW r
  PROVE  LET e == DeliveryInput(l, d, r) IN
         /\ e.link = l /\ e.domain = d /\ e.position = r.position /\ e.cid = r.cid
         /\ e.record = IF r.write THEN r.record ELSE None
         /\ e.latest = (current[r.record] = r.cid)
  BY Zenon DEF DeliveryInput

\* An entry is sound when it is read.
LEMMA ReadEntrySound ==
  ASSUME feed \in Feed, FeedSound(feed, current), NEW l, NEW r \in feed.rows
  PROVE  EntrySound(DeliveryInput(l, feed.domain, r), feed, current)
<1> DEFINE e == DeliveryInput(l, feed.domain, r)
<1>1. /\ e.domain = feed.domain /\ e.position = r.position /\ e.cid = r.cid
      /\ e.record = IF r.write THEN r.record ELSE None
      /\ e.latest = (current[r.record] = r.cid)
  BY EntryFields
<1> HIDE DEF e
<1>2. feed.domain \in Nat /\ r.position \in Nat /\ r.position <= feed.head
  BY FeedDomain DEF FeedSound, Feed, Row
<1>3. NotAhead(e, feed)
  BY <1>1, <1>2 DEF NotAhead
<1>4. ASSUME NEW s \in feed.rows, s.position = e.position
      PROVE  s.cid = e.cid /\ e.record = IF s.write THEN s.record ELSE None
  <2>1. s = r
    BY <1>1, <1>4, Zenon DEF FeedSound
  <2> QED
    BY <1>1, <2>1, Zenon
<1>5. ASSUME NEW s \in feed.rows, e.latest, e.record = s.record,
             current[s.record] = s.cid
      PROVE  e.position <= s.position
  <2>1. s.record \in Records /\ None \notin Records
    BY StoreAssumption, Zenon DEF Feed, Row
  <2>2. r.record = s.record /\ current[r.record] = r.cid
    BY <1>1, <1>5, <2>1, Zenon
  <2>3. s.cid = r.cid
    BY <1>5, <2>2, Zenon
  <2>4. s = r
    BY <2>3, Zenon DEF FeedSound
  <2> QED
    BY <1>1, <1>2, <2>4
<1>6. EntrySound(e, feed, current)
  BY <1>3, <1>4, <1>5, Zenon DEF EntrySound
<1> QED
  BY <1>6, Zenon DEF e

\* A page that has just been read is complete and unclassified.
LEMMA InvQuery ==
  ASSUME PushInv, NEW w \in Workers, PushQuery(w)
  PROVE  PushInv'
<1>1. TypeOK'
  BY TypeNext, Zenon DEF PushInv, Next, PushPage
<1>2. UNCHANGED <<storeVars, feed, current, acked>> /\ delivery' = delivery
  BY Zenon DEF PushQuery, storeVars
<1>3. PICK p \in Pusher, end \in 0 .. MaxHead :
        /\ pushers' = [pushers EXCEPT ![w] = p]
        /\ IsPageEnd(feed, pushers[w].snap.push.position, end)
        /\ p.phase = "page" /\ p.snap = pushers[w].snap
        /\ p.cursor = [domain |-> feed.domain, position |-> end]
        /\ p.page = {DeliveryInput(p.snap.link, feed.domain, r) :
                       r \in PageRows(feed, p.snap.push.position)}
        /\ p.settled = pushers[w].settled /\ p.pending = pushers[w].pending
        /\ p.handled = pushers[w].handled /\ p.selected = pushers[w].selected
  BY QueryStep, Zenon DEF PushInv
<1>4. pushers[w].phase = "query" /\ p.settled = {} /\ p.pending = {} /\ p.handled = {}
  BY <1>3, Zenon DEF PushInv, NothingClassified, Fresh, PushQuery
<1> DEFINE rows == PageRows(feed, p.snap.push.position)
<1>5. rows \in SUBSET feed.rows /\ feed \in Feed /\ FeedSound(feed, current)
  BY Zenon DEF PageRows, RowsAfter, PushInv, TypeOK
<1>6. p.snap.link \in Links /\ p.snap.push \in Token
  BY <1>3, <1>4, BusySnapshot, Zenon DEF PushInv
<1>7. IsFiniteSet(p.page)
  <2> DEFINE g == [r \in rows |-> DeliveryInput(p.snap.link, feed.domain, r)]
  <2>1. IsFiniteSet(rows)
    <3> HIDE DEF rows
    <3> QED
      BY <1>5, FS_Subset, Zenon DEF FeedSound
  <2>2. p.page = {DeliveryInput(p.snap.link, feed.domain, r) : r \in rows}
    BY <1>3, Zenon
  <2> HIDE DEF rows
  <2>3. g \in Surjection(rows, p.page)
    BY <2>2, Zenon DEF Surjection
  <2> HIDE DEF g
  <2> QED
    BY <2>1, <2>3, FS_Surjection, Zenon
<1>8. \A e \in p.page : \E r \in rows : e = DeliveryInput(p.snap.link, feed.domain, r)
  BY <1>3, Zenon
<1>9. \A r \in rows : DeliveryInput(p.snap.link, feed.domain, r) \in p.page
  BY <1>3, Zenon
<1> HIDE DEF rows
<1>10. EntriesSound(p, feed, current) /\ Fresh(p)
  <2>1. \A e \in p.page : EntrySound(e, feed, current)
    BY <1>5, <1>8, ReadEntrySound, Zenon
  <2>2. \A d \in p.selected : EntrySound(d, feed, current)
    BY <1>3, Zenon DEF PushInv, AllSound, EntriesSound
  <2> QED
    BY <1>3, <2>1, <2>2, Zenon DEF EntriesSound, Fresh
<1>11. PageClassified(p, acked[p.snap.link])
  <2>1. \A e \in p.page : e.link = p.snap.link /\ e.domain = p.cursor.domain
    BY <1>3, <1>8, EntryFields
  <2>4. \A e \in p.page : e.position <= p.cursor.position
    <3>1. \A r \in rows : r.position <= end
      BY <1>3, <1>5 DEF rows, IsPageEnd, FeedSound
    <3> SUFFICES ASSUME NEW e \in p.page PROVE e.position <= p.cursor.position
      BY Zenon
    <3>2. PICK r \in rows : e = DeliveryInput(p.snap.link, feed.domain, r)
      BY <1>8, Zenon
    <3>3. e.position = r.position
      BY <3>2, EntryFields
    <3>4. p.cursor = [domain |-> feed.domain, position |-> end]
      BY <1>3, Zenon
    <3> QED
      BY <3>1, <3>2, <3>3, <3>4, SMTT(20)
  <2>2. ASSUME NEW e \in p.page, NEW o \in p.page, e.position = o.position
        PROVE  e = o
    <3>1. PICK r \in rows : e = DeliveryInput(p.snap.link, feed.domain, r)
      BY <1>8, Zenon
    <3>2. PICK s \in rows : o = DeliveryInput(p.snap.link, feed.domain, s)
      BY <1>8, Zenon
    <3>3. r = s
      BY <1>5, <2>2, <3>1, <3>2, EntryFields DEF FeedSound
    <3> QED
      BY <3>1, <3>2, <3>3, Zenon
  <2>3. p.page \ Left(p) = {}
    BY <1>4, Zenon DEF Left
  <2> QED
    BY <1>4, <1>7, <2>1, <2>2, <2>3, <2>4, Zenon DEF PageClassified
<1>12. PageComplete(p, feed)
  <2>1. p.snap.push = NoToken \/ p.snap.push.domain = p.cursor.domain
    BY <1>3 DEF PushQuery
  <2>2. p.cursor.domain = feed.domain /\ p.cursor.position = end
    BY <1>3
  <2>3. p.cursor.domain # None /\ NotAhead(p.cursor, feed)
    <3>1. end <= feed.head
      BY <1>3, <1>5, PageEndNotAhead, Zenon DEF FeedSound
    <3>2. feed.domain \in Nat /\ feed.domain # None
      BY <1>5, FeedDomain, Zenon
    <3> QED
      BY <2>2, <3>1, <3>2 DEF NotAhead
  <2>4. ASSUME NEW r \in feed.rows, p.snap.push.position < r.position,
               r.position <= p.cursor.position
        PROVE  \E e \in p.page : e.position = r.position
    <3>1. r \in rows
      BY <1>3, <1>5, <1>6, <2>2, <2>4, PageHoldsRows, Zenon DEF rows, FeedSound, Token
    <3> QED
      BY <1>9, <3>1, EntryFields
  <2> QED
    BY <2>1, <2>3, <2>4, Zenon DEF PageComplete
<1>13. /\ \A m \in Links : \A a \in acked[m] : EntrySound(a, feed, current)
       /\ \A o \in delivery : EntrySound(o, feed, current)
  BY Zenon DEF PushInv, AllSound
<1>14. \A d \in p.selected : p.selected = {d} /\ d.link = p.snap.link
  BY <1>3, Zenon DEF PushInv, RetriesSound
<1>15. AllSound' /\ PagesSound' /\ NothingClassified' /\ RetriesSound'
  BY <1>1, <1>2, <1>3, <1>6, <1>10, <1>11, <1>12, <1>13, <1>14, WorkerMoves, Zenon
<1> QED
  BY <1>1, <1>2, <1>15, InvStoreKept, Zenon

-----------------------------------------------------------------------------
\* The entry that is classified next is the first of those that are left.
LEMMA FirstLeft ==
  ASSUME NEW w \in Workers, NEW e \in Todo(w), IsNext(w, e)
  PROVE  /\ e \in pushers[w].page /\ e \in Left(pushers[w])
         /\ \A o \in Left(pushers[w]) : e.position <= o.position
  BY Zenon DEF IsNext, Todo, Left

\* Classifying it keeps the order, whichever way it is classified.
LEMMA ClassifiedNext ==
  ASSUME NEW p \in Pusher, NEW o \in Pusher, Classifies(p, o),
         NEW ack, NEW more, ack \subseteq more, PageClassified(o, ack),
         NEW e \in o.page, e \in Left(o), \A x \in Left(o) : e.position <= x.position,
         p.pending \subseteq o.pending \cup {e}, o.pending \subseteq p.pending,
         p.settled \subseteq o.settled \cup {KeyOf(e)}, o.settled \subseteq p.settled,
         e \in p.pending \/ KeyOf(e) \in p.settled,
         KeyOf(e) \in p.settled \ o.settled => \E a \in more : a.cid = e.cid,
         \A h \in p.handled : \E a \in more :
           a.latest /\ a.record = h.record /\ a.domain = h.domain
                    /\ a.position = h.position
  PROVE  PageClassified(p, more)
<1>1. p.page = o.page /\ p.snap = o.snap /\ p.cursor = o.cursor
  BY Zenon DEF Classifies
<1>2. \A x, y \in o.page : x.position = y.position => x = y
  BY Zenon DEF PageClassified
<1>3. \A x \in o.page : x.position \in Nat
  BY Zenon DEF Pusher, Obligation
<1>4. \A x, y \in o.page : KeyOf(x) = KeyOf(y) => x = y
  <2>1. \A x, y \in o.page : KeyOf(x) = KeyOf(y) => x.position = y.position
    BY Zenon DEF KeyOf
  <2> QED
    BY <1>2, <2>1, Zenon
<1>5. Left(p) = Left(o) \ {e}
  BY <1>1, <1>4, Zenon DEF Left
<1>6. Left(o) \subseteq o.page
  BY Zenon DEF Left
<1>7. \A x \in p.page \ Left(p), y \in Left(p) : x.position < y.position
  <2> SUFFICES ASSUME NEW x \in p.page \ Left(p), NEW y \in Left(p)
               PROVE  x.position < y.position
    BY Zenon
  <2>1. y \in Left(o) /\ y # e /\ y \in o.page /\ x \in o.page
    BY <1>1, <1>5, <1>6, Zenon
  <2>2. CASE x = e
    BY <1>2, <1>3, <2>1, <2>2
  <2>3. CASE x # e
    BY <1>5, <2>1, <2>3, Zenon DEF PageClassified
  <2> QED
    BY <2>2, <2>3, Zenon
<1>8. \A k \in p.settled : \E a \in more : a.cid = k.cid
  <2>1. KeyOf(e).cid = e.cid
    BY Zenon DEF KeyOf
  <2> QED
    BY <2>1, Zenon DEF PageClassified
<1>9. p.pending \subseteq p.page /\ p.settled \subseteq {KeyOf(x) : x \in p.page}
  BY <1>1 DEF PageClassified
<1> QED
  BY <1>1, <1>2, <1>7, <1>8, <1>9 DEF PageClassified

\* The writes a page remembers are acknowledged current ones.
LEMMA RememberedAcknowledged ==
  ASSUME NEW handled, NEW e \in Obligation, NEW more, e \in more,
         \A h \in handled : \E a \in more :
           a.latest /\ a.record = h.record /\ a.domain = h.domain
                    /\ a.position = h.position,
         NEW h \in RememberHandledWrite(handled, e)
  PROVE  \E a \in more : a.latest /\ a.record = h.record /\ a.domain = h.domain
                                  /\ a.position = h.position
<1> DEFINE new == [record |-> e.record, domain |-> e.domain, position |-> e.position]
<1>1. h \in handled \/ (e.latest /\ h = new)
  BY Zenon DEF RememberHandledWrite
<1>2. new.record = e.record /\ new.domain = e.domain /\ new.position = e.position
  BY Zenon
<1> HIDE DEF new
<1> QED
  BY <1>1, <1>2, Zenon

\* A page stays complete while its entries are classified.
LEMMA CompleteKept ==
  ASSUME NEW p, NEW o, Classifies(p, o), NEW f, PageComplete(o, f)
  PROVE  PageComplete(p, f)
  BY Zenon DEF Classifies, PageComplete

\* An acknowledged entry.
LEMMA InvAcked ==
  ASSUME PushInv, NEW w \in Workers, NEW e \in Todo(w), PushAcked(w, e)
  PROVE  PushInv'
<1>1. TypeOK'
  BY TypeNext, Zenon DEF PushInv, Next, PushPage
<1>2. UNCHANGED <<storeVars, feed, current>> /\ delivery' = delivery
  BY Zenon DEF PushAcked, storeVars
<1>3. PICK p \in Pusher :
        /\ pushers' = [pushers EXCEPT ![w] = p]
        /\ Classifies(p, pushers[w])
        /\ p.pending = pushers[w].pending
        /\ p.settled = pushers[w].settled \cup {KeyOf(e)}
        /\ p.handled = RememberHandledWrite(pushers[w].handled, e)
  BY AckedStep, Zenon DEF PushInv
<1>4. /\ e \in pushers[w].page /\ e \in Left(pushers[w])
      /\ \A o \in Left(pushers[w]) : e.position <= o.position
  BY FirstLeft, Zenon DEF PushAcked
<1>5. /\ pushers[w].phase = "page" /\ pushers[w] \in Pusher /\ e \in Obligation
      /\ pushers[w].snap.link \in Links
  BY <1>4, BusySnapshot, Zenon DEF PushAcked, PushInv, TypeOK, Pusher
<1>6. /\ PageClassified(pushers[w], acked[pushers[w].snap.link])
      /\ PageComplete(pushers[w], feed)
  BY <1>5, Zenon DEF PushInv, PagesSound
<1>7. e.link = pushers[w].snap.link
  BY <1>4, <1>6, Zenon DEF PageClassified
<1>8. /\ \A l \in Links : acked[l] \subseteq acked'[l]
      /\ e \in acked'[e.link]
      /\ \A l \in Links : \A a \in acked'[l] : a \in acked[l] \/ a = e
  BY <1>5, AckedType, Zenon DEF PushAcked, PushInv
<1>9. /\ \A l \in Links : \A a \in acked'[l] : EntrySound(a, feed, current)
      /\ \A o \in delivery : EntrySound(o, feed, current)
  BY <1>4, <1>8, Zenon DEF PushInv, AllSound, EntriesSound
<1>10. EntriesSound(p, feed, current) /\ Fresh(p)
  BY <1>3, <1>5, Zenon DEF PushInv, AllSound, EntriesSound, Classifies, Fresh
<1> DEFINE l == pushers[w].snap.link
<1>11. PageClassified(p, acked'[l])
  <2>1. \A h \in pushers[w].handled : \E a \in acked'[l] :
          a.latest /\ a.record = h.record /\ a.domain = h.domain
                   /\ a.position = h.position
    BY <1>5, <1>6, <1>8, Zenon DEF PageClassified
  <2>2. \A h \in p.handled : \E a \in acked'[l] :
          a.latest /\ a.record = h.record /\ a.domain = h.domain
                   /\ a.position = h.position
    BY <1>3, <1>5, <1>7, <1>8, <2>1, RememberedAcknowledged
  <2>3. acked[l] \subseteq acked'[l] /\ \E a \in acked'[l] : a.cid = e.cid
    BY <1>5, <1>7, <1>8, Zenon
  <2>4. PageClassified(pushers[w], acked[l])
    BY <1>6, Zenon
  <2>5. /\ p.pending \subseteq pushers[w].pending \cup {e} /\ pushers[w].pending \subseteq p.pending
        /\ p.settled \subseteq pushers[w].settled \cup {KeyOf(e)}
        /\ pushers[w].settled \subseteq p.settled /\ KeyOf(e) \in p.settled
        /\ KeyOf(e) \in p.settled \ pushers[w].settled =>
             \E a \in acked'[l] : a.cid = e.cid
    <3>1. p.pending = pushers[w].pending /\ p.settled = pushers[w].settled \cup {KeyOf(e)}
      BY <1>3, Zenon
    <3> QED
      BY <2>3, <3>1, Zenon
  <2>6. Classifies(p, pushers[w])
    BY <1>3, Zenon
  <2> HIDE DEF l
  <2> QED
    BY <1>4, <1>5, <2>2, <2>3, <2>4, <2>5, <2>6, ClassifiedNext, Zenon
<1>12. PageComplete(p, feed)
  BY <1>3, <1>6, CompleteKept, Zenon
<1>13. p.snap.link = l /\ p.phase = "page" /\ \A d \in p.selected : p.selected = {d} /\ d.link = l
  BY <1>3, <1>5, Zenon DEF Classifies, PushInv, RetriesSound
<1> HIDE DEF l
<1>14. AllSound' /\ PagesSound' /\ NothingClassified' /\ RetriesSound'
  BY <1>1, <1>2, <1>3, <1>5, <1>8, <1>9, <1>10, <1>11, <1>12, <1>13, WorkerMoves, Zenon DEF l
<1> QED
  BY <1>1, <1>2, <1>8, <1>14, InvStoreKept, Zenon

\* An entry that is retained.
LEMMA InvFailed ==
  ASSUME PushInv, NEW w \in Workers, NEW e \in Todo(w), NEW blocks \in BOOLEAN,
         PushFailed(w, e, blocks)
  PROVE  PushInv'
<1>1. TypeOK'
  BY TypeNext, Zenon DEF PushInv, Next, PushPage
<1>2. UNCHANGED <<storeVars, feed, current, acked>> /\ delivery' = delivery
  BY Zenon DEF PushFailed, storeVars
<1>3. PICK p \in Pusher :
        /\ pushers' = [pushers EXCEPT ![w] = p]
        /\ Classifies(p, pushers[w])
        /\ p.pending = pushers[w].pending \cup {e}
        /\ p.settled = pushers[w].settled
        /\ p.handled = pushers[w].handled
  BY FailedStep DEF PushInv
<1>4. /\ e \in pushers[w].page /\ e \in Left(pushers[w])
      /\ \A o \in Left(pushers[w]) : e.position <= o.position
  BY FirstLeft, Zenon DEF PushFailed
<1>5. /\ pushers[w].phase = "page" /\ pushers[w] \in Pusher
      /\ pushers[w].snap.link \in Links
  BY BusySnapshot, Zenon DEF PushFailed, PushInv, TypeOK
<1>6. /\ PageClassified(pushers[w], acked[pushers[w].snap.link])
      /\ PageComplete(pushers[w], feed)
  BY <1>5, Zenon DEF PushInv, PagesSound
<1>7. /\ \A l \in Links : \A a \in acked[l] : EntrySound(a, feed, current)
      /\ \A o \in delivery : EntrySound(o, feed, current)
  BY Zenon DEF PushInv, AllSound
<1>8. EntriesSound(p, feed, current) /\ Fresh(p)
  BY <1>3, <1>5, Zenon DEF PushInv, AllSound, EntriesSound, Classifies, Fresh
<1> DEFINE l == pushers[w].snap.link
<1>9. PageClassified(p, acked[l])
  <2>1. \A h \in p.handled : \E a \in acked[l] :
          a.latest /\ a.record = h.record /\ a.domain = h.domain
                   /\ a.position = h.position
    BY <1>3, <1>6, Zenon DEF PageClassified
  <2>2. PageClassified(pushers[w], acked[l])
    BY <1>6, Zenon
  <2>3. /\ p.pending \subseteq pushers[w].pending \cup {e} /\ pushers[w].pending \subseteq p.pending
        /\ p.settled \subseteq pushers[w].settled \cup {KeyOf(e)}
        /\ pushers[w].settled \subseteq p.settled /\ e \in p.pending
        /\ KeyOf(e) \in p.settled \ pushers[w].settled =>
             \E a \in acked[l] : a.cid = e.cid
        /\ acked[l] \subseteq acked[l]
    <3>1. p.pending = pushers[w].pending \cup {e} /\ p.settled = pushers[w].settled
      BY <1>3, Zenon
    <3> QED
      BY <3>1, Zenon
  <2>4. Classifies(p, pushers[w])
    BY <1>3, Zenon
  <2> HIDE DEF l
  <2> QED
    BY <1>4, <1>5, <2>1, <2>2, <2>3, <2>4, ClassifiedNext, Zenon
<1>10. PageComplete(p, feed)
  BY <1>3, <1>6, CompleteKept, Zenon
<1>11. p.snap.link = l /\ p.phase = "page" /\ \A d \in p.selected : p.selected = {d} /\ d.link = l
  BY <1>3, <1>5, Zenon DEF Classifies, PushInv, RetriesSound
<1> HIDE DEF l
<1>12. AllSound' /\ PagesSound' /\ NothingClassified' /\ RetriesSound'
  BY <1>1, <1>2, <1>3, <1>5, <1>7, <1>8, <1>9, <1>10, <1>11, WorkerMoves, Zenon DEF l
<1> QED
  BY <1>1, <1>2, <1>12, InvStoreKept, Zenon

\* A retry is acknowledged: the entry its obligation was made from.
LEMMA InvRetryAcked ==
  ASSUME PushInv, NEW w \in Workers, NEW d \in pushers[w].selected, RetryAcked(w, d)
  PROVE  PushInv'
<1> DEFINE a == [d EXCEPT !.attempt = 0]
<1>1. TypeOK'
  BY TypeNext, Zenon DEF PushInv, Next, Retry
<1>2. /\ UNCHANGED <<storeVars, feed, current>> /\ delivery' = delivery
      /\ acked' = [acked EXCEPT ![d.link] = @ \cup {a}]
  BY Zenon DEF RetryAcked, storeVars
<1>3. PICK p \in Pusher :
        /\ pushers' = [pushers EXCEPT ![w] = p]
        /\ p.phase = "delivered" /\ p.snap = pushers[w].snap
        /\ p.page = pushers[w].page /\ p.selected = pushers[w].selected
  BY RetryAckedStep, Zenon DEF PushInv
<1>4. /\ d \in Obligation /\ EntrySound(d, feed, current)
      /\ pushers[w].selected = {d} /\ d.link = pushers[w].snap.link
  BY Zenon DEF PushInv, TypeOK, Pusher, AllSound, EntriesSound, RetriesSound
<1>5. /\ a \in Obligation /\ a.link = d.link /\ a.domain = d.domain
      /\ a.position = d.position /\ a.cid = d.cid /\ a.record = d.record
      /\ a.latest = d.latest
  BY <1>4, FirstAttempt, Zenon
<1> HIDE DEF a
<1>6. /\ \A l \in Links : acked[l] \subseteq acked'[l]
      /\ a \in acked'[a.link]
      /\ \A l \in Links : \A x \in acked'[l] : x \in acked[l] \/ x = a
  BY <1>2, <1>5, AckedType, Zenon DEF PushInv
<1>7. EntrySound(a, feed, current)
  BY <1>4, <1>5, Zenon DEF EntrySound, NotAhead
<1>8. /\ \A l \in Links : \A x \in acked'[l] : EntrySound(x, feed, current)
      /\ \A o \in delivery : EntrySound(o, feed, current)
      /\ EntriesSound(pushers[w], feed, current)
  BY <1>6, <1>7, Zenon DEF PushInv, AllSound
<1>9. EntriesSound(p, feed, current) /\ Fresh(p) /\ p.phase # "page"
  BY <1>3, <1>8, Zenon DEF EntriesSound, Fresh
<1>10. \A x \in p.selected : /\ p.selected = {x} /\ x.link = p.snap.link
                             /\ [x EXCEPT !.attempt = 0] \in acked'[x.link]
  BY <1>3, <1>4, <1>5, <1>6, Zenon DEF a
<1>11. AllSound' /\ PagesSound' /\ NothingClassified' /\ RetriesSound'
  BY <1>1, <1>2, <1>3, <1>6, <1>8, <1>9, <1>10, WorkerMoves, Zenon
<1> QED
  BY <1>1, <1>2, <1>6, <1>11, InvStoreKept, Zenon

-----------------------------------------------------------------------------
\* Changing the obligations alone: each one that is gone must leave its row
\* acknowledged, owed still or superseded.
LEMMA InvDelivery ==
  ASSUME PushInv, TypeOK',
         UNCHANGED <<links, clearing, feed, current, acked>>,
         NEW w \in Workers, pushers' = [pushers EXCEPT ![w] = IdlePusher],
         \A d \in delivery' : EntrySound(d, feed, current),
         \A d \in delivery : \A r \in feed.rows :
           d.domain = feed.domain /\ d.position = r.position /\ d.cid = r.cid =>
             \/ \E a \in acked[d.link] : a.cid = r.cid
             \/ \E o \in delivery' : /\ o.link = d.link /\ o.domain = d.domain
                                     /\ o.position = d.position /\ o.cid = d.cid
             \/ Superseded(d.link, r)
  PROVE  PushInv'
<1>1. \A l \in Links : \A a \in acked[l] : EntrySound(a, feed, current)
  BY Zenon DEF PushInv, AllSound
<1>2. AllSound' /\ PagesSound' /\ NothingClassified' /\ RetriesSound'
  BY <1>1, IdlePusherOK, IdleSound, WorkerMoves, Zenon
<1>3. FeedSound(feed', current') /\ CheckpointsNotAhead' /\ RowsClearedLast'
  BY Zenon DEF PushInv, CheckpointsNotAhead, RowsClearedLast
<1>4. PushNoLoss'
  <2> DEFINE Acked(l, r) == \E a \in acked[l] : a.cid = r.cid
             Owed(owes, l, r) == \E d \in owes : /\ d.link = l /\ d.domain = links[l].push.domain
                                                 /\ d.position = r.position /\ d.cid = r.cid
  <2>1. ASSUME NEW l \in Links, NEW r \in feed.rows,
               links[l].push.domain = feed.domain, r.position <= links[l].push.position
        PROVE  Acked(l, r) \/ Owed(delivery', l, r) \/ Superseded(l, r)
    <3>1. Acked(l, r) \/ Owed(delivery, l, r) \/ Superseded(l, r)
      BY <2>1, Zenon DEF PushInv, PushNoLoss
    <3>2. ASSUME Owed(delivery, l, r) PROVE Acked(l, r) \/ Owed(delivery', l, r) \/ Superseded(l, r)
      <4>1. PICK d \in delivery : /\ d.link = l /\ d.domain = links[l].push.domain
                                  /\ d.position = r.position /\ d.cid = r.cid
        BY <3>2, Zenon
      <4>2. d.domain = feed.domain
        BY <2>1, <4>1, Zenon
      <4>3. \/ \E a \in acked[d.link] : a.cid = r.cid
            \/ \E o \in delivery' : /\ o.link = d.link /\ o.domain = d.domain
                                    /\ o.position = d.position /\ o.cid = d.cid
            \/ Superseded(d.link, r)
        BY <4>1, <4>2, Zenon
      <4> QED
        BY <4>1, <4>3, Zenon
    <3> QED
      BY <3>1, <3>2, Zenon
  <2>2. \A l, r : Superseded(l, r)' <=> Superseded(l, r)
    BY Zenon DEF Superseded
  <2> QED
    BY <2>1, <2>2, Zenon DEF PushNoLoss
<1> QED
  BY <1>2, <1>3, <1>4, Zenon DEF PushInv

\* A retry settles what was acknowledged, and what that covers.
LEMMA InvRetrySettle ==
  ASSUME PushInv, NEW w \in Workers, NEW s \in pushers[w].selected, RetrySettle(w, s)
  PROVE  PushInv'
<1> DEFINE a == [s EXCEPT !.attempt = 0]
<1>1. TypeOK'
  BY TypeNext, Zenon DEF PushInv, Next, Retry
<1>2. /\ UNCHANGED <<links, clearing, feed, current, acked>>
      /\ pushers' = [pushers EXCEPT ![w] = IdlePusher]
      /\ delivery' = IF s.latest /\ s.record # None
                       THEN {d \in delivery : ~(/\ d.link = pushers[w].snap.link
                                                /\ d.record = s.record
                                                /\ SourceAtOrBefore(d, s))}
                       ELSE delivery \ {s}
  BY Zenon DEF RetrySettle, FinishDeliverySettled
<1>3. /\ s \in Obligation /\ s.link = pushers[w].snap.link /\ s.link \in Links
      /\ a \in acked[s.link]
  BY DEF PushInv, RetriesSound, RetrySettle, TypeOK, Pusher, Obligation
<1>4. /\ a.domain = s.domain /\ a.position = s.position /\ a.cid = s.cid
      /\ a.record = s.record /\ a.latest = s.latest
  BY <1>3, FirstAttempt, Zenon
<1> HIDE DEF a
<1>5. \A d \in delivery' : d \in delivery
  BY <1>2, Zenon
<1>6. \A d \in delivery : EntrySound(d, feed, current)
  BY Zenon DEF PushInv, AllSound
<1>7. ASSUME NEW d \in delivery, NEW r \in feed.rows, d \notin delivery',
             d.domain = feed.domain, d.position = r.position, d.cid = r.cid
      PROVE  (\E x \in acked[d.link] : x.cid = r.cid) \/ Superseded(d.link, r)
  <2>1. CASE d = s
    BY <1>3, <1>4, <1>7, <2>1, Zenon
  <2>2. CASE d # s
    <3>1. /\ s.latest /\ s.record # None
          /\ d.link = s.link /\ d.record = s.record
          /\ SourceAtOrBefore(d, s)
      BY <1>2, <1>3, <1>7, <2>2, Zenon
    <3>2. d.domain = s.domain /\ d.position <= s.position
      BY <3>1, Zenon DEF SourceAtOrBefore
    <3>3. /\ a \in acked[d.link] /\ d.link \in Links /\ a.latest
          /\ a.record = d.record /\ a.record # None
          /\ a.domain = feed.domain /\ d.position <= a.position
      BY <1>3, <1>4, <1>7, <3>1, <3>2, Zenon
    <3> QED
      BY <1>6, <1>7, <3>3, CoverageIsSound, Zenon
  <2> QED
    BY <2>1, <2>2, Zenon
<1> QED
  BY <1>1, <1>2, <1>5, <1>6, <1>7, InvDelivery, Zenon

\* A retry that failed rotates its obligation.
LEMMA InvRetryPending ==
  ASSUME PushInv, NEW w \in Workers, NEW s \in pushers[w].selected, RetryPending(w, s)
  PROVE  PushInv'
<1> DEFINE n == [s EXCEPT !.attempt = @ + 1]
<1>1. TypeOK'
  BY TypeNext, Zenon DEF PushInv, Next, Retry
<1>2. /\ UNCHANGED <<links, clearing, feed, current, acked>>
      /\ pushers' = [pushers EXCEPT ![w] = IdlePusher]
      /\ delivery' = (delivery \ {s}) \cup {n} /\ s \in delivery
  BY Zenon DEF RetryPending, FinishDeliveryPending, IsCurrentAttempt
<1>3. s \in Obligation
  BY Zenon DEF PushInv, TypeOK, Pusher
<1>4. /\ n.link = s.link /\ n.domain = s.domain /\ n.position = s.position
      /\ n.cid = s.cid /\ n.record = s.record /\ n.latest = s.latest
  BY <1>3, Zenon DEF Obligation
<1> HIDE DEF n
<1>5. \A d \in delivery : EntrySound(d, feed, current)
  BY Zenon DEF PushInv, AllSound
<1>6. EntrySound(n, feed, current)
  <2>1. EntrySound(s, feed, current)
    BY <1>2, <1>5, Zenon
  <2> QED
    BY <1>4, <2>1, Zenon DEF EntrySound, NotAhead
<1>7. \A d \in delivery' : EntrySound(d, feed, current)
  BY <1>2, <1>5, <1>6, Zenon
<1>8. \A d \in delivery : \E o \in delivery' :
        /\ o.link = d.link /\ o.domain = d.domain
        /\ o.position = d.position /\ o.cid = d.cid
  BY <1>2, <1>4, Zenon
<1> QED
  BY <1>1, <1>2, <1>7, <1>8, InvDelivery, Zenon

\* A page commits.
LEMMA InvCommit ==
  ASSUME PushInv, NEW w \in Workers, PushCommit(w)
  PROVE  PushInv'
<1> DEFINE p == pushers[w]
           l == pushers[w].snap.link
<1>1. TypeOK'
  BY TypeNext, Zenon DEF PushInv, Next, PushPage
<1>2. PICK t \in Token :
        /\ p \in Pusher /\ l \in Links /\ p.phase = "page" /\ Unlocked
        /\ IsPageCheckpoint(w, t) /\ links[l].push = p.snap.push
        /\ ValidPage(t, Classified(w), {KeyOf(e) : e \in PagePending(w)}, PageSettled(w),
                     p.snap.push)
        /\ delivery' = DeliveryAfter(p.snap, PagePending(w), PageSettled(w), p.handled)
        /\ links' = [links EXCEPT ![l] = [links[l] EXCEPT !.push = t]]
        /\ pushers' = [pushers EXCEPT ![w] = IdlePusher]
        /\ UNCHANGED <<clearing, feed, current, acked>>
  BY PushCommitStep, Zenon DEF PushInv, PushPageAccepted
<1>3. \A m \in Links : links'[m].push = IF m = l THEN t ELSE links[m].push
  BY <1>2, Zenon DEF PushInv, TypeOK, StoreTypeOK, Link
<1>4. PageClassified(p, acked[l])
  BY <1>2, Zenon DEF PushInv, PagesSound
<1>5. /\ PagePending(w) \subseteq p.page
      /\ \A k \in PageSettled(w) \cup {KeyOf(e) : e \in PagePending(w)} : k.link = l
  BY <1>4, PageReceipts, Zenon
<1>6. /\ \A m \in Links : \A a \in acked[m] : EntrySound(a, feed, current)
      /\ \A d \in delivery \cup p.page : EntrySound(d, feed, current)
  BY Zenon DEF PushInv, AllSound, EntriesSound
<1>7. \A d \in delivery' : EntrySound(d, feed, current)
  BY <1>2, <1>5, <1>6, DeliveryAfterRows, Zenon
<1>8. AllSound' /\ PagesSound' /\ NothingClassified' /\ RetriesSound'
  BY <1>1, <1>2, <1>6, <1>7, IdlePusherOK, IdleSound, WorkerMoves, Zenon
<1>9. CheckpointsNotAhead'
  <2>1. NotAhead(t, feed)
    BY <1>2, CheckpointWithinPage, Zenon
  <2> QED
    BY <1>2, <1>3, <2>1, Zenon DEF PushInv, CheckpointsNotAhead
<1>10. FeedSound(feed', current') /\ RowsClearedLast'
  BY <1>2, Zenon DEF PushInv, RowsClearedLast, Unlocked
<1>11. PushNoLoss'
  <2> SUFFICES ASSUME NEW m \in Links, NEW r \in feed.rows,
                      links'[m].push.domain = feed.domain,
                      r.position <= links'[m].push.position
               PROVE  \/ \E a \in acked[m] : a.cid = r.cid
                      \/ \E d \in delivery' : /\ d.link = m /\ d.domain = links'[m].push.domain
                                              /\ d.position = r.position /\ d.cid = r.cid
                      \/ Superseded(m, r)
    BY <1>2 DEF PushNoLoss, Superseded
  <2>1. CASE m = l
    <3>1. t.domain = feed.domain /\ r.position <= t.position /\ links'[m].push = t
      BY <1>3, <2>1, Zenon
    <3>2. \/ \E a \in acked[m] : a.cid = r.cid
          \/ \E d \in delivery' : /\ d.link = m /\ d.domain = t.domain
                                  /\ d.position = r.position /\ d.cid = r.cid
          \/ Superseded(m, r)
      BY <1>2, <2>1, <3>1, CommitLosesNothing, Zenon
    <3> QED
      BY <3>1, <3>2, Zenon
  <2>2. CASE m # l
    <3>1. links'[m].push = links[m].push
      BY <1>3, <2>2, Zenon
    <3>2. ASSUME NEW d \in delivery, d.link = m PROVE d \in delivery'
      BY <1>2, <1>5, <2>2, <3>2, OtherLinkKept, Zenon
    <3> QED
      BY <3>1, <3>2 DEF PushInv, PushNoLoss
  <2> QED
    BY <2>1, <2>2, Zenon
<1> QED
  BY <1>1, <1>8, <1>9, <1>10, <1>11, Zenon DEF PushInv

-----------------------------------------------------------------------------
\* Nothing is in flight and nothing has been passed at first.
LEMMA InvInit == Init => PushInv
<1> SUFFICES ASSUME Init PROVE PushInv
  BY Zenon
<1>1. TypeOK
  BY TypeInit, Zenon
<1>2. /\ feed = [domain |-> 1, head |-> 0, rows |-> {}] /\ delivery = {}
      /\ \A x \in Records : current[x] = None
      /\ \A l \in Links : acked[l] = {} /\ links[l] = NoLink
      /\ \A w \in Workers : pushers[w] = IdlePusher
  BY Zenon DEF Init, PushInit, StoreInit
<1>3. feed.rows = {} /\ feed \in Feed /\ clearing = "no"
  BY <1>1, <1>2, Zenon DEF TypeOK, Init, StoreInit
<1>4. FeedSound(feed, current)
  BY <1>2, <1>3, FS_EmptySet, Zenon DEF FeedSound
<1>5. AllSound /\ PagesSound /\ NothingClassified /\ RetriesSound
  BY <1>2, IdleSound, Zenon DEF AllSound, PagesSound, NothingClassified, RetriesSound
<1>6. CheckpointsNotAhead
  BY <1>2, <1>3, NoTokenNotAhead DEF CheckpointsNotAhead, NoLink
<1>7. RowsClearedLast /\ PushNoLoss
  BY <1>3, Zenon DEF RowsClearedLast, PushNoLoss
<1> QED
  BY <1>1, <1>4, <1>5, <1>6, <1>7, Zenon DEF PushInv

\* Every step preserves the invariant.
LEMMA InvNext == PushInv /\ [Next]_vars => PushInv'
<1> SUFFICES ASSUME PushInv, [Next]_vars PROVE PushInv'
  BY Zenon
<1>1. TypeOK'
  BY TypeNext, Zenon DEF PushInv
<1>2. ASSUME NEW w \in Workers, PushPage(w) PROVE PushInv'
  <2>1. CASE PushCommitRefused(w) \/ PushAbort(w)
    <3>1. /\ UNCHANGED <<storeVars, feed, current, acked>>
          /\ pushers' = [pushers EXCEPT ![w] = IdlePusher]
      BY <2>1, Zenon DEF PushCommitRefused, PushAbort
    <3> QED
      BY <1>1, <3>1, InvIdle, Zenon
  <2> QED
    BY <1>2, <2>1, InvStart, InvQuery, InvAcked, InvFailed, InvCommit, Zenon DEF PushPage
<1>3. ASSUME NEW w \in Workers, Retry(w) PROVE PushInv'
  <2>1. ASSUME NEW d \in pushers[w].selected, RetryStale(w, d) PROVE PushInv'
    <3>1. /\ UNCHANGED <<storeVars, feed, current, acked>>
          /\ pushers' = [pushers EXCEPT ![w] = IdlePusher]
      BY <2>1, Zenon DEF RetryStale
    <3> QED
      BY <1>1, <3>1, InvIdle, Zenon
  <2> QED
    BY <1>3, <2>1, InvStart, InvSelect, InvRetryAcked, InvRetrySettle, InvRetryPending, Zenon
       DEF Retry
<1>4. CASE UNCHANGED vars
  <2>1. UNCHANGED <<storeVars, feed, current, acked, pushers>> /\ delivery' = delivery
    BY <1>4, Zenon DEF vars, storeVars, pushVars
  <2>2. AllSound' /\ PagesSound' /\ NothingClassified' /\ RetriesSound'
    BY <2>1, Zenon DEF PushInv, AllSound, PagesSound, NothingClassified, RetriesSound
  <2> QED
    BY <1>1, <2>1, <2>2, InvStoreKept, Zenon
<1> QED
  BY <1>2, <1>3, <1>4, InvLocal, InvEnsureLink, InvCleaning, InvReset, Zenon DEF Next

\* The inductive invariant holds in every reachable state, however page
\* attempts, retries, cleanups, resets and the local store interleave.
THEOREM PushInvariant == Spec => []PushInv
<1>1. Init => PushInv
  BY InvInit, Zenon
<1>2. PushInv /\ [Next]_vars => PushInv'
  BY InvNext, Zenon
<1> QED
  BY <1>1, <1>2, PTL DEF Spec

\* Every variable keeps its shape (the types of push-page.ts, delivery-retry.ts
\* and progress-store.ts).
THEOREM PushTypeCorrect == Spec => []TypeOK
<1>1. PushInv => TypeOK
  BY Zenon DEF PushInv
<1> QED
  BY <1>1, PushInvariant, PTL

\* A push checkpoint never passes a row that was neither acknowledged nor
\* retained nor superseded by an acknowledged newer write (commitPushPage,
\* finishDelivery and the coverage rules of push-page.ts).
THEOREM PushLosesNothing == Spec => []PushNoLoss
<1>1. PushInv => PushNoLoss
  BY Zenon DEF PushInv
<1> QED
  BY <1>1, PushInvariant, PTL

\* Only a commit moves the checkpoint of a link that stays stored.
LEMMA LinkSteps ==
  ASSUME PushInv, [Next]_vars, NEW l \in Links,
         links[l].lifetime # 0, links'[l].lifetime = links[l].lifetime
  PROVE  \/ links'[l].push = links[l].push
         \/ \E w \in Workers : PushCommit(w) /\ pushers[w].snap.link = l
<1>1. links \in [Links -> Link] /\ NoLink.lifetime = 0
  BY Zenon DEF PushInv, TypeOK, StoreTypeOK, NoLink
<1>2. CASE UNCHANGED links
  BY <1>2, Zenon
<1>3. CASE Local
  BY <1>3, LocalStep, Zenon DEF PushInv, storeVars
<1>4. ASSUME NEW m \in Links, EnsureLink(m)
      PROVE  links'[l].push = links[l].push
  BY <1>1, <1>4, Zenon DEF EnsureLink, GetOrCreateLink
<1>5. ASSUME NEW w \in Workers, PushPage(w)
      PROVE  \/ links'[l].push = links[l].push
             \/ PushCommit(w) /\ pushers[w].snap.link = l
  <2>1. CASE PushCommit(w)
    <3>1. PICK t \in Token :
            /\ pushers[w].snap.link \in Links
            /\ links' = [links EXCEPT ![pushers[w].snap.link] =
                           [links[pushers[w].snap.link] EXCEPT !.push = t]]
      BY <2>1, PushCommitStep, Zenon DEF PushInv
    <3> QED
      BY <1>1, <2>1, <3>1, Zenon
  <2>2. CASE ~PushCommit(w)
    BY <1>5, <2>2, Zenon DEF PushPage, PushStart, PushQuery, PushAcked, PushFailed,
                      PushCommitRefused, PushAbort, storeVars
  <2> QED
    BY <2>1, <2>2, Zenon
<1>6. ASSUME NEW w \in Workers, Retry(w) PROVE UNCHANGED links
  BY <1>6, Zenon DEF Retry, RetryStart, RetrySelect, RetryAcked, RetrySettle, RetryPending,
              RetryStale, FinishDeliverySettled, FinishDeliveryPending, storeVars
<1>7. CASE Cleaning
  BY <1>1, <1>7, Zenon DEF Cleaning, Cleanup, CleanerList, CleanerRemove, CleanerStale,
                    RetireLink, DeleteLinkAndPendingWork
<1>8. CASE Reset
  BY <1>1, <1>8, Zenon DEF Reset, Clear, StartClear, ClearLink, LinksCleared, ClearRow,
                    ClearDone, ClearInterrupted
<1> QED
  BY <1>2, <1>3, <1>4, <1>5, <1>6, <1>7, <1>8, Zenon DEF Next, vars, storeVars

\* While a link keeps its lifetime its push checkpoint stays in one domain and
\* only grows, whichever of several racing page attempts commits
\* (commitPushPage).
THEOREM MonotonePushCheckpoint == Spec => CheckpointMonotone
<1> DEFINE Step == \A l \in Links :
                     links[l].lifetime # 0 /\ links'[l].lifetime = links[l].lifetime =>
                       \/ links'[l].push = links[l].push
                       \/ CanAdvance(links[l].push, links'[l].push)
<1>1. PushInv /\ [Next]_vars => Step
  <2> SUFFICES ASSUME PushInv, [Next]_vars, NEW l \in Links,
                      links[l].lifetime # 0, links'[l].lifetime = links[l].lifetime
               PROVE  \/ links'[l].push = links[l].push
                      \/ CanAdvance(links[l].push, links'[l].push)
    BY Zenon
  <2>1. CASE links'[l].push = links[l].push
    BY <2>1, Zenon
  <2>2. CASE \E w \in Workers : PushCommit(w) /\ pushers[w].snap.link = l
    <3>1. PICK w \in Workers : PushCommit(w) /\ pushers[w].snap.link = l
      BY <2>2, Zenon
    <3>2. PICK t \in Token :
            /\ links[l].push = pushers[w].snap.push /\ CanAdvance(pushers[w].snap.push, t)
            /\ links' = [links EXCEPT ![l] = [links[l] EXCEPT !.push = t]]
      BY <3>1, PushCommitStep, Zenon DEF PushInv, PushPageAccepted
    <3>3. links'[l].push = t
      BY <3>2, Zenon DEF PushInv, TypeOK, StoreTypeOK, Link
    <3> QED
      BY <3>2, <3>3, Zenon
  <2> QED
    BY <2>1, <2>2, LinkSteps, Zenon
<1>2. CheckpointMonotone <=> [][Step]_vars
  BY Zenon DEF CheckpointMonotone
<1> HIDE DEF Step
<1> QED
  BY <1>1, <1>2, PushInvariant, PTL DEF Spec

-----------------------------------------------------------------------------
\* How an obligation can disappear or change: with its link, by a reset, by a
\* page of its link, or by a retry that selected it or a write that covers it.
LEMMA DeliverySteps ==
  ASSUME PushInv, [Next]_vars, NEW d \in delivery \ delivery'
  PROVE  \/ clearing # "no"
         \/ links'[d.link].lifetime # links[d.link].lifetime
         \/ \E w \in Workers : PushCommit(w)
         \/ \E w \in Workers : \E s \in pushers[w].selected :
              RetrySettle(w, s) \/ RetryPending(w, s)
<1>1. delivery' # delivery
  BY Zenon
<1>2. ~Local
  BY <1>1, LocalStep, Zenon DEF PushInv, storeVars
<1>3. ASSUME NEW m \in Links, EnsureLink(m) PROVE FALSE
  BY <1>1, <1>3, Zenon DEF EnsureLink, GetOrCreateLink
<1>4. ASSUME NEW w \in Workers, PushPage(w) PROVE PushCommit(w)
  BY <1>1, <1>4, Zenon DEF PushPage, PushStart, PushQuery, PushAcked, PushFailed,
                    PushCommitRefused, PushAbort, storeVars
<1>5. ASSUME NEW w \in Workers, Retry(w)
      PROVE  \E s \in pushers[w].selected : RetrySettle(w, s) \/ RetryPending(w, s)
  BY <1>1, <1>5, Zenon DEF Retry, RetryStart, RetrySelect, RetryAcked, RetryStale, storeVars
<1>6. ASSUME Cleaning PROVE links'[d.link].lifetime # links[d.link].lifetime
  <2>1. CASE CleanerRemove
    <3>1. /\ links' = [links EXCEPT ![cleaner.link] = NoLink]
          /\ delivery' = {o \in delivery : o.link # cleaner.link}
          /\ IsCurrent(cleaner)
      BY <2>1, Zenon DEF CleanerRemove, RetireLink, DeleteLinkAndPendingWork
    <3>2. d.link = cleaner.link /\ d.link \in Links /\ links \in [Links -> Link]
      BY <3>1, Zenon DEF PushInv, TypeOK, StoreTypeOK, Obligation
    <3> QED
      BY <3>1, <3>2, Zenon DEF IsCurrent, NoLink
  <2>2. CASE ~CleanerRemove
    BY <1>1, <1>6, <2>2, Zenon DEF Cleaning, Cleanup, CleanerList, CleanerStale
  <2> QED
    BY <2>1, <2>2, Zenon
<1>7. ASSUME Reset PROVE clearing # "no"
  BY <1>1, <1>7, Zenon DEF Reset, Clear, StartClear, ClearLink, LinksCleared, ClearRow,
                    ClearDone, ClearInterrupted
<1>8. ~UNCHANGED vars
  BY <1>1, Zenon DEF vars, storeVars
<1> QED
  BY <1>2, <1>3, <1>4, <1>5, <1>6, <1>7, <1>8, Zenon DEF Next

\* What an attempt must be like to remove or change an obligation.
MayChange(w, d) ==
  /\ pushers'[w].phase = "idle"
  /\ pushers[w].snap.link = d.link
  /\ pushers[w].snap.lifetime = links[d.link].lifetime
  /\ \/ pushers[w].phase = "page"
     \/ \E s \in pushers[w].selected \cap delivery :
          s = d \/ (s.latest /\ s.record = d.record /\ SourceAtOrBefore(d, s))

\* A page that commits is one of the link's present lifetime.
LEMMA CommitMayChange ==
  ASSUME PushInv, NEW w \in Workers, PushCommit(w), NEW d \in delivery \ delivery'
  PROVE  MayChange(w, d)
<1> DEFINE p == pushers[w]
<1>1. /\ p.phase = "page" /\ IsCurrent(p.snap)
      /\ delivery' = DeliveryAfter(p.snap, PagePending(w), PageSettled(w), p.handled)
      /\ pushers' = [pushers EXCEPT ![w] = IdlePusher]
  BY PushCommitStep, Zenon DEF PushInv
<1>2. PageClassified(p, acked[p.snap.link])
  BY <1>1, Zenon DEF PushInv, PagesSound
<1>3. \A k \in PageSettled(w) \cup {KeyOf(e) : e \in PagePending(w)} : k.link = p.snap.link
  BY <1>2, PageReceipts, Zenon
<1>4. d.link = p.snap.link
  BY <1>1, <1>3, OtherLinkKept, Zenon
<1>5. pushers'[w].phase = "idle"
  BY <1>1, IdlePusherOK, Zenon DEF PushInv, TypeOK
<1> QED
  BY <1>1, <1>4, <1>5, Zenon DEF MayChange, IsCurrent

\* A retry that ends is one of the link's present lifetime, and it selected
\* the obligation as it stands or a current write that covers it.
LEMMA RetryMayChange ==
  ASSUME PushInv, NEW w \in Workers, NEW s \in pushers[w].selected,
         RetrySettle(w, s) \/ RetryPending(w, s), NEW d \in delivery \ delivery'
  PROVE  MayChange(w, d)
<1>1. /\ IsCurrent(pushers[w].snap) /\ s \in delivery
      /\ pushers' = [pushers EXCEPT ![w] = IdlePusher]
  BY Zenon DEF RetrySettle, RetryPending, FinishDeliverySettled, FinishDeliveryPending,
         IsCurrentAttempt
<1>2. s.link = pushers[w].snap.link
  BY Zenon DEF PushInv, RetriesSound
<1>3. /\ d.link = pushers[w].snap.link
      /\ s = d \/ (s.latest /\ s.record = d.record /\ SourceAtOrBefore(d, s))
  BY <1>2, Zenon DEF RetrySettle, RetryPending, FinishDeliverySettled, FinishDeliveryPending
<1>4. pushers'[w].phase = "idle"
  BY <1>1, IdlePusherOK, Zenon DEF PushInv, TypeOK
<1> QED
  BY <1>1, <1>3, <1>4, Zenon DEF MayChange, IsCurrent

\* A stale retry never changes a replacement link or a newer retry's row: an
\* obligation of a stored link changes only by a page or a retry of the link's
\* own lifetime that holds that very attempt, or a write that covers it
\* (finishDelivery).
THEOREM RetryIsFenced == Spec => StaleRetryHarmless
<1> DEFINE Step ==
      \A d \in delivery \ delivery' :
        links'[d.link].lifetime = links[d.link].lifetime /\ clearing = "no" =>
          \E w \in Workers :
            /\ pushers'[w].phase = "idle"
            /\ pushers[w].snap.link = d.link
            /\ pushers[w].snap.lifetime = links[d.link].lifetime
            /\ \/ pushers[w].phase = "page"
               \/ \E s \in pushers[w].selected \cap delivery :
                    s = d \/ (s.latest /\ s.record = d.record /\ SourceAtOrBefore(d, s))
<1>1. PushInv /\ [Next]_vars => Step
  <2> SUFFICES ASSUME PushInv, [Next]_vars, NEW d \in delivery \ delivery',
                      links'[d.link].lifetime = links[d.link].lifetime, clearing = "no"
               PROVE  \E w \in Workers : MayChange(w, d)
    BY Zenon DEF MayChange
  <2> QED
    BY DeliverySteps, CommitMayChange, RetryMayChange, Zenon
<1>2. StaleRetryHarmless <=> [][Step]_vars
  BY Zenon DEF StaleRetryHarmless
<1> HIDE DEF Step
<1> QED
  BY <1>1, <1>2, PushInvariant, PTL DEF Spec

-----------------------------------------------------------------------------
\* Only a commit and a failed retry write obligations.
LEMMA DeliveryGrowth ==
  ASSUME PushInv, [Next]_vars
  PROVE  \/ delivery' \subseteq delivery
         \/ \E w \in Workers : PushCommit(w)
         \/ \E w \in Workers : \E s \in pushers[w].selected : RetryPending(w, s)
<1>1. Local => delivery' = delivery
  BY LocalStep, Zenon DEF PushInv, storeVars
<1>2. ASSUME NEW m \in Links, EnsureLink(m) PROVE delivery' = delivery
  BY <1>2, Zenon DEF EnsureLink, GetOrCreateLink
<1>3. ASSUME NEW w \in Workers, PushPage(w) PROVE PushCommit(w) \/ delivery' = delivery
  BY <1>3, Zenon DEF PushPage, PushStart, PushQuery, PushAcked, PushFailed,
              PushCommitRefused, PushAbort, storeVars
<1>4. ASSUME NEW w \in Workers, Retry(w)
      PROVE  \/ delivery' \subseteq delivery
             \/ \E s \in pushers[w].selected : RetryPending(w, s)
  BY <1>4, Zenon DEF Retry, RetryStart, RetrySelect, RetryAcked, RetrySettle, RetryStale,
              FinishDeliverySettled, storeVars
<1>5. Cleaning => delivery' \subseteq delivery
  BY Zenon DEF Cleaning, Cleanup, CleanerList, CleanerRemove, CleanerStale,
         RetireLink, DeleteLinkAndPendingWork
<1>6. Reset => delivery' \subseteq delivery
  BY Zenon DEF Reset, Clear, StartClear, ClearLink, LinksCleared, ClearRow,
         ClearDone, ClearInterrupted
<1>7. UNCHANGED vars => delivery' = delivery
  BY Zenon DEF vars, storeVars
<1> QED
  BY <1>1, <1>2, <1>3, <1>4, <1>5, <1>6, <1>7, Zenon DEF Next

\* The pending entries of a page have receipts of their own, so a commit
\* leaves one row to a receipt.
LEMMA CommitKeepsOne ==
  ASSUME PushInv, OneObligationPerReceipt, NEW w \in Workers, PushCommit(w)
  PROVE  OneObligationPerReceipt'
<1> DEFINE p == pushers[w]
           new == {e \in PagePending(w) : ~Covered(e, p.handled)}
<1>1. /\ p.phase = "page"
      /\ delivery' = DeliveryAfter(p.snap, PagePending(w), PageSettled(w), p.handled)
  BY PushCommitStep, Zenon DEF PushInv
<1>2. PageClassified(p, acked[p.snap.link])
  BY <1>1, Zenon DEF PushInv, PagesSound
<1>3. \A d, e \in PagePending(w) : KeyOf(d) = KeyOf(e) => d = e
  <2>1. \A d, e \in PagePending(w) : KeyOf(d) = KeyOf(e) => d.position = e.position
    BY Zenon DEF KeyOf
  <2>2. PagePending(w) \subseteq p.page
    BY <1>2, PageReceipts, Zenon
  <2> QED
    BY <1>2, <2>1, <2>2, Zenon DEF PageClassified
<1>4. \A d \in delivery' :
        \/ d \in new
        \/ d \in delivery /\ \A e \in new : KeyOf(e) # KeyOf(d)
  BY <1>1, Zenon DEF DeliveryAfter
<1>5. new \subseteq PagePending(w)
  BY Zenon
<1> HIDE DEF new
<1>6. \A d, e \in delivery' : KeyOf(d) = KeyOf(e) => d = e
  BY <1>3, <1>4, <1>5, Zenon DEF OneObligationPerReceipt
<1> QED
  BY <1>6, Zenon DEF OneObligationPerReceipt

\* A failed retry replaces its row by one with the same receipt.
LEMMA RetryKeepsOne ==
  ASSUME PushInv, OneObligationPerReceipt, NEW w \in Workers,
         NEW s \in pushers[w].selected, RetryPending(w, s)
  PROVE  OneObligationPerReceipt'
<1> DEFINE n == [s EXCEPT !.attempt = @ + 1]
<1>1. s \in delivery /\ delivery' = (delivery \ {s}) \cup {n}
  BY Zenon DEF RetryPending, FinishDeliveryPending, IsCurrentAttempt
<1>2. KeyOf(n) = KeyOf(s)
  <2>1. s \in Obligation
    BY <1>1, Zenon DEF PushInv, TypeOK, StoreTypeOK
  <2> QED
    BY <2>1, Zenon DEF Obligation, KeyOf
<1> HIDE DEF n
<1> QED
  BY <1>1, <1>2, Zenon DEF OneObligationPerReceipt

\* One row per receipt: a rotated, recommitted or covered obligation never
\* exists twice (commitPushPage, finishDelivery).
THEOREM OneRowPerReceipt == Spec => []OneObligationPerReceipt
<1>1. Init => OneObligationPerReceipt
  BY Zenon DEF Init, StoreInit, OneObligationPerReceipt
<1>2. PushInv /\ OneObligationPerReceipt /\ [Next]_vars => OneObligationPerReceipt'
  <2> SUFFICES ASSUME PushInv, OneObligationPerReceipt, [Next]_vars
               PROVE  OneObligationPerReceipt'
    BY Zenon
  <2>1. CASE delivery' \subseteq delivery
    BY <2>1, Zenon DEF OneObligationPerReceipt
  <2> QED
    BY <2>1, DeliveryGrowth, CommitKeepsOne, RetryKeepsOne, Zenon
<1> QED
  BY <1>1, <1>2, PushInvariant, PTL DEF Spec

-----------------------------------------------------------------------------
RowsOf(l, rows) == {d \in rows : d.link = l}

CapacityInv == IsFiniteSet(delivery) /\ DeliveryWithinCapacity

\* Fewer rows of a link stay within its limit.
LEMMA FewerFit ==
  ASSUME NEW rows, IsFiniteSet(rows), NEW fewer \in SUBSET rows,
         Cardinality(rows) <= MaxDelivery
  PROVE  Cardinality(fewer) <= MaxDelivery
<1>1. IsFiniteSet(fewer) /\ Cardinality(fewer) <= Cardinality(rows)
  BY FS_Subset, Zenon
<1>2. Cardinality(fewer) \in Nat /\ Cardinality(rows) \in Nat /\ MaxDelivery \in Nat
  BY <1>1, FS_CardinalityType, StoreAssumption, Zenon
<1> QED
  BY <1>1, <1>2

\* A link whose rows do not grow stays within its limit.
LEMMA LinkFits ==
  ASSUME CapacityInv, NEW l \in Links, NEW rows, RowsOf(l, rows) \subseteq delivery
  PROVE  Cardinality(RowsOf(l, rows)) <= MaxDelivery
<1>1. RowsOf(l, rows) \in SUBSET RowsOf(l, delivery)
  BY Zenon DEF RowsOf
<1>2. IsFiniteSet(RowsOf(l, delivery))
  BY FS_Subset, RowsOf(l, delivery) \in SUBSET delivery, Zenon DEF CapacityInv, RowsOf
<1>3. Cardinality(RowsOf(l, delivery)) <= MaxDelivery
  BY Zenon DEF CapacityInv, DeliveryWithinCapacity, RowsOf
<1> QED
  BY <1>1, <1>2, <1>3, FewerFit, Zenon

\* A commit checks the limit of its own link and adds no row of another.
LEMMA CommitFits ==
  ASSUME PushInv, CapacityInv, NEW w \in Workers, PushCommit(w)
  PROVE  CapacityInv'
<1> DEFINE p == pushers[w]
           rows == DeliveryAfter(p.snap, PagePending(w), PageSettled(w), p.handled)
<1>1. PICK t \in PageTokens :
        /\ p.phase = "page" /\ delivery' = rows
        /\ PushPageAccepted(p.snap, t, Classified(w), PagePending(w), PageSettled(w), p.handled)
  BY PushCommitStep, Zenon DEF PushInv
<1>2. PageClassified(p, acked[p.snap.link])
  BY <1>1, Zenon DEF PushInv, PagesSound
<1>3. PagePending(w) \subseteq p.page /\ IsFiniteSet(p.page)
  BY <1>2, PageReceipts, Zenon DEF PageClassified
<1>4. rows \subseteq delivery \cup PagePending(w)
  BY DeliveryAfterRows, Zenon
<1>5. Cardinality(RowsOf(p.snap.link, rows)) <= MaxDelivery
  BY <1>1, Zenon DEF PushPageAccepted, RowsOf
<1> HIDE DEF rows
<1>6. IsFiniteSet(rows)
  <2>1. IsFiniteSet(delivery \cup p.page)
    BY <1>3, FS_Union, Zenon DEF CapacityInv
  <2> QED
    BY <1>3, <1>4, <2>1, FS_Subset, rows \in SUBSET (delivery \cup p.page), Zenon
<1>7. \A l \in Links : Cardinality(RowsOf(l, rows)) <= MaxDelivery
  <2> SUFFICES ASSUME NEW l \in Links, l # p.snap.link
               PROVE  Cardinality(RowsOf(l, rows)) <= MaxDelivery
    BY <1>5, Zenon
  <2>1. \A e \in PagePending(w) : e.link = p.snap.link
    BY <1>2, <1>3, Zenon DEF PageClassified
  <2>2. RowsOf(l, rows) \subseteq delivery
    BY <1>4, <2>1, Zenon DEF RowsOf
  <2> QED
    BY <2>2, LinkFits, Zenon
<1> QED
  BY <1>1, <1>6, <1>7, Zenon DEF CapacityInv, DeliveryWithinCapacity, RowsOf

\* A failed retry writes one row for the one it removes.
LEMMA RetryFits ==
  ASSUME PushInv, CapacityInv, NEW w \in Workers,
         NEW s \in pushers[w].selected, RetryPending(w, s)
  PROVE  CapacityInv'
<1> DEFINE n == [s EXCEPT !.attempt = @ + 1]
<1>1. s \in delivery /\ delivery' = (delivery \ {s}) \cup {n}
  BY Zenon DEF RetryPending, FinishDeliveryPending, IsCurrentAttempt
<1>2. n.link = s.link
  <2>1. s \in Obligation
    BY <1>1, Zenon DEF PushInv, TypeOK, StoreTypeOK
  <2> QED
    BY <2>1, Zenon DEF Obligation
<1> HIDE DEF n
<1>3. IsFiniteSet(delivery')
  BY <1>1, FS_RemoveElement, FS_AddElement, Zenon DEF CapacityInv
<1>4. ASSUME NEW l \in Links PROVE Cardinality(RowsOf(l, delivery')) <= MaxDelivery
  <2>1. CASE l # s.link
    <3>1. RowsOf(l, delivery') \subseteq delivery
      BY <1>1, <1>2, <2>1, Zenon DEF RowsOf
    <3> QED
      BY <3>1, LinkFits, Zenon
  <2>2. CASE l = s.link
    <3> DEFINE old == RowsOf(l, delivery)
    <3>1. s \in old /\ RowsOf(l, delivery') = (old \ {s}) \cup {n}
      BY <1>1, <1>2, <2>2, Zenon DEF RowsOf
    <3>2. IsFiniteSet(old) /\ Cardinality(old) <= MaxDelivery
      BY FS_Subset, old \in SUBSET delivery, Zenon
         DEF CapacityInv, DeliveryWithinCapacity, RowsOf
    <3> HIDE DEF old
    <3>3. IsFiniteSet(old \ {s}) /\ Cardinality(old \ {s}) = Cardinality(old) - 1
      BY <3>1, <3>2, FS_RemoveElement, Zenon
    <3>4. \/ Cardinality((old \ {s}) \cup {n}) = Cardinality(old \ {s})
          \/ Cardinality((old \ {s}) \cup {n}) = Cardinality(old \ {s}) + 1
      BY <3>3, FS_AddElement, Zenon
    <3>5. Cardinality(old) \in Nat /\ MaxDelivery \in Nat
      BY <3>2, FS_CardinalityType, StoreAssumption, Zenon
    <3> QED
      BY <3>1, <3>2, <3>3, <3>4, <3>5
  <2> QED
    BY <2>1, <2>2, Zenon
<1> QED
  BY <1>3, <1>4, Zenon DEF CapacityInv, DeliveryWithinCapacity, RowsOf

\* No link ever holds more obligations than maxDeliveryPerLink, whatever pages
\* and retries of its lifetimes overlap (commitPushPage's limit check).
THEOREM DeliveryFits == Spec => []DeliveryWithinCapacity
<1>1. Init => CapacityInv
  <2> SUFFICES ASSUME Init PROVE CapacityInv
    BY Zenon
  <2>1. delivery = {}
    BY Zenon DEF Init, StoreInit
  <2>2. \A l \in Links : {d \in delivery : d.link = l} = {}
    BY <2>1, Zenon
  <2> QED
    BY <2>1, <2>2, FS_EmptySet, StoreAssumption DEF CapacityInv, DeliveryWithinCapacity
<1>2. PushInv /\ CapacityInv /\ [Next]_vars => CapacityInv'
  <2> SUFFICES ASSUME PushInv, CapacityInv, [Next]_vars PROVE CapacityInv'
    BY Zenon
  <2>1. CASE delivery' \subseteq delivery
    <3>1. IsFiniteSet(delivery')
      BY <2>1, FS_Subset, Zenon DEF CapacityInv
    <3>2. \A l \in Links : Cardinality(RowsOf(l, delivery')) <= MaxDelivery
      BY <2>1, LinkFits, Zenon DEF RowsOf
    <3> QED
      BY <3>1, <3>2, Zenon DEF CapacityInv, DeliveryWithinCapacity, RowsOf
  <2> QED
    BY <2>1, DeliveryGrowth, CommitFits, RetryFits, Zenon
<1>3. CapacityInv => DeliveryWithinCapacity
  BY Zenon DEF CapacityInv
<1> QED
  BY <1>1, <1>2, <1>3, PushInvariant, PTL DEF Spec
=============================================================================
