---------------------------- MODULE SyncNextPush ----------------------------
(***************************************************************************)
(* Pushing in the next sync engine: push-page.ts, delivery-retry.ts and    *)
(* feed-page.ts over the progress store.                                   *)
(*                                                                         *)
(* A page attempt reads the link, queries the local feed, pushes the       *)
(* entries in order and commits what it classified.  A delivery retry      *)
(* reads the link, selects one obligation, pushes it and settles or        *)
(* rotates the row.  Nothing but the store's lock orders attempts of       *)
(* different tabs or processes: two of them may push or retry one link.    *)
(***************************************************************************)
EXTENDS SyncNextStore

CONSTANTS
  Workers,     \* concurrent page attempts and delivery retries
  PageSize,    \* SYNC_NEXT_PAGE_SIZE
  MaxHead,     \* bound: positions of the local feed in one domain
  MaxAttempts  \* bound: rotations of one obligation

ASSUME PushAssumption ==
  /\ PageSize \in Nat \ {0}
  /\ MaxHead \in Nat
  /\ MaxAttempts \in Nat
  /\ MaxDomains # 0
  /\ None \notin Cids

VARIABLES
  feed,     \* the local message feed: domain, head and rows
  current,  \* the message that is each record's latest base state
  acked,    \* history: the entries each link's endpoint has acknowledged
  pushers   \* what each worker is doing

pushVars == <<feed, current, acked, pushers>>
vars == <<storeVars, pushVars>>

-----------------------------------------------------------------------------
\* A row of the feed: a write of a record, or its delete.
Row == [position : 1 .. MaxHead, cid : Cids, record : Records, write : BOOLEAN]
Feed == [domain : Domains, head : 0 .. MaxHead, rows : SUBSET Row]

\* The checkpoints a page of the feed may commit.
PageTokens == [domain : Domains, position : 0 .. MaxHead]

HandledWrite == [record : Records, domain : Domains, position : Nat]

Pusher == [phase : {"idle", "query", "page", "select", "retry", "delivered"},
           snap : Snapshot \cup {NoSnapshot}, cursor : Token,
           page : SUBSET Obligation, settled : SUBSET Receipt,
           pending : SUBSET Obligation, handled : SUBSET HandledWrite,
           blocked : BOOLEAN, selected : SUBSET Obligation]

IdlePusher == [phase |-> "idle", snap |-> NoSnapshot, cursor |-> NoToken,
               page |-> {}, settled |-> {}, pending |-> {}, handled |-> {},
               blocked |-> FALSE, selected |-> {}]

RowsAfter(f, position) == {r \in f.rows : r.position > position}

PageRows(f, position) ==
  {r \in RowsAfter(f, position) :
     Cardinality({s \in RowsAfter(f, position) : s.position <= r.position})
       <= PageSize}

\* The cursor is the head, or the last entry if the limit stopped the scan.
IsPageEnd(f, position, end) ==
  IF Cardinality(RowsAfter(f, position)) < PageSize
    THEN end = f.head
    ELSE /\ \E r \in PageRows(f, position) : r.position = end
         /\ \A r \in PageRows(f, position) : r.position <= end

\* deliveryInput: the obligation that an entry becomes if it is retained.
\* Only a RecordsWrite carries its record id.
DeliveryInput(l, d, row) ==
  [link |-> l, domain |-> d, position |-> row.position, cid |-> row.cid,
   record |-> IF row.write THEN row.record ELSE None,
   latest |-> current[row.record] = row.cid, attempt |-> 0]

\* The entries of the page that have no disposition yet, and the next one.
Todo(w) == {e \in pushers[w].page : /\ e \notin pushers[w].pending
                                    /\ KeyOf(e) \notin pushers[w].settled}

IsNext(w, e) == e \in Todo(w) /\ \A o \in Todo(w) : e.position <= o.position

\* rememberHandledWrite: the last current write delivered for each record.
RememberHandledWrite(handled, e) ==
  IF e.latest /\ e.record # None
    THEN {h \in handled : h.record # e.record}
           \cup {[record |-> e.record, domain |-> e.domain, position |-> e.position]}
    ELSE handled

-----------------------------------------------------------------------------
PushInit ==
  /\ feed = [domain |-> 1, head |-> 0, rows |-> {}]
  /\ current = [r \in Records |-> None]
  /\ acked = [l \in Links |-> {}]
  /\ pushers = [w \in Workers |-> IdlePusher]

Init == StoreInit /\ PushInit

(***************************************************************************)
(* The local store (MessageStoreLevel).  A message that becomes its        *)
(* record's latest state displaces older rows of the record; one that does *)
(* not (an older write arriving late, or an initial write whose data has   *)
(* not arrived) is only added.                                             *)
(***************************************************************************)
LocalCommit(record, c, write, latest) ==
  /\ feed.head < MaxHead
  /\ \A r \in feed.rows : r.cid # c
  /\ current' = IF latest THEN [current EXCEPT ![record] = c] ELSE current
  /\ \E displaced \in SUBSET {r \in feed.rows : latest /\ r.record = record} :
       feed' = [feed EXCEPT
         !.head = @ + 1,
         !.rows = (@ \ displaced)
                    \cup {[position |-> feed.head + 1, cid |-> c,
                           record |-> record, write |-> write]}]
  /\ UNCHANGED <<storeVars, acked, pushers>>

\* The data of a record's only message arrives: its row moves to a fresh
\* position and becomes the latest state.
LocalCompleteData(row) ==
  /\ feed.head < MaxHead
  /\ row.write /\ current[row.record] # row.cid
  /\ \A r \in feed.rows : r.record = row.record => r = row
  /\ current' = [current EXCEPT ![row.record] = row.cid]
  /\ feed' = [feed EXCEPT
       !.head = @ + 1,
       !.rows = (@ \ {row}) \cup {[row EXCEPT !.position = feed.head + 1]}]
  /\ UNCHANGED <<storeVars, acked, pushers>>

\* The local store is cleared and draws a fresh epoch.
LocalClear ==
  /\ feed.domain < MaxDomains
  /\ feed' = [domain |-> feed.domain + 1, head |-> 0, rows |-> {}]
  /\ current' = [r \in Records |-> None]
  /\ UNCHANGED <<storeVars, acked, pushers>>

Local ==
  \/ \E record \in Records, c \in Cids, write \in BOOLEAN, latest \in BOOLEAN :
       LocalCommit(record, c, write, latest)
  \/ \E row \in feed.rows : LocalCompleteData(row)
  \/ LocalClear

-----------------------------------------------------------------------------
(***************************************************************************)
(* SyncNextPushPage.run                                                    *)
(***************************************************************************)
EnsureLink(l) ==
  /\ GetOrCreateLink(l)
  /\ UNCHANGED pushVars

PushStart(w, l) ==
  /\ pushers[w].phase = "idle"
  /\ links[l].lifetime # 0
  /\ pushers' = [pushers EXCEPT ![w] = [IdlePusher EXCEPT !.phase = "query",
                                                          !.snap = SnapshotOf(l)]]
  /\ UNCHANGED <<storeVars, feed, current, acked>>

PushQuery(w) ==
  LET q == pushers[w].snap IN
  /\ pushers[w].phase = "query"
  /\ q.push = NoToken \/ q.push.domain = feed.domain
  /\ \E end \in 0 .. MaxHead :
       /\ IsPageEnd(feed, q.push.position, end)
       /\ pushers' = [pushers EXCEPT
            ![w].phase = "page",
            ![w].cursor = [domain |-> feed.domain, position |-> end],
            ![w].page = {DeliveryInput(q.link, feed.domain, r) :
                           r \in PageRows(feed, q.push.position)}]
  /\ UNCHANGED <<storeVars, feed, current, acked>>

\* The remote acknowledges the next entry.
PushAcked(w, e) ==
  /\ pushers[w].phase = "page"
  /\ IsNext(w, e) /\ ~pushers[w].blocked
  /\ acked' = [acked EXCEPT ![e.link] = @ \cup {e}]
  /\ pushers' = [pushers EXCEPT ![w].settled = @ \cup {KeyOf(e)},
                                ![w].handled = RememberHandledWrite(@, e)]
  /\ UNCHANGED <<storeVars, feed, current>>

\* The push fails: the entry is retained; a failure of the link or of the
\* endpoint stops further requests and retains the entries behind it.
PushFailed(w, e, blocks) ==
  /\ pushers[w].phase = "page"
  /\ IsNext(w, e)
  /\ pushers[w].blocked => blocks
  /\ pushers' = [pushers EXCEPT ![w].pending = @ \cup {e},
                                ![w].blocked = blocks]
  /\ UNCHANGED <<storeVars, feed, current, acked>>

\* finishClassifiedPushPage over the first n classified entries: covered
\* obligations count as settled (partitionCoveredDelivery).
CoveredPending(w) ==
  {e \in pushers[w].pending : Covered(e, pushers[w].handled)}

PagePending(w) == pushers[w].pending \ CoveredPending(w)

PageSettled(w) ==
  pushers[w].settled \cup {KeyOf(e) : e \in CoveredPending(w)}

\* sliceSyncNextFeedPage: the whole page, or the classified prefix with the
\* last classified entry as its checkpoint.
Classified(w) == {KeyOf(e) : e \in pushers[w].page \ Todo(w)}

\* Mutant: a page cut short is committed with the whole page's checkpoint.
IsPageCheckpointWhole(w, t) == t = pushers[w].cursor

IsPageCheckpoint(w, t) ==
  IF Todo(w) = {}
    THEN t = pushers[w].cursor
    ELSE /\ t.domain = pushers[w].cursor.domain
         /\ \E r \in Classified(w) : r.position = t.position
         /\ \A r \in Classified(w) : r.position <= t.position

\* A page is committed when every entry has a disposition, or, out of
\* request budget, up to the last entry that has one.  A blocked page makes
\* no requests, so nothing can interrupt it.
ReadyToCommit(w) ==
  /\ pushers[w].phase = "page"
  /\ Todo(w) = {} \/ (Classified(w) # {} /\ ~pushers[w].blocked)

PushCommit(w) ==
  /\ ReadyToCommit(w)
  /\ \E t \in PageTokens :
       /\ IsPageCheckpoint(w, t)
       /\ CommitPushPage(pushers[w].snap, t, Classified(w),
                         PagePending(w), PageSettled(w), pushers[w].handled)
  /\ pushers' = [pushers EXCEPT ![w] = IdlePusher]
  /\ UNCHANGED <<feed, current, acked>>

PushCommitRefused(w) ==
  /\ ReadyToCommit(w)
  /\ Unlocked
  /\ \E t \in PageTokens :
       /\ IsPageCheckpoint(w, t)
       /\ ~PushPageAccepted(pushers[w].snap, t, Classified(w),
                            PagePending(w), PageSettled(w), pushers[w].handled)
  /\ pushers' = [pushers EXCEPT ![w] = IdlePusher]
  /\ UNCHANGED <<storeVars, feed, current, acked>>

\* Stopped, out of budget before the first entry, a failed query, or dead.
PushAbort(w) ==
  /\ pushers[w].phase # "idle"
  /\ pushers' = [pushers EXCEPT ![w] = IdlePusher]
  /\ UNCHANGED <<storeVars, feed, current, acked>>

PushPage(w) ==
  \/ \E l \in Links : PushStart(w, l)
  \/ PushQuery(w)
  \/ \E e \in Todo(w) : PushAcked(w, e)
  \/ \E e \in Todo(w), blocks \in BOOLEAN : PushFailed(w, e, blocks)
  \/ PushCommit(w)
  \/ PushCommitRefused(w)
  \/ PushAbort(w)

-----------------------------------------------------------------------------
(***************************************************************************)
(* retryOneDeliveryObligation                                              *)
(***************************************************************************)
RetryStart(w, l) ==
  /\ pushers[w].phase = "idle"
  /\ links[l].lifetime # 0
  /\ pushers' = [pushers EXCEPT ![w] = [IdlePusher EXCEPT !.phase = "select",
                                                          !.snap = SnapshotOf(l)]]
  /\ UNCHANGED <<storeVars, feed, current, acked>>

\* Mutant: only rows that were the latest state are retried.
RetrySelectLatest(w, d) ==
  /\ pushers[w].phase = "select"
  /\ d.link = pushers[w].snap.link /\ d.latest
  /\ pushers' = [pushers EXCEPT ![w].phase = "retry", ![w].selected = {d}]
  /\ UNCHANGED <<storeVars, feed, current, acked>>

RetrySelect(w, d) ==
  /\ pushers[w].phase = "select"
  /\ d.link = pushers[w].snap.link
  /\ pushers' = [pushers EXCEPT ![w].phase = "retry", ![w].selected = {d}]
  /\ UNCHANGED <<storeVars, feed, current, acked>>

\* pushRetainedRoot reads the message from the local store: one that is no
\* longer there cannot be delivered.
RetryAcked(w, d) ==
  /\ pushers[w].phase = "retry"
  /\ \E r \in feed.rows : r.cid = d.cid
  /\ acked' = [acked EXCEPT ![d.link] = @ \cup {[d EXCEPT !.attempt = 0]}]
  /\ pushers' = [pushers EXCEPT ![w].phase = "delivered"]
  /\ UNCHANGED <<storeVars, feed, current>>

RetrySettle(w, d) ==
  /\ pushers[w].phase = "delivered"
  /\ FinishDeliverySettled(pushers[w].snap, d)
  /\ pushers' = [pushers EXCEPT ![w] = IdlePusher]
  /\ UNCHANGED <<feed, current, acked>>

\* The push failed or threw: the row's attempt moves on.
RetryPending(w, d) ==
  /\ pushers[w].phase = "retry"
  /\ d.attempt < MaxAttempts
  /\ FinishDeliveryPending(pushers[w].snap, d)
  /\ pushers' = [pushers EXCEPT ![w] = IdlePusher]
  /\ UNCHANGED <<feed, current, acked>>

RetryStale(w, d) ==
  /\ pushers[w].phase \in {"retry", "delivered"}
  /\ Unlocked /\ ~IsCurrentAttempt(pushers[w].snap, d)
  /\ pushers' = [pushers EXCEPT ![w] = IdlePusher]
  /\ UNCHANGED <<storeVars, feed, current, acked>>

Retry(w) ==
  \/ \E l \in Links : RetryStart(w, l)
  \/ \E d \in delivery : RetrySelect(w, d)
  \/ \E d \in pushers[w].selected : \/ RetryAcked(w, d)
                                    \/ RetrySettle(w, d)
                                    \/ RetryPending(w, d)
                                    \/ RetryStale(w, d)

-----------------------------------------------------------------------------
Cleaning == Cleanup /\ UNCHANGED pushVars

Reset == Clear /\ UNCHANGED pushVars

Next ==
  \/ Local
  \/ \E l \in Links : EnsureLink(l)
  \/ \E w \in Workers : PushPage(w) \/ Retry(w)
  \/ Cleaning
  \/ Reset

Spec == Init /\ [][Next]_vars

(***************************************************************************)
(* Fairness, for liveness: runs are repeated while work remains, so an     *)
(* idle worker gets to the link's page and to its retries, and the remote  *)
(* acknowledges an entry that is pushed to it over and over.               *)
(***************************************************************************)
PushFairness ==
  /\ \A w \in Workers, l \in Links : SF_vars(PushStart(w, l)) /\ SF_vars(RetryStart(w, l))
  /\ \A w \in Workers :
       /\ SF_vars(PushQuery(w))
       /\ \A c \in Cids : SF_vars(\E e \in Todo(w) : e.cid = c /\ PushAcked(w, e))
       /\ SF_vars(Todo(w) = {} /\ PushCommit(w))
       /\ \A c \in Cids : SF_vars(\E d \in delivery : d.cid = c /\ RetrySelect(w, d))
       /\ SF_vars(\E d \in pushers[w].selected : RetryAcked(w, d))
       /\ WF_vars(PushAbort(w))

LiveSpec == Spec /\ PushFairness

-----------------------------------------------------------------------------
\* The shape of every variable; a link that is not stored has no checkpoint.
TypeOK ==
  /\ StoreTypeOK
  /\ feed \in Feed
  /\ current \in [Records -> Cids \cup {None}]
  /\ acked \in [Links -> SUBSET Obligation]
  /\ pushers \in [Workers -> Pusher]
  /\ \A w \in Workers : pushers[w].phase # "idle" => pushers[w].snap # NoSnapshot

\* The record has moved on from a row: the endpoint acknowledged a write of it
\* at the row's position or beyond that was its latest state when it was read.
Superseded(l, row) ==
  /\ row.write
  /\ current[row.record] # row.cid
  /\ \E a \in acked[l] : /\ a.latest /\ a.record = row.record
                        /\ a.domain = feed.domain /\ a.position >= row.position

\* Every row of the local feed that a link's push checkpoint has passed was
\* acknowledged by the endpoint, or is owed to it, or is an outdated write
\* that a newer acknowledged one supersedes: the latest state of a record and
\* a record's delete are never dropped, whatever is covered, blocked, cut
\* short, retried or crashed.
PushNoLoss ==
  \A l \in Links : \A r \in feed.rows :
    LET t == links[l].push IN
    t.domain = feed.domain /\ r.position <= t.position =>
      \/ \E a \in acked[l] : a.cid = r.cid
      \/ \E d \in delivery : /\ d.link = l /\ d.domain = t.domain
                             /\ d.position = r.position /\ d.cid = r.cid
      \/ Superseded(l, r)

\* The obligations of a link never exceed their limit.
DeliveryWithinCapacity ==
  \A l \in Links : Cardinality({d \in delivery : d.link = l}) <= MaxDelivery

\* One row per receipt: a rotated, recommitted or covered obligation never
\* exists twice.
OneObligationPerReceipt ==
  \A d, e \in delivery : KeyOf(d) = KeyOf(e) => d = e

\* While a link keeps its lifetime its push checkpoint stays in one domain and
\* only grows, whichever of several racing page attempts commits.
CheckpointMonotone ==
  [][\A l \in Links :
       links[l].lifetime # 0 /\ links'[l].lifetime = links[l].lifetime =>
         \/ links'[l].push = links[l].push
         \/ CanAdvance(links[l].push, links'[l].push)]_vars

\* An obligation of a stored link changes only by a page or a retry of the
\* link's own lifetime, and a retry must have selected that very attempt of
\* it, or a current write of its record at or after it ("preventing a stale
\* retry from changing a replacement link or newer retry state").
StaleRetryHarmless ==
  [][\A d \in delivery \ delivery' :
       links'[d.link].lifetime = links[d.link].lifetime /\ clearing = "no" =>
         \E w \in Workers :
           /\ pushers'[w].phase = "idle"
           /\ pushers[w].snap.link = d.link
           /\ pushers[w].snap.lifetime = links[d.link].lifetime
           /\ \/ pushers[w].phase = "page"
              \/ \E s \in pushers[w].selected \cap delivery :
                   s = d \/ (s.latest /\ s.record = d.record /\ SourceAtOrBefore(d, s))]_vars

\* Once resets stop, a live row of the local feed is eventually acknowledged by
\* each link's endpoint, or it is displaced, superseded, or its link is gone
\* or stuck in a former domain.
EveryRowDelivered ==
  <>[](clearing = "no") =>
  \A l \in Links, c \in Cids :
    []<>(\/ \A r \in feed.rows : r.cid = c => Superseded(l, r)
         \/ \E a \in acked[l] : a.cid = c
         \/ links[l].lifetime = 0
         \/ links[l].push.domain \notin {None, feed.domain})
=============================================================================
