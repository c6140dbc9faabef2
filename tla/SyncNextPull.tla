---------------------------- MODULE SyncNextPull ----------------------------
(***************************************************************************)
(* Pulling in the next sync engine: pull-page.ts, quarantine-retry.ts and  *)
(* feed-page.ts over the progress store.                                   *)
(*                                                                         *)
(* Workers are concurrent page attempts (runner.ts starts one per target,  *)
(* and several tabs or processes may run at once).  A worker reads the     *)
(* link outside the store's lock, queries the remote feed, admits the      *)
(* roots of the page one after the other, and only then commits under the  *)
(* lock; anything may happen to the link and the feed in between.  One     *)
(* quarantine retry runs at a time for each projection (runQuarantine's    *)
(* lock).                                                                  *)
(***************************************************************************)
EXTENDS SyncNextStore

CONSTANTS
  Workers,   \* concurrent page attempts
  PageSize,  \* SYNC_NEXT_PAGE_SIZE
  MaxHead    \* bound: positions of one feed

ASSUME PullAssumption ==
  /\ PageSize \in Nat \ {0}
  /\ MaxHead \in Nat
  /\ MaxDomains # 0

VARIABLES
  source,   \* each link's remote feed, restricted to the link's scope
  local,    \* CIDs that local handling has been established for
  pullers,  \* the page attempt each worker is making
  retriers  \* the quarantine retry of each projection

pullVars == <<source, local, pullers, retriers>>
vars == <<storeVars, pullVars>>

-----------------------------------------------------------------------------
Row == [position : 1 .. MaxHead, cid : Cids]
Feed == [domain : Domains, head : 0 .. MaxHead, rows : SUBSET Row]

Puller == [phase : {"idle", "query", "page"}, snap : Snapshot \cup {NoSnapshot},
           cursor : Token, page : SUBSET Receipt,
           settled : SUBSET Receipt, pending : SUBSET Receipt]

IdlePuller == [phase |-> "idle", snap |-> NoSnapshot, cursor |-> NoToken,
               page |-> {}, settled |-> {}, pending |-> {}]

Retrier == [phase : {"idle", "attempt", "settle"}, cid : Cids \cup {None}]
IdleRetrier == [phase |-> "idle", cid |-> None]

ReceiptOf(l, d, row) == [link |-> l, domain |-> d,
                         position |-> row.position, cid |-> row.cid]

\* MessagesQuery: the first PageSize live rows after a position, and the
\* cursor, which is the head unless the limit stopped the scan before it.
RowsAfter(f, position) == {r \in f.rows : r.position > position}

PageRows(f, position) ==
  {r \in RowsAfter(f, position) :
     Cardinality({s \in RowsAfter(f, position) : s.position <= r.position})
       <= PageSize}

IsPageEnd(f, position, end) ==
  IF Cardinality(RowsAfter(f, position)) < PageSize
    THEN end = f.head
    ELSE /\ \E r \in PageRows(f, position) : r.position = end
         /\ \A r \in PageRows(f, position) : r.position <= end

Todo(w) == pullers[w].page \ (pullers[w].settled \cup pullers[w].pending)

-----------------------------------------------------------------------------
PullInit ==
  /\ source = [l \in Links |-> [domain |-> 1, head |-> 0, rows |-> {}]]
  /\ local = {}
  /\ pullers = [w \in Workers |-> IdlePuller]
  /\ retriers = [p \in Projections |-> IdleRetrier]

Init == StoreInit /\ PullInit

(***************************************************************************)
(* The remote feed (MessageStoreLevel; see ReplicationLog for the log).    *)
(***************************************************************************)
\* The next position goes to a live row, which replaces the rows in `old`.
Appended(f, c, old) ==
  [domain |-> f.domain, head |-> f.head + 1,
   rows |-> (f.rows \ old) \cup {[position |-> f.head + 1, cid |-> c]}]

RemotePut(l, c) ==
  /\ source[l].head < MaxHead
  /\ \A r \in source[l].rows : r.cid # c
  /\ source' = [source EXCEPT ![l] = Appended(source[l], c, {})]
  /\ UNCHANGED <<storeVars, local, pullers, retriers>>

\* A message outside the link's scope takes a position and is not delivered.
RemotePutOutOfScope(l) ==
  LET f == source[l] IN
  /\ f.head < MaxHead
  /\ source' = [source EXCEPT
       ![l] = [domain |-> f.domain, head |-> f.head + 1, rows |-> f.rows]]
  /\ UNCHANGED <<storeVars, local, pullers, retriers>>

RemoteDelete(l, row) ==
  LET f == source[l] IN
  /\ source' = [source EXCEPT
       ![l] = [domain |-> f.domain, head |-> f.head, rows |-> f.rows \ {row}]]
  /\ UNCHANGED <<storeVars, local, pullers, retriers>>

\* completeData moves a row to a fresh position.
RemoteCompleteData(l, row) ==
  /\ source[l].head < MaxHead
  /\ source' = [source EXCEPT ![l] = Appended(source[l], row.cid, {row})]
  /\ UNCHANGED <<storeVars, local, pullers, retriers>>

\* A cleared store draws a fresh epoch.
RemoteClear(l) ==
  /\ source[l].domain < MaxDomains
  /\ source' = [source EXCEPT
       ![l] = [domain |-> source[l].domain + 1, head |-> 0, rows |-> {}]]
  /\ UNCHANGED <<storeVars, local, pullers, retriers>>

Remote ==
  \E l \in Links :
    \/ \E c \in Cids : RemotePut(l, c)
    \/ RemotePutOutOfScope(l)
    \/ \E row \in source[l].rows : RemoteDelete(l, row)
    \/ \E row \in source[l].rows : RemoteCompleteData(l, row)
    \/ RemoteClear(l)

-----------------------------------------------------------------------------
(***************************************************************************)
(* SyncNextPullPage.run                                                    *)
(***************************************************************************)
EnsureLink(l) ==
  /\ GetOrCreateLink(l)
  /\ UNCHANGED pullVars

PullStart(w, l) ==
  /\ pullers[w].phase = "idle"
  /\ links[l].lifetime # 0
  /\ pullers' = [pullers EXCEPT ![w] = [IdlePuller EXCEPT !.phase = "query",
                                                          !.snap = SnapshotOf(l)]]
  /\ UNCHANGED <<storeVars, source, local, retriers>>

\* A cursor of another domain is refused by the remote with a progress gap,
\* which ends the attempt (PullAbort).
PullQuery(w) ==
  LET q == pullers[w].snap
      f == source[q.link] IN
  /\ pullers[w].phase = "query"
  /\ q.pull = NoToken \/ q.pull.domain = f.domain
  /\ \E end \in 0 .. MaxHead :
       /\ IsPageEnd(f, q.pull.position, end)
       /\ pullers' = [pullers EXCEPT ![w] =
            [phase |-> "page", snap |-> q,
             cursor |-> [domain |-> f.domain, position |-> end],
             page |-> {ReceiptOf(q.link, f.domain, r) :
                         r \in PageRows(f, q.pull.position)},
             settled |-> {}, pending |-> {}]]
  /\ UNCHANGED <<storeVars, source, local, retriers>>

\* admitClosure handled the root: Applied, Duplicate or Superseded.
PullAdmitted(w, r) ==
  /\ pullers[w].phase = "page"
  /\ r \in Todo(w)
  /\ local' = local \cup {r.cid}
  /\ pullers' = [pullers EXCEPT ![w].settled = @ \cup {r}]
  /\ UNCHANGED <<storeVars, source, retriers>>

\* admitClosure deferred the root or failed.
PullDeferred(w, r) ==
  /\ pullers[w].phase = "page"
  /\ r \in Todo(w)
  /\ pullers' = [pullers EXCEPT ![w].pending = @ \cup {r}]
  /\ UNCHANGED <<storeVars, source, local, retriers>>

PullCommit(w) ==
  LET p == pullers[w] IN
  /\ p.phase = "page" /\ Todo(w) = {}
  /\ CommitPullPage(p.snap, p.cursor, p.page, p.pending, p.settled)
  /\ pullers' = [pullers EXCEPT ![w] = IdlePuller]
  /\ UNCHANGED <<source, local, retriers>>

\* The commit returns false (stale, or an empty replay) or throws.
PullCommitRefused(w) ==
  LET p == pullers[w] IN
  /\ p.phase = "page" /\ Todo(w) = {}
  /\ Unlocked
  /\ ~PullPageAccepted(p.snap, p.cursor, p.page, p.pending, p.settled)
  /\ pullers' = [pullers EXCEPT ![w] = IdlePuller]
  /\ UNCHANGED <<storeVars, source, local, retriers>>

\* Stopped, out of request budget, a failed query, or the process died.
PullAbort(w) ==
  /\ pullers[w].phase # "idle"
  /\ pullers' = [pullers EXCEPT ![w] = IdlePuller]
  /\ UNCHANGED <<storeVars, source, local, retriers>>

PullPage(w) ==
  \/ \E l \in Links : PullStart(w, l)
  \/ PullQuery(w)
  \/ \E r \in Todo(w) : PullAdmitted(w, r) \/ PullDeferred(w, r)
  \/ PullCommit(w)
  \/ PullCommitRefused(w)
  \/ PullAbort(w)

-----------------------------------------------------------------------------
(***************************************************************************)
(* retryOneQuarantinedRoot.  Which row is selected is the subject of       *)
(* SyncNextRetryOrder; here it is any row of the projection.               *)
(***************************************************************************)
RetrySelect(p, r) ==
  /\ retriers[p].phase = "idle"
  /\ ProjectionOf[r.link] = p
  /\ retriers' = [retriers EXCEPT ![p] = [phase |-> "attempt", cid |-> r.cid]]
  /\ UNCHANGED <<storeVars, source, local, pullers>>

\* The attempt establishes complete local state for the root.
RetryMaterialized(p) ==
  /\ retriers[p].phase = "attempt"
  /\ local' = local \cup {retriers[p].cid}
  /\ retriers' = [retriers EXCEPT ![p].phase = "settle"]
  /\ UNCHANGED <<storeVars, source, pullers>>

RetrySettle(p) ==
  /\ retriers[p].phase = "settle"
  /\ SettleQuarantineForProjection(p, retriers[p].cid)
  /\ retriers' = [retriers EXCEPT ![p] = IdleRetrier]
  /\ UNCHANGED <<source, local, pullers>>

RetryCrash(p) ==
  /\ retriers[p].phase = "settle"
  /\ SettleQuarantineInterrupted(p, retriers[p].cid)
  /\ retriers' = [retriers EXCEPT ![p] = IdleRetrier]
  /\ UNCHANGED <<source, local, pullers>>

\* Pending, failed or stopped: at most the row's attempt time changes.
RetryPending(p) ==
  /\ retriers[p].phase = "attempt"
  /\ retriers' = [retriers EXCEPT ![p] = IdleRetrier]
  /\ UNCHANGED <<storeVars, source, local, pullers>>

Retry(p) ==
  \/ \E r \in quarantine : RetrySelect(p, r)
  \/ RetryMaterialized(p)
  \/ RetrySettle(p)
  \/ RetryCrash(p)
  \/ RetryPending(p)

-----------------------------------------------------------------------------
Cleaning == Cleanup /\ UNCHANGED pullVars

Reset == Clear /\ UNCHANGED pullVars

-----------------------------------------------------------------------------
Next ==
  \/ Remote
  \/ \E l \in Links : EnsureLink(l)
  \/ \E w \in Workers : PullPage(w)
  \/ \E p \in Projections : Retry(p)
  \/ Cleaning
  \/ Reset

Spec == Init /\ [][Next]_vars

(***************************************************************************)
(* Fairness, for liveness.  Runs are repeated for as long as work remains  *)
(* (the runner reports workRemaining), so an idle worker starts on its     *)
(* link, and an attempt that cannot go on ends.  The remote and the        *)
(* network are assumed to let an attempt through now and then: a page      *)
(* commits, a retry materializes and settles, if tried over and over.      *)
(* Oldest-first selection (SyncNextRetryOrder) brings every retained row's *)
(* turn about.                                                             *)
(***************************************************************************)
PullFairness ==
  /\ \A w \in Workers, l \in Links : WF_vars(PullStart(w, l))
  /\ \A w \in Workers :
       /\ SF_vars(PullQuery(w))
       /\ SF_vars(\E r \in Todo(w) : PullAdmitted(w, r) \/ PullDeferred(w, r))
       /\ SF_vars(PullCommit(w))
       /\ WF_vars(PullAbort(w))
  /\ \A p \in Projections :
       /\ \A c \in Cids : SF_vars(\E r \in quarantine : r.cid = c /\ RetrySelect(p, r))
       /\ \A c \in Cids : SF_vars(retriers[p].cid = c /\ RetryMaterialized(p))
       /\ SF_vars(RetrySettle(p))

LiveSpec == Spec /\ PullFairness

-----------------------------------------------------------------------------
\* The shape of every variable; a worker that is not idle holds a stored
\* lifetime, and its dispositions are of roots of its page.
TypeOK ==
  /\ StoreTypeOK
  /\ source \in [Links -> Feed]
  /\ local \subseteq Cids
  /\ pullers \in [Workers -> Puller]
  /\ \A w \in Workers :
       /\ pullers[w].phase # "idle" => pullers[w].snap # NoSnapshot
       /\ pullers[w].settled \cup pullers[w].pending \subseteq pullers[w].page
  /\ retriers \in [Projections -> Retrier]
  /\ \A p \in Projections : retriers[p].phase # "idle" => retriers[p].cid \in Cids

\* Every live entry of the source that a link's checkpoint has passed is
\* handled locally or retained in that link's quarantine, whatever pages,
\* retries, cleanups, resets and crashes interleave ("Every returned root is
\* either settled or retained in quarantine before the page checkpoint
\* advances").
PullNoLoss ==
  \A l \in Links : \A r \in source[l].rows :
    LET t == links[l].pull IN
    t.domain = source[l].domain /\ r.position <= t.position =>
      \/ r.cid \in local
      \/ ReceiptOf(l, t.domain, r) \in quarantine

\* The tenant's quarantine never exceeds its row and byte limits, although
\* pages of several links race for the last slots.
QuarantineWithinCapacity == WithinQuarantineCapacity(quarantine)

\* While a link keeps its lifetime its checkpoints stay in one domain and
\* only grow, whichever of several racing page attempts commits.
CheckpointMonotone ==
  [][\A l \in Links :
       links[l].lifetime # 0 /\ links'[l].lifetime = links[l].lifetime =>
         \/ links'[l].pull = links[l].pull
         \/ CanAdvance(links[l].pull, links'[l].pull)]_vars

\* A page moves the checkpoint only of the lifetime it was queried for: an
\* attempt that outlives its link cannot write into the link created in its
\* place, although that link has the same key.
CommitFromOwnLifetime ==
  [][\A l \in Links :
       links'[l].pull \notin {links[l].pull, NoToken} =>
         \E w \in Workers :
           /\ pullers[w].phase = "page" /\ pullers'[w].phase = "idle"
           /\ pullers[w].snap.link = l /\ IsCurrent(pullers[w].snap)
           /\ pullers[w].cursor = links'[l].pull]_vars

\* Stale cleanup cannot remove a replacement: outside a reset a stored link
\* disappears only by a cleanup that listed that very lifetime.
StaleCleanupHarmless ==
  [][\A l \in Links :
       links[l].lifetime # 0 /\ links'[l].lifetime # links[l].lifetime =>
         \/ clearing = "links"
         \/ cleaner.link = l /\ cleaner.lifetime = links[l].lifetime]_vars

Intake ==
  INSTANCE PullIntake WITH
    feed <- source, checkpoint <- [l \in Links |-> links[l].pull],
    owed <- quarantine, handled <- local

\* Workers, fences, cleanup, resets and crashes implement the abstract intake:
\* each step moves one checkpoint over handled or owed rows, settles rows, or
\* changes nothing.
ImplementsIntake == Intake!Spec

\* Once resets stop, a live entry of a feed whose link is neither removed nor
\* left behind by a change of the feed's domain is eventually handled
\* locally, or gone, even when the quarantine fills up on the way.
EveryEntryHandled ==
  <>[](clearing = "no") =>
  \A l \in Links, c \in Cids :
    []<>(\/ \A r \in source[l].rows : r.cid # c
         \/ c \in local
         \/ links[l].lifetime = 0
         \/ links[l].pull.domain \notin {None, source[l].domain})
=============================================================================
