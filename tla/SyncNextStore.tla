---------------------------- MODULE SyncNextStore ----------------------------
(***************************************************************************)
(* The durable progress store of the next sync engine                      *)
(* (packages/agent/src/sync-next/progress-store.ts): exact links with      *)
(* their two checkpoints, the quarantine of inbound roots and the          *)
(* outbound delivery obligations, all of one tenant.                       *)
(*                                                                         *)
(* Every mutation runs under one cross-context lock (runMutation), so it   *)
(* is one action here, whatever process or tab it runs in.  The exception  *)
(* is a reset: it holds the lock over several Level writes and a crash     *)
(* may fall between them, so it is a sequence of actions, and `clearing`   *)
(* is at once the reset's position and the lock it holds.                  *)
(*                                                                         *)
(* A token is a stream/epoch domain and a position.  The CID a token may   *)
(* carry is left out: positions of a domain are never reused, so within    *)
(* one link lifetime the position determines it.                           *)
(***************************************************************************)
EXTENDS Integers, FiniteSets

CONSTANTS
  Links,          \* exact link keys of the tenant
  Projections,    \* projection ids
  ProjectionOf,   \* the projection of each link
  MaxDomains,     \* bound: token domains of one feed, in order of creation
  Cids,           \* message CIDs
  HeavyCids,      \* the CIDs whose feed entry takes two units of storage
  Records,        \* record ids of RecordsWrite messages
  None,           \* `undefined`
  MaxLifetimes,   \* bound: links created in one behaviour
  MaxQuarantine,       \* maxQuarantinePerTenant
  MaxQuarantineBytes,  \* maxQuarantineBytesPerTenant, in units
  MaxDelivery          \* maxDeliveryPerLink

ASSUME StoreAssumption ==
  /\ ProjectionOf \in [Links -> Projections]
  /\ HeavyCids \subseteq Cids
  /\ None \notin Nat
  /\ None \notin Records
  /\ MaxDomains \in Nat
  /\ MaxLifetimes \in Nat
  /\ MaxQuarantine \in Nat
  /\ MaxQuarantineBytes \in Nat
  /\ MaxDelivery \in Nat

VARIABLES
  links,       \* the links sublevel; lifetime 0 is a link that is not stored
  quarantine,  \* the quarantine sublevel: receipts of retained inbound roots
  delivery,    \* the delivery sublevel: outbound obligations
  lifetimes,   \* number of lifetime ids drawn so far
  clearing,    \* "no", or the sublevels a reset is emptying: "links", "rows"
  cleaner      \* the link and lifetime a cleanup listed and means to remove

storeVars == <<links, quarantine, delivery, lifetimes, clearing, cleaner>>

-----------------------------------------------------------------------------
\* A domain is a stream id and an epoch; a fresh one is never a former one.
Domains == 1 .. MaxDomains

Token == [domain : Domains \cup {None}, position : Nat]
NoToken == [domain |-> None, position |-> 0]

Link == [lifetime : Nat, pull : Token, push : Token]
NoLink == [lifetime |-> 0, pull |-> NoToken, push |-> NoToken]

\* One source receipt beneath its exact link; also the row's durable key.
Receipt == [link : Links, domain : Domains, position : Nat, cid : Cids]

Obligation == [link : Links, domain : Domains, position : Nat, cid : Cids,
               record : Records \cup {None}, latest : BOOLEAN, attempt : Nat]

KeyOf(row) == [link |-> row.link, domain |-> row.domain,
               position |-> row.position, cid |-> row.cid]

\* What a caller holds of a link it read outside the lock.
Snapshot == [link : Links, lifetime : Nat, pull : Token, push : Token]

NoSnapshot == [link |-> None, lifetime |-> 0, pull |-> NoToken, push |-> NoToken]
NoLifetime == [link |-> None, lifetime |-> 0]

SnapshotOf(l) == [link |-> l, lifetime |-> links[l].lifetime,
                  pull |-> links[l].pull, push |-> links[l].push]

IsCurrent(q) == q.lifetime # 0 /\ links[q.link].lifetime = q.lifetime

-----------------------------------------------------------------------------
SourceAtOrBefore(source, through) ==
  source.domain = through.domain /\ source.position <= through.position

\* A domain change is an exception in the code: neither progress nor replay.
CanAdvance(current, incoming) ==
  \/ current = NoToken
  \/ current.domain = incoming.domain /\ incoming.position > current.position

\* The receipts of a page lie beyond the previous checkpoint and within the
\* new one, one CID to a position, and each has exactly one disposition.
ValidPage(checkpoint, page, pending, settled, previous) ==
  /\ \A r \in page : /\ SourceAtOrBefore(r, checkpoint)
                     /\ previous = NoToken \/ r.position > previous.position
  /\ \A r, s \in page : r.position = s.position => r = s
  /\ pending \cap settled = {}
  /\ pending \cup settled = page

\* Mutant: the row limit is exclusive.
WithinQuarantineCapacityExclusive(rows) ==
  /\ Cardinality(rows) < MaxQuarantine
  /\ Cardinality(rows) + Cardinality({r \in rows : r.cid \in HeavyCids})
       <= MaxQuarantineBytes

WithinQuarantineCapacity(rows) ==
  /\ Cardinality(rows) <= MaxQuarantine
  /\ Cardinality(rows) + Cardinality({r \in rows : r.cid \in HeavyCids})
       <= MaxQuarantineBytes

\* Mutant: coverage does not compare source positions.
CoveredAnyPosition(row, handled) ==
  /\ row.record # None
  /\ \E h \in handled : h.record = row.record

\* An obligation is covered by a handled current write of its record at or
\* after its own source position.
Covered(row, handled) ==
  /\ row.record # None
  /\ \E h \in handled : h.record = row.record /\ SourceAtOrBefore(row, h)

Unlocked == clearing = "no"

-----------------------------------------------------------------------------
StoreInit ==
  /\ links = [l \in Links |-> NoLink]
  /\ quarantine = {}
  /\ delivery = {}
  /\ lifetimes = 0
  /\ clearing = "no"
  /\ cleaner = NoLifetime

\* An existing link is returned as it is, which changes nothing.
GetOrCreateLink(l) ==
  /\ Unlocked
  /\ links[l].lifetime = 0
  /\ lifetimes < MaxLifetimes
  /\ lifetimes' = lifetimes + 1
  /\ links' = [links EXCEPT
       ![l] = [lifetime |-> lifetimes + 1, pull |-> NoToken, push |-> NoToken]]
  /\ UNCHANGED <<quarantine, delivery, clearing, cleaner>>

\* Mutant: retirement does not compare lifetimes.
RetireLinkByKey(q) ==
  /\ Unlocked
  /\ links[q.link].lifetime # 0
  /\ links' = [links EXCEPT ![q.link] = NoLink]
  /\ delivery' = {d \in delivery : d.link # q.link}
  /\ UNCHANGED <<quarantine, lifetimes, clearing>>

\* Retirement keeps the projection's quarantine.
RetireLink(q) ==
  /\ Unlocked
  /\ IsCurrent(q)
  /\ links' = [links EXCEPT ![q.link] = NoLink]
  /\ delivery' = {d \in delivery : d.link # q.link}
  /\ UNCHANGED <<quarantine, lifetimes, clearing>>

DeleteLinkAndPendingWork(q) ==
  /\ Unlocked
  /\ IsCurrent(q)
  /\ links' = [links EXCEPT ![q.link] = NoLink]
  /\ delivery' = {d \in delivery : d.link # q.link}
  /\ quarantine' = {r \in quarantine : r.link # q.link}
  /\ UNCHANGED <<lifetimes, clearing>>

\* Mutant: the checkpoint the page was queried from is not compared.
PullPageAcceptedUnfenced(q, checkpoint, page, pending, settled) ==
  /\ IsCurrent(q)
  /\ CanAdvance(q.pull, checkpoint)
  /\ ValidPage(checkpoint, page, pending, settled, q.pull)
  /\ pending # {} =>
       WithinQuarantineCapacity((quarantine \cup pending) \ settled)

\* Mutant: any stored lifetime of the link will do.
PullPageAcceptedAnyLifetime(q, checkpoint, page, pending, settled) ==
  /\ links[q.link].lifetime # 0
  /\ links[q.link].pull = q.pull
  /\ CanAdvance(q.pull, checkpoint)
  /\ ValidPage(checkpoint, page, pending, settled, q.pull)
  /\ pending # {} =>
       WithinQuarantineCapacity((quarantine \cup pending) \ settled)

\* Mutant: the capacity check forgets the rows of earlier pages.
PullPageAcceptedOwnRows(q, checkpoint, page, pending, settled) ==
  /\ IsCurrent(q)
  /\ links[q.link].pull = q.pull
  /\ CanAdvance(q.pull, checkpoint)
  /\ ValidPage(checkpoint, page, pending, settled, q.pull)
  /\ pending # {} => WithinQuarantineCapacity(pending)

\* The conditions under which commitPullPage writes its batch.
PullPageAccepted(q, checkpoint, page, pending, settled) ==
  /\ IsCurrent(q)
  /\ links[q.link].pull = q.pull
  /\ CanAdvance(q.pull, checkpoint)
  /\ ValidPage(checkpoint, page, pending, settled, q.pull)
  /\ pending # {} =>
       WithinQuarantineCapacity((quarantine \cup pending) \ settled)

CommitPullPage(q, checkpoint, page, pending, settled) ==
  /\ Unlocked
  /\ PullPageAccepted(q, checkpoint, page, pending, settled)
  /\ quarantine' = (quarantine \cup pending) \ settled
  /\ links' = [links EXCEPT ![q.link].pull = checkpoint]
  /\ UNCHANGED <<delivery, lifetimes, clearing, cleaner>>

\* The obligations of the link once a page is committed: existing and new
\* rows that no handled write covers, less the settled receipts.
DeliveryAfter(q, pending, settled, handled) ==
  LET keys == {KeyOf(d) : d \in {p \in pending : ~Covered(p, handled)}} IN
  {d \in delivery : /\ d.link = q.link => ~Covered(d, handled)
                    /\ KeyOf(d) \notin keys \cup settled}
    \cup {p \in pending : ~Covered(p, handled) /\ KeyOf(p) \notin settled}

\* Mutant: the checkpoint the page was queried from is not compared.
PushPageAcceptedUnfenced(q, checkpoint, page, pending, settled, handled) ==
  /\ IsCurrent(q)
  /\ CanAdvance(q.push, checkpoint)
  /\ ValidPage(checkpoint, page, {KeyOf(p) : p \in pending}, settled, q.push)
  /\ Cardinality({d \in DeliveryAfter(q, pending, settled, handled) :
                    d.link = q.link}) <= MaxDelivery

\* Mutant: the capacity check forgets the rows of earlier pages.
PushPageAcceptedOwnRows(q, checkpoint, page, pending, settled, handled) ==
  /\ IsCurrent(q)
  /\ links[q.link].push = q.push
  /\ CanAdvance(q.push, checkpoint)
  /\ ValidPage(checkpoint, page, {KeyOf(p) : p \in pending}, settled, q.push)
  /\ Cardinality(pending) <= MaxDelivery

PushPageAccepted(q, checkpoint, page, pending, settled, handled) ==
  /\ IsCurrent(q)
  /\ links[q.link].push = q.push
  /\ CanAdvance(q.push, checkpoint)
  /\ ValidPage(checkpoint, page, {KeyOf(p) : p \in pending}, settled, q.push)
  /\ \A h \in handled : \E r \in settled :
       r.domain = h.domain /\ r.position = h.position
  /\ \A h, g \in handled : h.record = g.record => h = g
  /\ Cardinality({d \in DeliveryAfter(q, pending, settled, handled) :
                    d.link = q.link}) <= MaxDelivery

CommitPushPage(q, checkpoint, page, pending, settled, handled) ==
  /\ Unlocked
  /\ PushPageAccepted(q, checkpoint, page, pending, settled, handled)
  /\ delivery' = DeliveryAfter(q, pending, settled, handled)
  /\ links' = [links EXCEPT ![q.link].push = checkpoint]
  /\ UNCHANGED <<quarantine, lifetimes, clearing, cleaner>>

\* Settle every receipt of the projection that names the CID.
SettleQuarantineForProjection(projection, cid) ==
  /\ Unlocked
  /\ quarantine' = {r \in quarantine :
                      ~(ProjectionOf[r.link] = projection /\ r.cid = cid)}
  /\ UNCHANGED <<links, delivery, lifetimes, clearing, cleaner>>

\* The deletions of a settlement are separate writes: a crash keeps some.
SettleQuarantineInterrupted(projection, cid) ==
  /\ Unlocked
  /\ \E lost \in SUBSET {r \in quarantine :
                           ProjectionOf[r.link] = projection /\ r.cid = cid} :
       quarantine' = quarantine \ lost
  /\ UNCHANGED <<links, delivery, lifetimes, clearing, cleaner>>

\* Mutant: the link's lifetime is not compared.
IsCurrentAttemptAnyLifetime(q, selected) ==
  links[q.link].lifetime # 0 /\ selected \in delivery

\* The attempt a retry made still is the row's latest one.
IsCurrentAttempt(q, selected) == IsCurrent(q) /\ selected \in delivery

FinishDeliverySettled(q, selected) ==
  /\ Unlocked
  /\ IsCurrentAttempt(q, selected)
  /\ delivery' =
       IF selected.latest /\ selected.record # None
         THEN {d \in delivery : ~(/\ d.link = q.link
                                  /\ d.record = selected.record
                                  /\ SourceAtOrBefore(d, selected))}
         ELSE delivery \ {selected}
  /\ UNCHANGED <<links, quarantine, lifetimes, clearing, cleaner>>

\* Mutant: the rotated row is written beside the former one.
FinishDeliveryPendingKeepsRow(q, selected) ==
  /\ Unlocked
  /\ IsCurrentAttempt(q, selected)
  /\ delivery' = delivery \cup {[selected EXCEPT !.attempt = @ + 1]}
  /\ UNCHANGED <<links, quarantine, lifetimes, clearing, cleaner>>

FinishDeliveryPending(q, selected) ==
  /\ Unlocked
  /\ IsCurrentAttempt(q, selected)
  /\ delivery' = (delivery \ {selected})
                   \cup {[selected EXCEPT !.attempt = @ + 1]}
  /\ UNCHANGED <<links, quarantine, lifetimes, clearing, cleaner>>

-----------------------------------------------------------------------------
(***************************************************************************)
(* clear() and deleteForTenant() empty the links sublevel first and then   *)
(* the two sublevels of pending rows, in parallel.  A Level range clear    *)
(* removes its rows in several writes.                                     *)
(***************************************************************************)
\* Mutant: a reset begins with the pending rows.
StartClearWithRows ==
  /\ Unlocked
  /\ clearing' = "rows"
  /\ UNCHANGED <<links, quarantine, delivery, lifetimes, cleaner>>

StartClear ==
  /\ Unlocked
  /\ clearing' = "links"
  /\ UNCHANGED <<links, quarantine, delivery, lifetimes, cleaner>>

ClearLink(l) ==
  /\ clearing = "links"
  /\ links[l].lifetime # 0
  /\ links' = [links EXCEPT ![l] = NoLink]
  /\ UNCHANGED <<quarantine, delivery, lifetimes, clearing, cleaner>>

LinksCleared ==
  /\ clearing = "links"
  /\ \A l \in Links : links[l].lifetime = 0
  /\ clearing' = "rows"
  /\ UNCHANGED <<links, quarantine, delivery, lifetimes, cleaner>>

ClearRow ==
  /\ clearing = "rows"
  /\ \/ \E r \in quarantine : /\ quarantine' = quarantine \ {r}
                              /\ UNCHANGED delivery
     \/ \E d \in delivery : /\ delivery' = delivery \ {d}
                            /\ UNCHANGED quarantine
  /\ UNCHANGED <<links, lifetimes, clearing, cleaner>>

ClearDone ==
  /\ clearing = "rows"
  /\ quarantine = {} /\ delivery = {}
  /\ clearing' = "no"
  /\ UNCHANGED <<links, quarantine, delivery, lifetimes, cleaner>>

\* The process holding the lock dies; the sublevels keep what was written.
ClearInterrupted ==
  /\ clearing # "no"
  /\ clearing' = "no"
  /\ UNCHANGED <<links, quarantine, delivery, lifetimes, cleaner>>

Clear ==
  \/ StartClear
  \/ \E l \in Links : ClearLink(l)
  \/ LinksCleared
  \/ ClearRow
  \/ ClearDone
  \/ ClearInterrupted

(***************************************************************************)
(* Cleanup of a link that was listed earlier (getLinksForTenant): it is    *)
(* retired, or deleted with its pending work.                              *)
(***************************************************************************)
CleanerList(l) ==
  /\ cleaner = NoLifetime
  /\ links[l].lifetime # 0
  /\ cleaner' = [link |-> l, lifetime |-> links[l].lifetime]
  /\ UNCHANGED <<links, quarantine, delivery, lifetimes, clearing>>

CleanerRemove ==
  /\ cleaner # NoLifetime
  /\ RetireLink(cleaner) \/ DeleteLinkAndPendingWork(cleaner)
  /\ cleaner' = NoLifetime

\* The listed lifetime has ended: both operations return without a write.
CleanerStale ==
  /\ cleaner # NoLifetime
  /\ Unlocked /\ ~IsCurrent(cleaner)
  /\ cleaner' = NoLifetime
  /\ UNCHANGED <<links, quarantine, delivery, lifetimes, clearing>>

Cleanup ==
  \/ \E l \in Links : CleanerList(l)
  \/ CleanerRemove
  \/ CleanerStale

-----------------------------------------------------------------------------
\* The shape of the store: a link that is not stored has no checkpoints,
\* and the lifetime ids in use were drawn before.
StoreTypeOK ==
  /\ links \in [Links -> Link]
  /\ \A l \in Links : /\ links[l].lifetime <= lifetimes
                      /\ links[l].lifetime = 0 => links[l] = NoLink
  /\ quarantine \subseteq Receipt
  /\ delivery \subseteq Obligation
  /\ lifetimes \in 0 .. MaxLifetimes
  /\ clearing \in {"no", "links", "rows"}
  /\ cleaner \in [link : Links, lifetime : Nat] \cup {NoLifetime}
=============================================================================
