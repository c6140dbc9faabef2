---------------------------- MODULE LinkRecovery ----------------------------
(***************************************************************************)
(* One owner's live replication link of the sync engine: the controller    *)
(* with its replication generation (SyncLinkController), the executor that *)
(* serialises the link's work (SyncLinkExecutor), repair, reconciliation   *)
(* and pausing (SyncLinkRecoveryCoordinator), the runtime's timers, and    *)
(* the engine's opening of subscriptions and handling of their messages.   *)
(*                                                                         *)
(* The remote feed is the positions 1 .. feed.head; what the local store   *)
(* has of it is admitted.  The local feed is a count, of which pushed are  *)
(* at the remote.  A durable pass reads its feed once (its pages are the   *)
(* subject of SyncNextPull and SyncNextPush).  A retry deadline may be     *)
(* over at any time.  Every await another party can step into ends an      *)
(* action.                                                                 *)
(***************************************************************************)
EXTENDS Integers, Sequences, FiniteSets

CONSTANTS
  MaxHead,      \* bound: positions of the remote feed
  MaxLocal,     \* bound: local changes
  MaxChanges,   \* bound: changes of both feeds together
  MaxFaults,    \* bound: failures of any kind, and removals
  MaxCancels,   \* bound: cancellations of a caller that awaits a repair
  MaxAttempts,  \* maxRepairAttempts; the engine keeps its default, 3
  None

ASSUME LinkAssumption ==
  /\ MaxHead \in Nat /\ MaxLocal \in Nat /\ MaxChanges \in Nat
  /\ MaxFaults \in Nat /\ MaxCancels \in Nat /\ MaxAttempts \in Nat \ {0, 1}
  /\ None \notin [up : BOOLEAN, next : 1 .. MaxHead + 1, news : BOOLEAN]

VARIABLES
  feed,     \* head of the remote feed, number of local changes
  store,    \* positions admitted, the pull checkpoint, local changes pushed
  link,     \* the link's status, connectivity and recovery state
  ctl,      \* the controller
  exec,     \* the executor
  held,     \* directions whose retry deadline is not over
  timers,   \* timers armed in the runtime
  sock,     \* the remote subscription, as the transport sees it
  waiting,  \* socket events whose handlers wait for the durable pull
  fence,    \* shouldContinue of the caller that awaits a repair
  init,     \* the initialization of the link
  planned,  \* the target is still in the sync plan
  hist,     \* history: the feed the link was told of, a gap opened, cancellations
  faults    \* number of failures

vars == <<feed, store, link, ctl, exec, held, timers, sock, waiting, fence, init, planned, hist, faults>>

Max2(a, b) == IF a < b THEN b ELSE a

Directions == {"pull", "push"}
Passes == {"pull", "push", "reconcile"}
Calls == {"event", "sync"}

\* A mark, or with pos a call of the socket event at that position.
Entry(kind, pos) == [kind |-> kind, pos |-> pos]

NoRun ==
  [kind |-> "none", pos |-> 0, gen |-> "none", pc |-> "idle", from |-> 0, upTo |-> 0,
   drained |-> TRUE, refused |-> FALSE, threw |-> FALSE, recovery |-> "none"]

Running(entry, pc) == [NoRun EXCEPT !.kind = entry.kind, !.pos = entry.pos, !.gen = "same", !.pc = pc]

NewController ==
  [active |-> TRUE, live |-> "none", local |-> "none", current |-> FALSE, deliveries |-> 0,
   attempts |-> 0, closing |-> FALSE]

NewExecutor == [ready |-> FALSE, entries |-> <<>>, run |-> NoRun, drain |-> FALSE, watch |-> FALSE]

Opening == [pc |-> "openPull", gen |-> "same", from |-> 0, upTo |-> 0]
Opened == [Opening EXCEPT !.pc = "over", !.gen = "none"]

Init ==
  /\ feed = [head |-> 0, local |-> 0]
  /\ store = [admitted |-> {}, applied |-> 0, pushed |-> 0]
  /\ link = [status |-> "initializing", online |-> FALSE, recovery |-> "none"]
  /\ ctl = NewController /\ exec = NewExecutor
  /\ held = {} /\ timers = {} /\ sock = None /\ waiting = {} /\ fence = "none"
  /\ init = Opening /\ planned = TRUE
  /\ hist = [owed |-> 0, gapped |-> FALSE, cancels |-> 0] /\ faults = 0

-----------------------------------------------------------------------------
(* The executor's queue and the controller's generation. *)

Pending(entries, kind) == \E i \in DOMAIN entries : entries[i].kind = kind
HasPending(kind) == Pending(exec.entries, kind)
HasWork(kind) == exec.run.kind = kind \/ HasPending(kind)

\* request: a kind of mark is pending at most once.
Request(entries, kind) ==
  IF Pending(entries, kind) THEN entries ELSE Append(entries, Entry(kind, 0))

\* The entry at index i is taken out.
Without(entries, i) == [n \in 1 .. Len(entries) - 1 |-> entries[IF n < i THEN n ELSE n + 1]]

\* consumePending: the entries of other kinds stay, in their order.
Consume(entries, kinds) ==
  LET kept == {i \in DOMAIN entries : entries[i].kind \notin kinds}
      Nth(n) == CHOOSE i \in kept : Cardinality({j \in kept : j <= i}) = n
  IN  [n \in 1 .. Cardinality(kept) |-> entries[Nth(n)]]

\* The replication generation is a counter that is only compared for equality:
\* a captured value is "same" while it is the controller's, and "old" after.
Aged(gen) == IF gen = "same" THEN "old" ELSE gen
GenerationCurrent(gen) == ctl.active /\ gen = "same"

\* resetReplicationGeneration: calls that have not started resolve as stale,
\* marks stay.  A subscription of an old generation is only closed: its
\* callbacks are stale.
NextGeneration ==
  [ctl EXCEPT !.live = Aged(@), !.local = Aged(@), !.current = FALSE, !.deliveries = 0]
Fenced(executor) ==
  [executor EXCEPT !.ready = FALSE, !.entries = Consume(@, Calls), !.run.gen = Aged(@)]
Outdated == init' = [init EXCEPT !.gen = Aged(@)] /\ sock' = None

\* Mutant: a trailing pull wake is not looked at.
SettledDespiteWake(gen, deliveries) == GenerationCurrent(gen) /\ deliveries = 0

\* markPullCurrent of the controller.
Settled(gen, deliveries) == GenerationCurrent(gen) /\ ~HasPending("pull") /\ deliveries = 0

\* closeSubscriptions.
Closed(controller) == [controller EXCEPT !.live = "none", !.local = "none"]

Converged == store.admitted = 1 .. feed.head /\ store.pushed = feed.local

\* isWorkEligible, without the timer that it arms.
Eligible(kind) ==
  CASE kind \in Calls \cup {"repair"} -> TRUE
    [] kind = "reconcile" -> held = {}
    [] OTHER -> kind \notin held

\* takeNextEligibleEntry: a repair first, anything else only when ready.
Takeable ==
  LET Indices(P(_)) == {i \in DOMAIN exec.entries : P(exec.entries[i].kind)}
      repairs == Indices(LAMBDA kind : kind = "repair")
  IN  IF repairs # {} THEN repairs
      ELSE IF exec.ready THEN Indices(Eligible) ELSE {}

\* The marks that the search passes over each arm the reconcile timer.
Passed(i) == IF exec.ready /\ ~HasPending("repair") /\ i > 1 THEN {"reconcile"} ELSE {}

\* The entry that an executor at rest takes, run as r.
Take(kinds, i, r) ==
  /\ ctl.active /\ exec.drain /\ exec.run = NoRun
  /\ i \in Takeable /\ \A j \in Takeable : i <= j
  /\ exec.entries[i].kind \in kinds
  /\ exec' = [exec EXCEPT !.entries = Without(@, i), !.run = r]

\* No entry is eligible.  Callers of the drain go on, and one that awaited a
\* repair withdraws its fence.
DrainEnds ==
  /\ exec.drain /\ exec.run = NoRun /\ Takeable = {}
  /\ exec' = [exec EXCEPT !.drain = FALSE]
  /\ timers' = IF ctl.active /\ exec.ready /\ exec.entries # <<>> THEN timers \cup {"reconcile"} ELSE timers
  /\ fence' = IF exec.watch THEN fence ELSE "none"
  /\ UNCHANGED <<feed, store, link, ctl, held, sock, waiting, init, planned, hist, faults>>

\* superviseExecutor, once the new status is stored.
Supervise ==
  /\ exec.watch
  /\ exec' = [exec EXCEPT !.watch = FALSE, !.drain = ctl.active]
  /\ UNCHANGED <<feed, store, link, ctl, held, timers, sock, waiting, fence, init, planned, hist, faults>>

\* The deadline of a held direction is over.
DeadlineOver ==
  \E direction \in held :
    /\ held' = held \ {direction}
    /\ UNCHANGED <<feed, store, link, ctl, exec, timers, sock, waiting, fence, init, planned, hist, faults>>

-----------------------------------------------------------------------------
(* Requesting a repair, pausing, and removal. *)

\* requestRepair: the transition is published in one block; its caller drains
\* the executor when the status is stored.
RequestRepair(executor, caller) ==
  /\ ctl.active /\ link.status # "paused"
  /\ ctl' = NextGeneration
  /\ exec' = [Fenced(executor) EXCEPT !.entries = Request(@, "repair"), !.watch = TRUE]
  /\ link' = [link EXCEPT !.status = "repairing", !.online = FALSE]
  /\ timers' = timers \ {"reconcile"}
  /\ held' = {} /\ waiting' = {} /\ fence' = caller /\ Outdated

\* transitionToPaused, up to the closing of the subscriptions.  A paused link
\* keeps only a terminal diagnostic.
EnterPause(executor, recovery) ==
  /\ ctl.active /\ link.status # "paused"
  /\ ctl' = [NextGeneration EXCEPT !.closing = TRUE]
  /\ exec' = Fenced(executor)
  /\ link' = [status |-> "paused", online |-> FALSE, recovery |-> recovery]
  /\ timers' = {} /\ held' = {} /\ waiting' = {} /\ Outdated

PauseLink ==
  /\ EnterPause(exec, IF link.recovery = "terminal" THEN "terminal" ELSE "none")
  /\ UNCHANGED <<feed, store, fence, planned, hist, faults>>

ClosePaused ==
  /\ ctl.closing
  /\ ctl' = [Closed(ctl) EXCEPT !.attempts = 0, !.closing = FALSE]
  /\ UNCHANGED <<feed, store, link, exec, held, timers, sock, waiting, fence, init, planned, hist, faults>>

\* deactivate: the controller's lifetime ends.
Retire ==
  /\ ctl' = [NewController EXCEPT !.active = FALSE]
  /\ exec' = [NewExecutor EXCEPT !.run = Fenced(exec).run]
  /\ timers' = {} /\ held' = {} /\ waiting' = {} /\ fence' = "none"

RemoveLink ==
  /\ ctl.active /\ faults < MaxFaults /\ faults' = faults + 1
  /\ Retire /\ Outdated /\ planned' = FALSE
  /\ UNCHANGED <<feed, store, link, hist>>

-----------------------------------------------------------------------------
(* Durable passes: the pull, push and reconcile marks, the calls of a settle *)
(* check (sync), and the pass inside a repair.                              *)

IsRepairCancelled == ~ctl.active \/ link.status = "paused" \/ fence = "stop"
IsRepairSuperseded == IsRepairCancelled \/ HasPending("repair")

\* shouldContinue of the pass, with the generation it captured.
Continues ==
  /\ GenerationCurrent(exec.run.gen)
  /\ exec.run.kind \in Passes => link.status = "live"
  /\ exec.run.kind = "repair" => ~IsRepairSuperseded

Goto(pc) == exec' = [exec EXCEPT !.run.pc = pc]
EndRun == exec' = [exec EXCEPT !.run = NoRun]

\* A full or pull pass starts by marking the pull pending, a reconcile by
\* taking over the reconcile timer.
StartPass ==
  \E i \in Takeable :
    LET kind == exec.entries[i].kind
        runs == kind = "sync" \/ link.status = "live" IN
    /\ Take(Passes \cup {"sync"}, i, IF runs THEN Running(exec.entries[i], "read") ELSE NoRun)
    /\ ctl' = IF runs /\ kind # "push" THEN [ctl EXCEPT !.current = FALSE] ELSE ctl
    /\ timers' = (timers \cup Passed(i)) \ (IF runs /\ kind = "reconcile" THEN {"reconcile"} ELSE {})
    /\ UNCHANGED <<feed, store, link, held, sock, waiting, fence, init, planned, hist, faults>>

\* Mutant: the pass stops one position short of the head.
PassReadShort ==
  /\ exec.run.pc = "read" /\ Continues
  /\ exec' = [exec EXCEPT !.run.from = store.applied + 1, !.run.upTo = feed.head - 1,
                          !.run.pc = IF exec.run.kind = "push" THEN "push" ELSE "commit"]
  /\ UNCHANGED <<feed, store, link, ctl, held, timers, sock, waiting, fence, init, planned, hist, faults>>

PassRead ==
  /\ exec.run.pc = "read" /\ Continues
  /\ exec' = [exec EXCEPT !.run.from = store.applied + 1, !.run.upTo = feed.head,
                          !.run.pc = IF exec.run.kind = "push" THEN "push" ELSE "commit"]
  /\ UNCHANGED <<feed, store, link, ctl, held, timers, sock, waiting, fence, init, planned, hist, faults>>

\* The page is admitted, and the checkpoint follows even when the pass was
\* fenced meanwhile.
Pulled(from, upTo) ==
  store' = [store EXCEPT !.admitted = @ \cup from .. upTo, !.applied = Max2(@, upTo)]

PassCommit ==
  /\ exec.run.pc = "commit"
  /\ Pulled(exec.run.from, exec.run.upTo)
  /\ exec' = [exec EXCEPT !.run.from = 0, !.run.upTo = 0, !.run.pc = IF exec.run.kind = "pull" THEN "done" ELSE "push"]
  /\ UNCHANGED <<feed, link, ctl, held, timers, sock, waiting, fence, init, planned, hist, faults>>

\* A deferred root: the checkpoint stays below it, the push still runs.
PassDefers ==
  /\ exec.run.pc = "commit" /\ faults < MaxFaults /\ faults' = faults + 1
  /\ exec' = [exec EXCEPT !.run.from = 0, !.run.upTo = 0, !.run.drained = FALSE, !.run.pc = IF exec.run.kind = "pull" THEN "done" ELSE "push"]
  /\ UNCHANGED <<feed, store, link, ctl, held, timers, sock, waiting, fence, init, planned, hist>>

PassPush ==
  /\ exec.run.pc = "push" /\ Continues
  /\ store' = [store EXCEPT !.pushed = feed.local]
  /\ Goto("done")
  /\ UNCHANGED <<feed, link, ctl, held, timers, sock, waiting, fence, init, planned, hist, faults>>

PassPushRefused ==
  /\ exec.run.pc = "push" /\ Continues /\ faults < MaxFaults /\ faults' = faults + 1
  /\ exec' = [exec EXCEPT !.run.refused = TRUE, !.run.pc = "done"]
  /\ UNCHANGED <<feed, store, link, ctl, held, timers, sock, waiting, fence, init, planned, hist>>

\* reconcileOwnedTarget, when the pass returns.
CurrentAfterPass ==
  ctl' = [ctl EXCEPT !.current = \/ @
                                 \/ /\ exec.run.kind # "push" /\ exec.run.drained
                                    /\ link.status = "live" /\ Settled(exec.run.gen, ctl.deliveries)]

\* handlePushFailures: the push is held and a reconciliation is due.
HoldOnRefusal(others) == held' = others \cup (IF exec.run.refused THEN {"push"} ELSE {})
RetryOnRefusal == timers' = timers \cup (IF exec.run.refused THEN {"reconcile"} ELSE {})

\* reconcileDirectionExclusive, after its pass.
DirectionDone ==
  /\ exec.run.kind \in Directions /\ exec.run.pc = "done" /\ Continues
  /\ CurrentAfterPass /\ EndRun
  /\ HoldOnRefusal(held \ {exec.run.kind}) /\ RetryOnRefusal
  /\ UNCHANGED <<feed, store, link, sock, waiting, fence, init, planned, hist, faults>>

\* reconcileExclusive after its pass, and the settle check after its own: the
\* fingerprints of both sides are compared, and a divergence resets the
\* checkpoints for another reconciliation (handleVerifiedDivergence).
ReconcileDone ==
  /\ exec.run.kind \in {"reconcile", "sync"} /\ exec.run.pc = "done" /\ Continues
  /\ CurrentAfterPass /\ EndRun
  /\ LET verified == exec.run.drained /\ ~exec.run.refused
         marked == exec.run.kind = "reconcile" IN
     /\ IF marked THEN HoldOnRefusal({}) ELSE UNCHANGED held
     /\ store' = IF verified /\ ~Converged THEN [store EXCEPT !.applied = 0] ELSE store
     /\ timers' = timers \cup (IF (exec.run.refused /\ marked) \/ (verified /\ ~Converged)
                               THEN {"reconcile"} ELSE {})
     /\ link' = IF marked /\ verified /\ Converged
                THEN [link EXCEPT !.online = TRUE, !.recovery = "none"] ELSE link
  /\ UNCHANGED <<feed, sock, waiting, fence, init, planned, hist, faults>>

\* handleReconcileFailure: the directions are held, a retry is due.  A failed
\* call only reports.
PassFails ==
  /\ exec.run.kind \in Passes \cup {"sync"} /\ exec.run.pc \in {"read", "push", "done"} /\ Continues
  /\ faults < MaxFaults /\ faults' = faults + 1
  /\ EndRun
  /\ IF exec.run.kind = "sync" THEN UNCHANGED <<held, timers, link>>
     ELSE /\ held' = held \cup (IF exec.run.kind = "reconcile" THEN Directions ELSE {exec.run.kind})
          /\ timers' = timers \cup {"reconcile"}
          /\ link' = [link EXCEPT !.recovery = "retryable"]
  /\ UNCHANGED <<feed, store, ctl, sock, waiting, fence, init, planned, hist>>

\* A fenced pass ends without a result.
PassAborts ==
  /\ exec.run.kind \in Passes \cup {"sync"} /\ exec.run.pc \in {"read", "commit", "push", "done"} /\ ~Continues
  /\ EndRun
  /\ UNCHANGED <<feed, store, link, ctl, held, timers, sock, waiting, fence, init, planned, hist, faults>>

-----------------------------------------------------------------------------
(* Repair. *)

\* Whether the executor takes a repair that has lost its mandate.
SkipRepair ==
  \E i \in Takeable :
    /\ Take({"repair"}, i, NoRun) /\ IsRepairCancelled
    /\ fence' = "none"
    /\ UNCHANGED <<feed, store, link, ctl, held, timers, sock, waiting, init, planned, hist, faults>>

\* The subscriptions leave the controller at once, their transports close.
StartRepair ==
  \E i \in Takeable :
    /\ Take({"repair"}, i, Running(Entry("repair", 0), "close")) /\ ~IsRepairCancelled
    /\ timers' = timers \ {"repair"}
    /\ ctl' = [Closed(ctl) EXCEPT !.attempts = @ + 1]
    /\ sock' = None
    /\ UNCHANGED <<feed, store, link, held, waiting, fence, init, planned, hist, faults>>

\* Mutant: the request that came meanwhile is dropped.
EndRepairForgets(controller, status, failed, armed) ==
  /\ exec' = [exec EXCEPT !.run = NoRun, !.entries = Consume(@, {"repair"})]
  /\ ctl' = controller
  /\ timers' = armed \cup (IF ctl.active /\ status = "repairing" /\ failed THEN {"repair"} ELSE {})
  /\ fence' = "none"

\* The repair is over.  A request that came meanwhile becomes a delayed retry
\* and gives the attempt back (finally of repairExclusive); a failure is
\* retried with a delay; after a success the gap between the pass and the new
\* subscriptions is reconciled (executeWork).
EndRepair(controller, status, failed, armed) ==
  LET newer == HasPending("repair") IN
  /\ exec' = [exec EXCEPT !.run = NoRun, !.entries = Consume(@, {"repair"})]
  /\ ctl' = IF newer THEN [controller EXCEPT !.attempts = Max2(0, @ - 1)] ELSE controller
  /\ timers' = armed \cup (IF ctl.active /\ status = "repairing" /\ (newer \/ failed) THEN {"repair"} ELSE {})
                     \cup (IF ctl.active /\ status = "live" /\ ~failed /\ ~HasPending("reconcile")
                           THEN {"reconcile"} ELSE {})
  /\ fence' = "none"

\* The pass of the repair has its own generation, and subsumes a reconcile.
RepairReset ==
  /\ exec.run.pc = "close"
  /\ IF IsRepairSuperseded
     THEN EndRepair(ctl, link.status, FALSE, timers) /\ UNCHANGED <<init, sock>>
     ELSE /\ ctl' = NextGeneration
          /\ exec' = [Fenced(exec) EXCEPT !.entries = Consume(@, {"reconcile"}),
                                          !.run.gen = "same", !.run.pc = "read"]
          /\ Outdated /\ UNCHANGED <<timers, fence>>
  /\ UNCHANGED <<feed, store, link, held, waiting, planned, hist, faults>>

RepairAborts ==
  /\ exec.run.kind = "repair" /\ exec.run.pc \in {"read", "commit", "push", "done", "attachPull"} /\ ~Continues
  /\ exec.run.pc = "attachPull" => ~GenerationCurrent(exec.run.gen)
  /\ EndRepair(ctl, link.status, FALSE, timers)
  /\ UNCHANGED <<feed, store, link, held, sock, waiting, init, planned, hist, faults>>

\* The remote subscription is opened at the head of its feed.
Subscription == [up |-> TRUE, next |-> feed.head + 1, news |-> FALSE]

RepairOpenPull ==
  /\ exec.run.kind = "repair" /\ exec.run.pc = "done" /\ Continues
  /\ sock' = Subscription
  /\ Goto("attachPull")
  /\ UNCHANGED <<feed, store, link, ctl, held, timers, waiting, fence, init, planned, hist, faults>>

\* setLiveSubscription, for the generation that opened it.
RepairAttachPull ==
  /\ exec.run.kind = "repair" /\ exec.run.pc = "attachPull" /\ GenerationCurrent(exec.run.gen)
  /\ link' = [link EXCEPT !.online = TRUE]
  /\ IF IsRepairSuperseded
     THEN EndRepair(Closed(ctl), link.status, FALSE, timers) /\ sock' = None
     ELSE /\ ctl' = [ctl EXCEPT !.live = exec.run.gen]
          /\ Goto("attachPush") /\ UNCHANGED <<timers, fence, sock>>
  /\ UNCHANGED <<feed, store, held, waiting, init, planned, hist, faults>>

RepairAttachPush ==
  /\ exec.run.kind = "repair" /\ exec.run.pc = "attachPush"
  /\ IF IsRepairSuperseded \/ ~GenerationCurrent(exec.run.gen)
     THEN EndRepair(Closed(ctl), link.status, FALSE, timers) /\ sock' = None
     ELSE /\ ctl' = [ctl EXCEPT !.local = exec.run.gen]
          /\ Goto("complete") /\ UNCHANGED <<timers, fence, sock>>
  /\ UNCHANGED <<feed, store, link, held, waiting, init, planned, hist, faults>>

\* completeRepair: the live status is published, then stored.
RepairComplete ==
  /\ exec.run.kind = "repair" /\ exec.run.pc = "complete"
  /\ IF IsRepairSuperseded
     THEN Goto("rollback") /\ UNCHANGED link
     ELSE /\ exec' = [exec EXCEPT !.run.recovery = link.recovery, !.run.pc = "persist"]
          /\ link' = [status |-> "live", online |-> TRUE, recovery |-> "none"]
  /\ UNCHANGED <<feed, store, ctl, held, timers, sock, waiting, fence, init, planned, hist, faults>>

\* Mutant: the repair is not looked at again once the status is stored.
RepairReadyUnchecked ==
  /\ exec.run.kind = "repair" /\ exec.run.pc = "persist"
  /\ exec' = [exec EXCEPT !.run = NoRun, !.ready = TRUE]
  /\ ctl' = [ctl EXCEPT !.attempts = 0]
  /\ timers' = timers \ {"repair"} /\ fence' = "none"
  /\ UNCHANGED <<feed, store, link, held, sock, waiting, init, planned, hist, faults>>

RepairReady ==
  /\ exec.run.kind = "repair" /\ exec.run.pc = "persist" /\ ~IsRepairSuperseded
  /\ exec' = [exec EXCEPT !.run = NoRun, !.ready = TRUE]
  /\ ctl' = [ctl EXCEPT !.attempts = 0]
  /\ HoldOnRefusal({})
  /\ timers' = (timers \ {"repair"})
       \cup (IF exec.run.refused \/ ~HasPending("reconcile") THEN {"reconcile"} ELSE {})
  /\ fence' = "none"
  /\ UNCHANGED <<feed, store, link, sock, waiting, init, planned, hist, faults>>

\* completeRepair finds the repair superseded after storing the status.
RepairTooLate ==
  /\ exec.run.pc = "persist" /\ IsRepairSuperseded
  /\ Goto("rollback")
  /\ UNCHANGED <<feed, store, link, ctl, held, timers, sock, waiting, fence, init, planned, hist, faults>>

\* The live status could not be stored.
RepairNotStored ==
  /\ exec.run.pc = "persist" /\ faults < MaxFaults /\ faults' = faults + 1
  /\ exec' = [exec EXCEPT !.run.pc = "rollback", !.run.threw = TRUE]
  /\ UNCHANGED <<feed, store, link, ctl, held, timers, sock, waiting, fence, init, planned, hist>>

RollbackEnds(controller) ==
  IF exec.run.threw
  THEN Goto("failed") /\ ctl' = controller /\ UNCHANGED <<timers, fence>>
  ELSE EndRepair(controller, link.status, FALSE, timers)

\* rollbackCancelledRepair, and rollbackRepairCompletion up to the closing of
\* the subscriptions.  Only a caller's cancellation or a failure undoes.
RepairRollback ==
  /\ exec.run.pc = "rollback"
  /\ IF /\ exec.run.threw \/ fence = "stop"
        /\ GenerationCurrent(exec.run.gen) /\ link.status \in {"repairing", "live"}
     THEN ctl' = Closed(ctl) /\ sock' = None /\ Goto("restore") /\ UNCHANGED <<timers, fence>>
     ELSE RollbackEnds(ctl) /\ UNCHANGED sock
  /\ UNCHANGED <<feed, store, link, held, waiting, init, planned, hist, faults>>

\* Mutant: the rollback does not look at the status again.
RepairRestoreBlind ==
  /\ exec.run.pc = "restore"
  /\ link' = [status |-> "repairing", online |-> FALSE, recovery |-> exec.run.recovery]
  /\ Goto("failed")
  /\ UNCHANGED <<feed, store, ctl, held, timers, sock, waiting, fence, init, planned, hist, faults>>

RepairRestore ==
  /\ exec.run.pc = "restore"
  /\ link' = IF GenerationCurrent(exec.run.gen) /\ link.status = "live"
             THEN [status |-> "repairing", online |-> FALSE, recovery |-> exec.run.recovery] ELSE link
  /\ IF exec.run.threw
     THEN Goto("failed") /\ UNCHANGED <<ctl, timers, fence>>
     ELSE EndRepair(ctl, link'.status, FALSE, timers)
  /\ UNCHANGED <<feed, store, held, sock, waiting, init, planned, hist, faults>>

\* The pass or an opening throws; a failed opening closes its pair.  The last
\* attempt of a batch may fail whatever the bound on faults.
RepairFails ==
  /\ exec.run.kind = "repair" /\ exec.run.pc \in {"read", "push", "done", "attachPull", "attachPush"}
  /\ GenerationCurrent(exec.run.gen)
  /\ faults < MaxFaults \/ ctl.attempts = MaxAttempts
  /\ faults' = IF faults < MaxFaults THEN faults + 1 ELSE faults
  /\ Goto("failed")
  /\ ctl' = IF exec.run.pc = "attachPush" THEN Closed(ctl) ELSE ctl
  /\ sock' = None
  /\ UNCHANGED <<feed, store, link, held, timers, waiting, fence, init, planned, hist>>

\* handleRepairFailure: the diagnosis is stored, terminal for an
\* authorization that is gone.
RepairDiagnose ==
  /\ exec.run.pc = "failed"
  /\ IF IsRepairSuperseded
     THEN EndRepair(ctl, link.status, FALSE, timers) /\ UNCHANGED link
     ELSE /\ \E recovery \in {"retryable", "terminal"} :
               /\ link' = [link EXCEPT !.recovery = recovery]
               /\ exec' = [exec EXCEPT !.run.recovery = recovery, !.run.gen = "same", !.run.pc = "diagnosed"]
          /\ UNCHANGED <<ctl, timers, fence>>
  /\ UNCHANGED <<feed, store, held, sock, waiting, init, planned, hist, faults>>

\* A terminal failure pauses the link, a retryable one is retried until the
\* attempts are used up.
RepairGivesUp ==
  /\ exec.run.pc = "diagnosed"
  /\ LET terminal == exec.run.recovery = "terminal"
         exhausted == ctl.attempts >= MaxAttempts
         finish == /\ terminal /\ fence = "stop" /\ GenerationCurrent(exec.run.gen)
                   /\ link.status = "repairing" /\ ~HasPending("repair") IN
     CASE IsRepairSuperseded /\ ~finish ->
            EndRepair(ctl, link.status, FALSE, timers) /\ UNCHANGED <<link, held, waiting, init, sock>>
       [] terminal /\ (finish \/ ~IsRepairSuperseded) ->
            EnterPause([exec EXCEPT !.run = NoRun], "terminal") /\ fence' = "none"
       [] OTHER ->
            /\ EndRepair(IF exhausted THEN [ctl EXCEPT !.attempts = 0] ELSE ctl,
                         link.status, ~exhausted, timers)
            /\ UNCHANGED <<link, held, waiting, init, sock>>
  /\ UNCHANGED <<feed, store, planned, hist, faults>>

\* retryFailedRepair of a settle check, or of a user who ignores the delay.
RetryFailedRepair(ignoreRetryDeadline) ==
  /\ ctl.active /\ link.status = "repairing" /\ link.recovery = "retryable"
  /\ ~HasWork("repair") /\ (ignoreRetryDeadline \/ "repair" \notin timers)
  /\ ctl' = [NextGeneration EXCEPT !.attempts = 0]
  /\ exec' = [Fenced(exec) EXCEPT !.entries = Request(@, "repair"), !.watch = TRUE]
  /\ link' = [link EXCEPT !.online = FALSE]
  /\ timers' = timers \ {"reconcile"} /\ held' = {} /\ waiting' = {} /\ fence' = "go" /\ Outdated
  /\ UNCHANGED <<feed, store, planned, hist, faults>>

\* The caller that awaits a repair is cancelled.
CancelCaller ==
  /\ fence = "go" /\ hist.cancels < MaxCancels
  /\ hist' = [hist EXCEPT !.cancels = @ + 1]
  /\ fence' = "stop"
  /\ UNCHANGED <<feed, store, link, ctl, exec, held, timers, sock, waiting, init, planned, faults>>

-----------------------------------------------------------------------------
(* Timers and settle checks. *)

ReconcileTimer ==
  /\ "reconcile" \in timers /\ timers' = timers \ {"reconcile"}
  /\ exec' = [exec EXCEPT !.drain = TRUE, !.entries =
       Request(IF Eligible("reconcile") THEN Consume(@, Passes) ELSE @, "reconcile")]
  /\ hist' = [hist EXCEPT !.gapped = @ \/ (exec.run # NoRun /\ Eligible("reconcile") /\ HasPending("pull"))]
  /\ UNCHANGED <<feed, store, link, ctl, held, sock, waiting, fence, init, planned, faults>>

RepairTimer ==
  /\ "repair" \in timers /\ timers' = timers \ {"repair"}
  /\ exec' = IF link.status = "repairing"
             THEN [exec EXCEPT !.drain = TRUE, !.entries = Request(@, "repair")] ELSE exec
  /\ UNCHANGED <<feed, store, link, ctl, held, sock, waiting, fence, init, planned, hist, faults>>

\* settleTarget: feeds whose fingerprints differ are reconciled.
SettleReconciles ==
  /\ ctl.active /\ link.status = "live" /\ exec.ready /\ ~HasWork("sync") /\ ~Converged
  /\ exec' = [exec EXCEPT !.drain = TRUE, !.entries = Append(@, Entry("sync", 0))]
  /\ UNCHANGED <<feed, store, link, ctl, held, timers, sock, waiting, fence, init, planned, hist, faults>>

\* reinitializeOrphanedLinkTargets.
Reinitialize ==
  /\ ~ctl.active /\ planned /\ init.pc = "over"
  /\ ctl' = NewController /\ exec' = NewExecutor /\ init' = Opening
  /\ UNCHANGED <<feed, store, link, held, timers, sock, waiting, fence, planned, hist, faults>>

-----------------------------------------------------------------------------
(* The feeds and the transport. *)

\* Bound: the feeds of a link that was paused or removed are left alone.
Stopped == link.status = "paused" \/ ~planned

RemoteChange ==
  /\ ~Stopped /\ feed.head < MaxHead /\ feed.head + feed.local < MaxChanges
  /\ feed' = [feed EXCEPT !.head = @ + 1]
  /\ UNCHANGED <<store, link, ctl, exec, held, timers, sock, waiting, fence, init, planned, hist, faults>>

\* A local change wakes the local subscription of this generation
\* (handleLocalPushMessage).
LocalChange ==
  /\ ~Stopped /\ feed.local < MaxLocal /\ feed.head + feed.local < MaxChanges
  /\ feed' = [feed EXCEPT !.local = @ + 1]
  /\ exec' = IF GenerationCurrent(ctl.local)
             THEN [exec EXCEPT !.entries = Request(@, "push"), !.drain = @ \/ exec.ready] ELSE exec
  /\ UNCHANGED <<store, link, ctl, held, timers, sock, waiting, fence, init, planned, hist, faults>>

\* The subscription's callbacks are stale once its generation is replaced.
Attentive == ctl.active /\ sock # None

Disconnect ==
  /\ Attentive /\ sock.up /\ faults < MaxFaults /\ faults' = faults + 1
  /\ sock' = [sock EXCEPT !.up = FALSE, !.news = FALSE]
  /\ link' = [link EXCEPT !.online = FALSE]
  /\ UNCHANGED <<feed, store, ctl, exec, held, timers, waiting, fence, init, planned, hist>>

\* The transport subscribes again at the live head.
Resubscribe ==
  /\ Attentive /\ ~sock.up
  /\ sock' = [sock EXCEPT !.up = TRUE, !.next = feed.head + 1, !.news = TRUE]
  /\ UNCHANGED <<feed, store, link, ctl, exec, held, timers, waiting, fence, init, planned, hist, faults>>

\* A reconnected message: both directions run from their checkpoints.
HandleReconnected ==
  /\ Attentive /\ sock.news
  /\ sock' = [sock EXCEPT !.news = FALSE]
  /\ link' = [link EXCEPT !.online = TRUE]
  /\ exec' = [exec EXCEPT !.entries = Request(Request(@, "pull"), "push"), !.drain = @ \/ exec.ready]
  /\ ctl' = [ctl EXCEPT !.current = FALSE]
  /\ hist' = [hist EXCEPT !.owed = Max2(@, sock.next - 1), !.gapped = @ \/ ctl.deliveries > 0]
  /\ UNCHANGED <<feed, store, held, timers, waiting, fence, init, planned, faults>>

\* An error ends a subscription of the pair.
SubscriptionError ==
  /\ ctl.active /\ faults < MaxFaults /\ faults' = faults + 1
  /\ Attentive \/ GenerationCurrent(ctl.local)
  /\ RequestRepair(exec, "none")
  /\ UNCHANGED <<feed, store, planned, hist>>

-----------------------------------------------------------------------------
(* Live pull: handleLivePullMessage for an event. *)

Arrives ==
  /\ Attentive /\ sock.up /\ ~sock.news /\ sock.next <= feed.head
  /\ sock' = [sock EXCEPT !.next = @ + 1]
  /\ hist' = [hist EXCEPT !.owed = Max2(@, sock.next)]

\* Not ready, or thought offline: the event leaves a mark.
EventMarks ==
  /\ Arrives /\ ~(exec.ready /\ link.online)
  /\ ctl' = [ctl EXCEPT !.current = FALSE]
  /\ exec' = [exec EXCEPT !.entries = Request(@, "pull")]
  /\ UNCHANGED <<feed, store, link, held, timers, waiting, fence, init, planned, faults>>

\* beginLivePullDelivery.
DeliversLive == ctl.current \/ ctl.deliveries > 0

EventEnqueues ==
  /\ Arrives /\ exec.ready /\ link.online /\ DeliversLive
  /\ ctl' = [ctl EXCEPT !.deliveries = @ + 1]
  /\ exec' = [exec EXCEPT !.entries = Append(@, Entry("event", sock.next)), !.drain = TRUE]
  /\ UNCHANGED <<feed, store, link, held, timers, waiting, fence, init, planned, faults>>

\* settleLivePullEventFromDurableFeed, also for an event without metadata.
EventWaits ==
  /\ Arrives /\ exec.ready /\ link.online /\ ~DeliversLive
  /\ ctl' = [ctl EXCEPT !.current = FALSE]
  /\ exec' = [exec EXCEPT !.entries = Request(@, "pull"), !.drain = TRUE]
  /\ waiting' = waiting \cup {sock.next}
  /\ UNCHANGED <<feed, store, link, held, timers, fence, init, planned, faults>>

\* The executor came to rest: the checkpoint covers the event, or the link is
\* repaired.
EventSettles ==
  \E pos \in waiting :
    /\ exec.run = NoRun /\ ~exec.drain
    /\ IF store.applied >= pos
       THEN waiting' = waiting \ {pos} /\ UNCHANGED <<ctl, exec, link, timers, held, fence, init, sock>>
       ELSE RequestRepair(exec, "none")
    /\ UNCHANGED <<feed, store, planned, hist, faults>>

\* admitLivePullEvent.
StartEvent ==
  \E i \in Takeable :
    LET entry == exec.entries[i]
        covered == entry.pos <= store.applied IN
    /\ Take({"event"}, i, Running(entry, IF covered THEN "committed" ELSE "admit"))
    /\ ctl' = IF covered THEN ctl ELSE [ctl EXCEPT !.current = FALSE]
    /\ timers' = timers \cup Passed(i)
    /\ UNCHANGED <<feed, store, link, held, sock, waiting, fence, init, planned, hist, faults>>

EventAdmitted ==
  /\ exec.run.kind = "event" /\ exec.run.pc = "admit"
  /\ store' = [store EXCEPT !.admitted = @ \cup {exec.run.pos}]
  /\ Goto("cursor")
  /\ UNCHANGED <<feed, link, ctl, held, timers, sock, waiting, fence, init, planned, hist, faults>>

\* commitLivePullCursor.
CommitCursor ==
  /\ exec.run.kind = "event" /\ exec.run.pc = "cursor"
  /\ store' = IF GenerationCurrent(exec.run.gen)
              THEN [store EXCEPT !.applied = Max2(@, exec.run.pos)] ELSE store
  /\ Goto("committed")
  /\ UNCHANGED <<feed, link, ctl, held, timers, sock, waiting, fence, init, planned, hist, faults>>

\* The call resolves, endLivePullDelivery and markPullCurrent follow.
EventDone ==
  /\ exec.run.kind = "event" /\ exec.run.pc = "committed"
  /\ LET left == ctl.deliveries - 1 IN
     ctl' = IF GenerationCurrent(exec.run.gen)
            THEN [ctl EXCEPT !.deliveries = left, !.current = @ \/ Settled(exec.run.gen, left)] ELSE ctl
  /\ EndRun
  /\ UNCHANGED <<feed, store, link, held, timers, sock, waiting, fence, init, planned, hist, faults>>

\* Mutant: the call releases the executor, its successors still queued.
EventFailsUnfenced ==
  /\ exec.run.kind = "event" /\ exec.run.pc \in {"admit", "cursor"}
  /\ faults < MaxFaults /\ faults' = faults + 1
  /\ EndRun
  /\ ctl' = IF GenerationCurrent(exec.run.gen) THEN [ctl EXCEPT !.deliveries = @ - 1] ELSE ctl
  /\ UNCHANGED <<feed, store, link, held, timers, sock, waiting, fence, init, planned, hist>>

\* The admission throws, is deferred, or its cursor cannot be stored: queued
\* successors are fenced before the call releases the executor.
EventFails ==
  /\ exec.run.kind = "event" /\ exec.run.pc \in {"admit", "cursor"}
  /\ faults < MaxFaults /\ faults' = faults + 1
  /\ LET ended == [exec EXCEPT !.run = NoRun] IN
     IF GenerationCurrent(exec.run.gen)
     THEN RequestRepair(ended, "none")
     ELSE exec' = ended /\ UNCHANGED <<ctl, link, timers, held, waiting, fence, init, sock>>
  /\ UNCHANGED <<feed, store, planned, hist>>

-----------------------------------------------------------------------------
(* Initialization of an activated link. *)

Initializing(pc) == init.pc = pc /\ GenerationCurrent(init.gen)
InitGoto(pc) == init' = [init EXCEPT !.pc = pc]

InitOpenPull ==
  /\ Initializing("openPull")
  /\ sock' = Subscription
  /\ init' = [init EXCEPT !.pc = "attachPull", !.upTo = feed.head]
  /\ UNCHANGED <<feed, store, link, ctl, exec, held, timers, waiting, fence, planned, hist, faults>>

InitAttachPull ==
  /\ Initializing("attachPull")
  /\ ctl' = [ctl EXCEPT !.live = init.gen]
  /\ link' = [link EXCEPT !.online = TRUE]
  /\ InitGoto("attachPush")
  /\ UNCHANGED <<feed, store, exec, held, timers, sock, waiting, fence, planned, hist, faults>>

\* Mutant: the local subscription is attached whatever happened meanwhile.
InitAttachPushLate ==
  /\ init.pc = "attachPush"
  /\ ctl' = [ctl EXCEPT !.local = init.gen]
  /\ InitGoto("read")
  /\ UNCHANGED <<feed, store, link, exec, held, timers, sock, waiting, fence, planned, hist, faults>>

\* establishLinkBaseline: equal snapshots owe no transfer.
InitAttachPush ==
  /\ Initializing("attachPush")
  /\ ctl' = [ctl EXCEPT !.local = init.gen]
  /\ InitGoto(IF store.admitted = 1 .. init.upTo /\ store.pushed = feed.local THEN "adopt" ELSE "read")
  /\ UNCHANGED <<feed, store, link, exec, held, timers, sock, waiting, fence, planned, hist, faults>>

InitRead ==
  /\ Initializing("read")
  /\ init' = [init EXCEPT !.pc = "commit", !.from = store.applied + 1, !.upTo = feed.head]
  /\ UNCHANGED <<feed, store, link, ctl, exec, held, timers, sock, waiting, fence, planned, hist, faults>>

\* The pull half of the pass, which commits even when it is fenced.
InitPull ==
  /\ init.pc = "commit"
  /\ Pulled(init.from, init.upTo)
  /\ init' = [init EXCEPT !.from = 0, !.upTo = 0, !.pc = "push"]
  /\ UNCHANGED <<feed, link, ctl, exec, held, timers, sock, waiting, fence, planned, hist, faults>>

\* Both halves are at their baseline.  A push that failed leaves a mark.
InitBaseline ==
  /\ Initializing("push") \/ Initializing("adopt")
  /\ \E refused \in {FALSE} \cup (IF init.pc = "push" /\ faults < MaxFaults THEN {TRUE} ELSE {}) :
       /\ faults' = IF refused THEN faults + 1 ELSE faults
       /\ exec' = IF refused THEN [exec EXCEPT !.entries = Request(@, "push")] ELSE exec
       /\ store' = [store EXCEPT !.applied = IF init.pc = "adopt" THEN Max2(@, init.upTo) ELSE @,
                                 !.pushed = IF refused \/ init.pc = "adopt" THEN @ ELSE feed.local]
  /\ ctl' = [ctl EXCEPT !.current = @ \/ Settled(init.gen, ctl.deliveries)]
  /\ InitGoto("setLive")
  /\ UNCHANGED <<feed, link, held, timers, sock, waiting, fence, planned, hist>>

\* markLinkLive.
InitSetLive ==
  /\ Initializing("setLive") /\ link.status \notin {"paused", "repairing"}
  /\ link' = [link EXCEPT !.status = "live", !.recovery = "none"]
  /\ InitGoto("persist")
  /\ UNCHANGED <<feed, store, ctl, exec, held, timers, sock, waiting, fence, planned, hist, faults>>

InitReady ==
  /\ Initializing("persist") /\ link.status = "live"
  /\ exec' = [exec EXCEPT !.ready = TRUE, !.drain = @ \/ exec.entries # <<>>]
  /\ init' = Opened
  /\ UNCHANGED <<feed, store, link, ctl, held, timers, sock, waiting, fence, planned, hist, faults>>

\* A transition took the link over: the attempt ends, having attached nothing
\* under the new generation.
InitInterrupted ==
  /\ init.pc # "over" /\ ~GenerationCurrent(init.gen)
  /\ init' = Opened
  /\ UNCHANGED <<feed, store, link, ctl, exec, held, timers, sock, waiting, fence, planned, hist, faults>>

\* handleInitializeLinkTargetError: the attempt's controller is retired.
InitFails ==
  /\ init.pc \in {"attachPull", "attachPush", "read", "push"} /\ GenerationCurrent(init.gen)
  /\ faults < MaxFaults /\ faults' = faults + 1
  /\ Retire /\ init' = Opened /\ sock' = None
  /\ UNCHANGED <<feed, store, link, planned, hist>>

-----------------------------------------------------------------------------

Executor ==
  \/ StartPass \/ PassRead \/ PassCommit \/ PassPush \/ DirectionDone \/ ReconcileDone \/ PassAborts
  \/ SkipRepair \/ StartRepair \/ RepairReset \/ RepairAborts \/ RepairOpenPull \/ RepairAttachPull
  \/ RepairAttachPush \/ RepairComplete \/ RepairReady \/ RepairTooLate \/ RepairRollback
  \/ RepairRestore \/ RepairDiagnose \/ RepairGivesUp
  \/ StartEvent \/ EventAdmitted \/ CommitCursor \/ EventDone
  \/ DrainEnds

Initialization ==
  \/ InitOpenPull \/ InitAttachPull \/ InitAttachPush \/ InitRead \/ InitPull \/ InitBaseline
  \/ InitSetLive \/ InitReady \/ InitInterrupted

Receive == EventMarks \/ EventEnqueues \/ EventWaits \/ HandleReconnected

Failures ==
  \/ PassDefers \/ PassPushRefused \/ PassFails \/ RepairNotStored \/ RepairFails \/ EventFails
  \/ InitFails \/ Disconnect \/ SubscriptionError \/ CancelCaller \/ PauseLink \/ RemoveLink

\* The engine's own steps, its timers and settle checks, and the transport's
\* attempts to come back.
Progress ==
  \/ Executor \/ Initialization \/ Receive \/ Supervise \/ DeadlineOver \/ ClosePaused \/ EventSettles
  \/ ReconcileTimer \/ RepairTimer \/ SettleReconciles \/ RetryFailedRepair(FALSE) \/ Reinitialize
  \/ Resubscribe

Next == Progress \/ Failures \/ RetryFailedRepair(TRUE) \/ RemoteChange \/ LocalChange

Spec == Init /\ [][Next]_vars

\* One of them is taken as long as one can be.
Fairness == WF_vars(Progress) /\ WF_vars(DeadlineOver)

LiveSpec == Spec /\ Fairness

-----------------------------------------------------------------------------
(* Properties. *)

Statuses == {"initializing", "live", "repairing", "paused"}

\* Every variable has its type; the deliveries in flight, which both
\* generations of a replaced link count, never fall below zero, and
\* supersessions and cancellations do not extend the attempts of a batch.
TypeOK ==
  /\ feed \in [head : 0 .. MaxHead, local : 0 .. MaxLocal]
  /\ store \in [admitted : SUBSET (1 .. MaxHead), applied : 0 .. MaxHead, pushed : 0 .. MaxLocal]
  /\ link \in [status : Statuses, online : BOOLEAN, recovery : {"none", "retryable", "terminal"}]
  /\ {ctl.live, ctl.local, exec.run.gen, init.gen} \subseteq {"none", "same", "old"}
  /\ ctl.deliveries \in 0 .. MaxHead /\ ctl.attempts \in 0 .. MaxAttempts
  /\ held \subseteq Directions /\ timers \subseteq {"reconcile", "repair"}
  /\ waiting \subseteq 1 .. MaxHead /\ fence \in {"none", "go", "stop"}
  /\ sock # None => sock.next \in 1 .. MaxHead + 1

\* The pull checkpoint is "the highest feed token through which all earlier
\* work for this link has been durably settled" (types/sync.ts).
CheckpointSettled == \A pos \in 1 .. store.applied : pos \in store.admitted

\* The same, except after one of the two steps that let a later event overtake
\* an earlier one: a reconnection handled while a socket delivery was pending,
\* and a pull wake folded into a reconciliation while another entry ran.
CheckpointSettledUnlessGapped == hist.gapped \/ CheckpointSettled

\* A link that claims to be pull-current, with no delivery on its way, has
\* admitted everything that it was told of: every socket event it accepted
\* and every position a reconnection skipped.
PullCurrentIsSound ==
  (ctl.current /\ ctl.deliveries = 0 /\ ~hist.gapped) => 1 .. hist.owed \subseteq store.admitted

\* Ordinary work runs only under a live link whose two subscriptions belong
\* to the current generation and still exist, however openings, repairs,
\* cancellations and pauses interleave.
ReadyIsAttached ==
  /\ TypeOK
  /\ exec.ready => /\ link.status = "live"
                   /\ ctl.live = "same" /\ ctl.local = "same" /\ sock # None

\* A pause is final until the identity is connected again, and once it has
\* closed the subscriptions no opener that was in flight attaches another,
\* nor does a timer, a queued call or a retry survive it.
PauseHolds ==
  (link.status = "paused" /\ ~ctl.closing) =>
    /\ ctl.live = "none" /\ ctl.local = "none" /\ ~exec.ready /\ ~ctl.current
    /\ timers = {} /\ waiting = {}

\* No step of a repair, an opener or a rollback that was in flight takes a
\* paused link out of its pause.
PauseIsFinal == [][link.status = "paused" => link'.status = "paused"]_vars

\* A link comes back: whatever attempts fail, are superseded or are
\* cancelled, it is live and ready for ordinary work again, unless it is
\* paused or removed.
LinkComesBack == []<>(exec.ready \/ Stopped)

\* No change is forgotten: although wakes, connections, passes and deliveries
\* fail, the two feeds agree again and again.
FeedsConverge == []<>(Converged \/ Stopped)

=============================================================================
