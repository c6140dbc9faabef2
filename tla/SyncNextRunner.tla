--------------------------- MODULE SyncNextRunner ---------------------------
(***************************************************************************)
(* One request-bounded run of the next sync engine in one direction        *)
(* (packages/agent/src/sync-next/runner.ts): a phase of concurrent feed    *)
(* pages, one per target, and a phase of sequential recovery, oldest row   *)
(* first, under one request budget and one permit per endpoint.            *)
(*                                                                         *)
(* What pages and retries do to the progress store is the subject of       *)
(* SyncNextPull and SyncNextPush; here a queue of pending rows is the set  *)
(* of their attempt times.                                                 *)
(***************************************************************************)
EXTENDS Integers, FiniteSets

CONSTANTS
  Targets,      \* resolved targets
  RoleTargets,  \* the targets with role authority
  Endpoints,
  EndpointOf,   \* the endpoint of each target
  Projections,
  ProjectionOf, \* the projection of each target
  MaxRequests,  \* maxRemoteRequests
  None,
  FirstStamps   \* attempt times of the rows pending when the run starts

ASSUME RunnerAssumption ==
  /\ RoleTargets \subseteq Targets
  /\ EndpointOf \in [Targets -> Endpoints]
  /\ ProjectionOf \in [Targets -> Projections]
  /\ MaxRequests \in Nat /\ MaxRequests >= 3
  /\ None \notin Targets
  /\ FirstStamps \in Nat

VARIABLES
  direction, \* "pull" or "push"
  phase,     \* "start", "pages", "recovery", "done"
  limit,     \* budget.limit
  requests,  \* budget.requests
  aborted,   \* budget.signal
  blocked,   \* blockedEndpoints
  permit,    \* the target whose request holds each endpoint's permit
  work,      \* what each target's work is doing
  made,      \* requests each target's current work has made
  drained,   \* the targets with feedDrained
  pending,   \* attempt times of the rows in each queue
  clock,     \* the latest attempt time
  waiting,   \* recovery candidates not reached yet, with their oldest row
  reserved,  \* history: the candidates the page phase left requests for
  failed     \* history: the endpoint-wide failures, with their phase and kind

vars == <<direction, phase, limit, requests, aborted, blocked, permit, work, made,
          drained, pending, clock, waiting, reserved, failed>>
runVars == <<direction, phase, limit, waiting, reserved>>
requestVars == <<requests, blocked, permit, failed>>

-----------------------------------------------------------------------------
\* createStates: role authority is pull-only.
Runnable == IF direction = "push" THEN Targets \ RoleTargets ELSE Targets

\* Quarantined roots are kept by projection, obligations by link, of which each
\* target has one.
QueueOf(t) == IF direction = "pull" THEN ProjectionOf[t] ELSE t

MinimumRecoveryRequests(t) ==
  IF direction = "pull" /\ t \in RoleTargets THEN 2 ELSE 1

Oldest(q) == CHOOSE s \in pending[q] : \A other \in pending[q] : s <= other

RecoveryCandidates ==
  {[target |-> t, stamp |-> Oldest(QueueOf(t))] :
     t \in {u \in Runnable : pending[QueueOf(u)] # {}}}

\* The largest minimum attempt among the candidates, 0 when there is none.
RecoveryReserve ==
  CHOOSE n \in 0 .. 2 :
    /\ \A c \in RecoveryCandidates : MinimumRecoveryRequests(c.target) <= n
    /\ n = 0 \/ \E c \in RecoveryCandidates : MinimumRecoveryRequests(c.target) = n

\* Mutant: nothing is left for recovery.
PageLimitWhole == MaxRequests

\* Math.min(Math.ceil(maxRequests / 2), maxRequests - recoveryReserve)
PageLimit ==
  LET half == (MaxRequests + 1) \div 2
      rest == MaxRequests - RecoveryReserve IN
  IF RecoveryReserve = 0 THEN MaxRequests
  ELSE IF half < rest THEN half ELSE rest

\* The row of queue q last tried goes to the back; a new row joins there.
Rotated(q) == [pending EXCEPT ![q] = (@ \ {Oldest(q)}) \cup {clock + 1}]
Retained(q) == [pending EXCEPT ![q] = @ \cup {clock + 1}]

-----------------------------------------------------------------------------
Init ==
  /\ direction \in {"pull", "push"}
  /\ phase = "start"
  /\ limit = MaxRequests
  /\ requests = 0
  /\ aborted = FALSE
  /\ blocked = {}
  /\ permit = [e \in Endpoints |-> None]
  /\ work = [t \in Targets |-> "idle"]
  /\ made = [t \in Targets |-> 0]
  /\ drained = {}
  /\ pending \in [{QueueOf(t) : t \in Runnable} -> SUBSET (1 .. FirstStamps)]
  /\ clock = FirstStamps
  /\ waiting = {}
  /\ reserved = {}
  /\ failed = {}

\* run, up to the start of the page phase.
StartPages ==
  /\ phase = "start"
  /\ phase' = "pages"
  /\ limit' = PageLimit
  /\ reserved' = {c.target : c \in RecoveryCandidates}
  /\ work' = [t \in Targets |-> IF t \in Runnable /\ ~aborted THEN "run" ELSE "idle"]
  /\ UNCHANGED <<direction, requestVars, aborted, made, drained, pending, clock,
                 waiting>>

\* The caller's signal.
Abort ==
  /\ ~aborted /\ phase # "done"
  /\ aborted' = TRUE
  /\ UNCHANGED <<runVars, requestVars, work, made, drained, pending, clock>>

-----------------------------------------------------------------------------
(***************************************************************************)
(* requestRunner: under the endpoint's permit, refuse or count and send.   *)
(***************************************************************************)
\* Mutant: the limit is exceeded by one.
OutOfBudgetLate == requests > limit

OutOfBudget == requests >= limit

NoRequest(t) == work[t] = "run" /\ permit[EndpointOf[t]] # t

\* The work waits for the endpoint's permit.  A pull page makes one request,
\* its query; other work any number, and a retry none when its queue is empty.
RequestQueued(t) ==
  /\ NoRequest(t)
  /\ phase = "pages" /\ direction = "pull" => made[t] = 0
  /\ phase = "recovery" => pending[QueueOf(t)] # {}
  /\ work' = [work EXCEPT ![t] = "wait"]
  /\ UNCHANGED <<runVars, requestVars, aborted, made, drained, pending, clock>>

RequestBegin(t) ==
  LET e == EndpointOf[t] IN
  /\ work[t] = "wait"
  /\ permit[e] = None
  /\ e \notin blocked /\ ~aborted /\ ~OutOfBudget
  /\ requests' = requests + 1
  /\ permit' = [permit EXCEPT ![e] = t]
  /\ made' = [made EXCEPT ![t] = @ + 1]
  /\ work' = [work EXCEPT ![t] = "run"]
  /\ UNCHANGED <<runVars, aborted, blocked, failed, drained, pending, clock>>

\* The RPC returns; the permit is released.
RequestReturns(t) ==
  LET e == EndpointOf[t] IN
  /\ permit[e] = t
  /\ permit' = [permit EXCEPT ![e] = None]
  /\ UNCHANGED <<runVars, requests, aborted, blocked, failed, work, made, drained,
                 pending, clock>>

\* Mutant: a failed request does not block its endpoint.
RequestThrowsUnblocked(t, endpointWide) ==
  LET e == EndpointOf[t] IN
  /\ permit[e] = t
  /\ endpointWide => ~aborted
  /\ permit' = [permit EXCEPT ![e] = None]
  /\ failed' = IF endpointWide THEN failed \cup {<<e, phase, "thrown">>} ELSE failed
  /\ work' = [work EXCEPT ![t] = "failed"]
  /\ UNCHANGED <<runVars, requests, aborted, blocked, made, drained, pending, clock>>

\* The RPC throws.  A transport or service failure blocks the endpoint before
\* the permit is released; a terminal or quota error, or the caller's
\* cancellation, does not.
RequestThrows(t, endpointWide) ==
  LET e == EndpointOf[t] IN
  /\ permit[e] = t
  /\ endpointWide => ~aborted
  /\ permit' = [permit EXCEPT ![e] = None]
  /\ blocked' = IF endpointWide THEN blocked \cup {e} ELSE blocked
  /\ failed' = IF endpointWide THEN failed \cup {<<e, phase, "thrown">>} ELSE failed
  /\ work' = [work EXCEPT ![t] = "failed"]
  /\ UNCHANGED <<runVars, requests, aborted, made, drained, pending, clock>>

\* A page query is answered with status 408, 429 or 5xx, or a pushed entry
\* with a failure that concerns the endpoint: for the permit an ordinary
\* return.  The endpoint is blocked when the page or the retry has ended.
AnsweredUnavailable(t) ==
  LET e == EndpointOf[t] IN
  /\ phase = "recovery" => direction = "push"
  /\ permit[e] = t
  /\ permit' = [permit EXCEPT ![e] = None]
  /\ failed' = failed \cup {<<e, phase, "answered">>}
  /\ work' = [work EXCEPT ![t] = "unavailable"]
  /\ UNCHANGED <<runVars, requests, aborted, blocked, made, drained, pending, clock>>

\* Mutant: work queued for a blocked endpoint is not told.
RefusedUnlessBlocked(t) ==
  /\ work[t] = "wait"
  /\ permit[EndpointOf[t]] = None
  /\ EndpointOf[t] \notin blocked
  /\ aborted \/ OutOfBudget

\* The permit is granted and the request is refused: SyncWorkInterruptedError.
Refused(t) ==
  /\ work[t] = "wait"
  /\ permit[EndpointOf[t]] = None
  /\ EndpointOf[t] \in blocked \/ aborted \/ OutOfBudget

Request(t) ==
  \/ RequestQueued(t)
  \/ RequestBegin(t)
  \/ RequestReturns(t)
  \/ \E endpointWide \in BOOLEAN : RequestThrows(t, endpointWide)
  \/ AnsweredUnavailable(t)

Finish(t) ==
  /\ work' = [work EXCEPT ![t] = "idle"]
  /\ made' = [made EXCEPT ![t] = 0]
  /\ UNCHANGED <<runVars, aborted, requests, permit, failed>>

-----------------------------------------------------------------------------
(***************************************************************************)
(* runPhase: a page ends.                                                  *)
(***************************************************************************)
\* It commits, with or without a retained row.
PageCommitted(t, isDrained, retains) ==
  /\ phase = "pages" /\ ~aborted
  /\ \/ NoRequest(t)
     \/ work[t] = "failed" /\ direction = "push" /\ retains
  /\ direction = "pull" => made[t] = 1
  /\ drained' = IF isDrained THEN drained \cup {t} ELSE drained
  /\ pending' = IF retains THEN Retained(QueueOf(t)) ELSE pending
  /\ clock' = IF retains THEN clock + 1 ELSE clock
  /\ UNCHANGED blocked
  /\ Finish(t)

\* A refused push page commits the prefix it classified, if any.
PageCut(t, retains) ==
  /\ phase = "pages" /\ Refused(t)
  /\ retains => direction = "push" /\ ~aborted
  /\ pending' = IF retains THEN Retained(QueueOf(t)) ELSE pending
  /\ clock' = IF retains THEN clock + 1 ELSE clock
  /\ UNCHANGED <<blocked, drained>>
  /\ Finish(t)

\* Mutant: a page that failed counts as drained.
PageFailedDrains(t) ==
  /\ phase = "pages"
  /\ NoRequest(t) \/ work[t] \in {"failed", "unavailable"}
  /\ drained' = drained \cup {t}
  /\ UNCHANGED <<blocked, pending, clock>>
  /\ Finish(t)

\* Stale, aborted, or an exception: no page is committed.
PageFailed(t) ==
  /\ phase = "pages"
  /\ \/ NoRequest(t) \/ work[t] = "failed"
     \/ work[t] = "unavailable" /\ (direction = "push" \/ aborted)
  /\ UNCHANGED <<blocked, drained, pending, clock>>
  /\ Finish(t)

\* runWork's catch for a pull query; a push page commits, with the entry and
\* those behind it retained, and then runPushPage blocks the endpoint.
PageUnavailable(t, isDrained) ==
  LET push == direction = "push" IN
  /\ phase = "pages" /\ work[t] = "unavailable" /\ ~aborted
  /\ blocked' = blocked \cup {EndpointOf[t]}
  /\ drained' = IF push /\ isDrained THEN drained \cup {t} ELSE drained
  /\ pending' = IF push THEN Retained(QueueOf(t)) ELSE pending
  /\ clock' = IF push THEN clock + 1 ELSE clock
  /\ Finish(t)

Page(t) ==
  \/ \E isDrained, retains \in BOOLEAN : PageCommitted(t, isDrained, retains)
  \/ \E retains \in BOOLEAN : PageCut(t, retains)
  \/ PageFailed(t)
  \/ \E isDrained \in BOOLEAN : PageUnavailable(t, isDrained)

StartRecovery ==
  /\ phase = "pages"
  /\ \A t \in Targets : work[t] = "idle"
  /\ phase' = "recovery"
  /\ limit' = MaxRequests
  /\ waiting' = RecoveryCandidates
  /\ UNCHANGED <<direction, requestVars, aborted, work, made, drained, pending, clock,
                 reserved>>

-----------------------------------------------------------------------------
(***************************************************************************)
(* runRecoveryPhase                                                        *)
(***************************************************************************)
RecoveryTurn(c) ==
  /\ phase = "recovery"
  /\ \A t \in Targets : work[t] = "idle"
  /\ ~aborted /\ ~OutOfBudget
  /\ \A other \in waiting : c.stamp <= other.stamp
  /\ waiting' = waiting \ {c}

MayRecover(t) == limit - requests >= MinimumRecoveryRequests(t)

RecoveryStart(c) ==
  /\ RecoveryTurn(c)
  /\ MayRecover(c.target)
  /\ work' = [work EXCEPT ![c.target] = "run"]
  /\ UNCHANGED <<direction, phase, limit, reserved, requestVars, aborted, made, drained,
                 pending, clock>>

RecoverySkip(c) ==
  /\ RecoveryTurn(c)
  /\ ~MayRecover(c.target)
  /\ UNCHANGED <<direction, phase, limit, reserved, requestVars, aborted, work, made,
                 drained, pending, clock>>

RecoveryEnds ==
  /\ phase = "recovery"
  /\ \A t \in Targets : work[t] = "idle"
  /\ waiting = {} \/ aborted \/ OutOfBudget
  /\ phase' = "done"
  /\ UNCHANGED <<direction, limit, waiting, reserved, requestVars, aborted, work, made,
                 drained, pending, clock>>

\* The oldest row is settled: outbound by a remote acknowledgement, inbound
\* also by local state alone.
RetrySettled(t) ==
  LET q == QueueOf(t) IN
  /\ phase = "recovery" /\ ~aborted
  /\ NoRequest(t) /\ pending[q] # {}
  /\ direction = "push" => made[t] > 0
  /\ pending' = [pending EXCEPT ![q] = @ \ {Oldest(q)}]
  /\ UNCHANGED <<blocked, drained, clock>>
  /\ Finish(t)

\* It stays pending, the attempt failed, or a request was refused.  Of the
\* refusals a quarantine retry counts only the budget's as an attempt.
RetryRotated(t) ==
  LET q == QueueOf(t) IN
  /\ phase = "recovery" /\ ~aborted
  /\ \/ NoRequest(t)
     \/ work[t] \in {"failed", "unavailable"}
     \/ Refused(t) /\ (direction = "pull" => EndpointOf[t] \notin blocked)
  /\ pending[q] # {}
  /\ pending' = Rotated(q)
  /\ clock' = clock + 1
  /\ blocked' = IF work[t] = "unavailable" THEN blocked \cup {EndpointOf[t]} ELSE blocked
  /\ UNCHANGED drained
  /\ Finish(t)

\* Nothing to retry, stopped, or interrupted without an attempt.
RetryUnchanged(t) ==
  /\ phase = "recovery"
  /\ \/ work[t] = "run" /\ pending[QueueOf(t)] = {}
     \/ aborted /\ (NoRequest(t) \/ Refused(t) \/ work[t] \in {"failed", "unavailable"})
     \/ Refused(t) /\ direction = "pull" /\ EndpointOf[t] \in blocked
  /\ UNCHANGED <<blocked, drained, pending, clock>>
  /\ Finish(t)

Recovery ==
  \/ \E c \in waiting : RecoveryStart(c) \/ RecoverySkip(c)
  \/ \E t \in Targets : RetrySettled(t) \/ RetryRotated(t) \/ RetryUnchanged(t)
  \/ RecoveryEnds

\* buildResult
WorkRemaining ==
  \E t \in Runnable : t \notin drained \/ pending[QueueOf(t)] # {}

Next ==
  \/ StartPages
  \/ \E t \in Targets : Request(t) \/ Page(t)
  \/ StartRecovery
  \/ Recovery
  \/ Abort

\* Every remote request ends, by the transport's timeouts if nothing else, and
\* the promises a run waits for are scheduled by the JavaScript runtime.
Spec == Init /\ [][Next]_vars /\ WF_vars(Next)

-----------------------------------------------------------------------------
\* The fields of a run have the shapes the code gives them.
TypeOK ==
  /\ direction \in {"pull", "push"}
  /\ phase \in {"start", "pages", "recovery", "done"}
  /\ limit \in 1 .. MaxRequests
  /\ requests \in 0 .. MaxRequests
  /\ aborted \in BOOLEAN
  /\ blocked \subseteq Endpoints
  /\ permit \in [Endpoints -> Targets \cup {None}]
  /\ work \in [Targets -> {"idle", "run", "wait", "failed", "unavailable"}]
  /\ made \in [Targets -> 0 .. MaxRequests]
  /\ drained \subseteq Runnable
  /\ clock \in Nat
  /\ pending \in [{QueueOf(t) : t \in Runnable} -> SUBSET (1 .. clock)]
  /\ waiting \subseteq [target : Runnable, stamp : 1 .. clock]
  /\ reserved \subseteq Runnable
  /\ failed \subseteq Endpoints \X {"pages", "recovery"} \X {"thrown", "answered"}

\* Concurrent pages together never use more than their share of the budget,
\* and the run never more than the budget.  "a role attempt starts only when
\* both of its possible remote reads fit in the remaining budget", and nothing
\* takes the second from it once started.
RequestsWithinBudget ==
  /\ TypeOK
  /\ requests <= limit
  /\ phase = "recovery" /\ direction = "pull" =>
       \A t \in RoleTargets :
         work[t] \in {"run", "wait"} /\ made[t] < 2 => requests + (2 - made[t]) <= MaxRequests

\* However the concurrent pages spend their share, every recovery that was
\* pending when the run started could still be funded first when the recovery
\* phase begins.
RecoveryNotStarved ==
  [][phase = "pages" /\ phase' = "recovery" =>
       \A t \in reserved : MaxRequests - requests >= MinimumRecoveryRequests(t)]_vars

\* A run in which a page met an endpoint-wide failure never reports that no
\* work remains, even if other targets and retries succeed afterwards.
FailedPageReported ==
  phase = "done" /\ (\E f \in failed : f[2] = "pages") => WorkRemaining

\* A request that throws for a reason that concerns its endpoint is the last
\* one the run sends there, although other targets are already queued for the
\* permit it holds.
ThrowStopsEndpoint ==
  [][\A f \in failed : f[3] = "thrown" => permit'[f[1]] \in {None, permit[f[1]]}]_vars

\* "Endpoint-wide transport/service failures stop that endpoint for the rest
\* of the run": no request begins at an endpoint that has failed.
EndpointStopsAfterFailure ==
  [][\A f \in failed : permit'[f[1]] \in {None, permit[f[1]]}]_vars

\* Every run ends: no target waits forever for a permit or for another target.
RunEnds == <>(phase = "done")
=============================================================================
