------------------------ MODULE SyncNextRunnerProofs ------------------------
(***************************************************************************)
(* Machine-checked theorems about SyncNextRunner, for all targets,         *)
(* endpoints and projections, every budget of three requests or more and   *)
(* any rows pending when the run starts.                                   *)
(*                                                                         *)
(* RunInv adds to the properties what makes them last: which target may    *)
(* hold a permit (WorkSound), what the pages must leave and what recovery  *)
(* may assume (BudgetSound), and, for every failed page, the target that   *)
(* still has work (FailuresSound).                                         *)
(***************************************************************************)
EXTENDS SyncNextRunner, FiniteSetTheorems, TLAPS

\* A target at work is one of the run's, and its work is a page or a retry.
\* It holds a permit only during a request, has a row to retry while it waits
\* for one, and is not drained before its page has ended.
WorkSound ==
  \A t \in Targets :
    /\ made[t] <= requests
    /\ work[t] = "idle" => made[t] = 0
    /\ work[t] # "idle" => t \in Runnable /\ phase \in {"pages", "recovery"}
    /\ permit[EndpointOf[t]] = t => work[t] = "run"
    /\ work[t] # "idle" /\ phase = "pages" => t \notin drained
    /\ phase = "recovery" /\ (work[t] = "wait" \/ permit[EndpointOf[t]] = t) =>
         pending[QueueOf(t)] # {}

\* Pages leave the reserve alone, and recovery is sequential under the whole
\* budget.
BudgetSound ==
  /\ phase = "start" => requests = 0 /\ drained = {} /\ failed = {}
  /\ phase = "pages" => \A t \in reserved : MaxRequests - limit >= MinimumRecoveryRequests(t)
  /\ phase = "recovery" =>
       /\ limit = MaxRequests
       /\ \A t, u \in Targets : work[t] # "idle" /\ work[u] # "idle" => t = u

\* A target whose page met a failure of its endpoint has not drained its feed
\* and will not; or it has, with its failed entry retained, and no request can
\* settle that entry any more.
NotDrained(t) ==
  /\ t \notin drained
  /\ phase = "pages" => \/ work[t] \in {"idle", "unavailable"}
                        \/ work[t] = "failed" /\ EndpointOf[t] \in blocked
Retains(t) ==
  /\ direction = "push" /\ EndpointOf[t] \in blocked
  /\ pending[t] # {} /\ made[t] = 0
  /\ phase = "pages" => work[t] = "idle"
Unfinished(t) == NotDrained(t) \/ Retains(t)

FailuresSound ==
  \A f \in failed :
    /\ f[3] = "thrown" => f[1] \in blocked
    /\ f[2] = "pages" => \E t \in Runnable : EndpointOf[t] = f[1] /\ Unfinished(t)

\* The inductive invariant.
RunInv == RequestsWithinBudget /\ WorkSound /\ BudgetSound /\ FailuresSound

-----------------------------------------------------------------------------
(* Queues and budgets. *)

\* The direction of a run is fixed, and with it its targets and queues.
LEMMA SameRun ==
  ASSUME direction' = direction
  PROVE  /\ Runnable' = Runnable
         /\ \A t : QueueOf(t)' = QueueOf(t)
         /\ \A t : MinimumRecoveryRequests(t)' = MinimumRecoveryRequests(t)
BY Zenon DEF Runnable, QueueOf, MinimumRecoveryRequests

LEMMA RunnableTargets == Runnable \subseteq Targets
BY Zenon DEF Runnable

\* A nonempty set of times has a least element: the smallest of the intervals
\* that end in it.
LEMMA LeastTime ==
  ASSUME NEW n \in Nat, NEW S \in SUBSET (1 .. n), S # {}
  PROVE  \E s \in S : \A u \in S : s <= u
<1> DEFINE Below(s) == 1 .. s
           T == {Below(s) : s \in S}
<1>1. FiniteSubsetsOf(1 .. n) = SUBSET (1 .. n)
  <2>1. IsFiniteSet(1 .. n)
    BY FS_Interval
  <2> QED
    BY <2>1, FS_FiniteSubsetsOfFinite, Zenon
<1>2. \A s \in S : s \in Nat /\ s >= 1 /\ Below(s) \subseteq 1 .. n
  OBVIOUS
<1>3. \A s, u \in S : u < s => Below(u) \subseteq Below(s) /\ Below(u) # Below(s)
  <2> SUFFICES ASSUME NEW s \in S, NEW u \in S, u < s
               PROVE  Below(u) \subseteq Below(s) /\ Below(u) # Below(s)
    BY Zenon
  <2>1. s \in Below(s) /\ s \notin Below(u) /\ Below(u) \subseteq Below(s)
    BY <1>2
  <2> QED
    BY <2>1, Zenon
<1> HIDE DEF Below
<1>4. T \subseteq FiniteSubsetsOf(1 .. n)
  BY <1>1, <1>2
<1>5. T # {}
  <2>1. PICK s : s \in S
    BY Zenon
  <2>2. Below(s) \in T
    BY <2>1, Zenon
  <2> QED
    BY <2>2, Zenon
<1>6. PICK x \in T : \A y \in T : <<y, x>> \notin StrictSubsetOrdering(1 .. n)
  BY <1>4, <1>5, FS_StrictSubsetOrderingWellFounded, WFMin, Zenon
<1>7. PICK s \in S : x = Below(s)
  BY <1>6, Zenon
<1>8. \A u \in S : ~(Below(u) \subseteq Below(s) /\ Below(u) # Below(s))
  BY <1>2, <1>6, <1>7, Zenon DEF StrictSubsetOrdering
<1>9. \A u \in S : s <= u
  BY <1>2, <1>3, <1>8
<1> QED
  BY <1>9, Zenon

\* A nonempty queue has an oldest row.
LEMMA OldestRow ==
  ASSUME TypeOK, NEW t \in Runnable, pending[QueueOf(t)] # {}
  PROVE  /\ pending[QueueOf(t)] \subseteq 1 .. clock
         /\ Oldest(QueueOf(t)) \in pending[QueueOf(t)]
<1>1. QueueOf(t) \in {QueueOf(u) : u \in Runnable}
  BY Zenon
<1>2. pending[QueueOf(t)] \in SUBSET (1 .. clock) /\ clock \in Nat
  BY <1>1, Zenon DEF TypeOK
<1>3. \E s \in pending[QueueOf(t)] : \A u \in pending[QueueOf(t)] : s <= u
  BY <1>2, LeastTime, Zenon
<1> QED
  BY <1>2, <1>3, Zenon DEF Oldest

\* The candidates are targets of the run, each with a time of its queue.
LEMMA CandidatesTyped ==
  ASSUME TypeOK
  PROVE  /\ RecoveryCandidates \subseteq [target : Runnable, stamp : 1 .. clock]
         /\ \A c \in RecoveryCandidates : c.target \in Runnable
<1>1. \A t \in Runnable : pending[QueueOf(t)] # {} => Oldest(QueueOf(t)) \in 1 .. clock
  BY OldestRow, Zenon
<1> QED
  BY <1>1 DEF RecoveryCandidates

\* The reserve funds an attempt of every candidate.
LEMMA ReserveSuffices ==
  /\ RecoveryReserve \in 0 .. 2
  /\ \A c \in RecoveryCandidates : /\ MinimumRecoveryRequests(c.target) <= RecoveryReserve
                                   /\ RecoveryReserve # 0
<1> DEFINE P(n) == /\ \A c \in RecoveryCandidates : MinimumRecoveryRequests(c.target) <= n
                   /\ n = 0 \/ \E c \in RecoveryCandidates : MinimumRecoveryRequests(c.target) = n
<1>1. \A c \in RecoveryCandidates : MinimumRecoveryRequests(c.target) \in {1, 2}
  BY Zenon DEF MinimumRecoveryRequests
<1>2. \E n \in 0 .. 2 : P(n)
  <2>1. CASE \E c \in RecoveryCandidates : MinimumRecoveryRequests(c.target) = 2
    <3>1. P(2)
      BY <1>1, <2>1
    <3> QED
      BY <3>1
  <2>2. CASE /\ ~\E c \in RecoveryCandidates : MinimumRecoveryRequests(c.target) = 2
             /\ RecoveryCandidates # {}
    <3>1. P(1)
      BY <1>1, <2>2
    <3> QED
      BY <3>1
  <2>3. CASE RecoveryCandidates = {}
    <3>1. P(0)
      BY <2>3, Zenon
    <3> QED
      BY <3>1
  <2> QED
    BY <2>1, <2>2, <2>3, Zenon
<1>3. RecoveryReserve \in 0 .. 2 /\ P(RecoveryReserve)
  BY <1>2, Zenon DEF RecoveryReserve
<1> QED
  BY <1>1, <1>3

\* The pages' share is a request at least, and leaves the reserve.
LEMMA PageLimitLeaves ==
  /\ PageLimit \in 1 .. MaxRequests
  /\ \A c \in RecoveryCandidates : MaxRequests - PageLimit >= MinimumRecoveryRequests(c.target)
<1>1. /\ RecoveryReserve \in 0 .. 2 /\ MaxRequests \in Nat /\ MaxRequests >= 3
      /\ (MaxRequests + 1) \div 2 \in Nat /\ (MaxRequests + 1) \div 2 >= 1
      /\ (MaxRequests + 1) \div 2 <= MaxRequests
  BY ReserveSuffices, RunnerAssumption
<1>2. /\ PageLimit \in 1 .. MaxRequests
      /\ RecoveryReserve # 0 => PageLimit <= MaxRequests - RecoveryReserve
  BY <1>1 DEF PageLimit
<1>3. \A c \in RecoveryCandidates : MinimumRecoveryRequests(c.target) \in {1, 2}
  BY Zenon DEF MinimumRecoveryRequests
<1> QED
  BY <1>1, <1>2, <1>3, ReserveSuffices

\* A failure is remembered by the target that still has work.
LEMMA FailuresKept ==
  ASSUME RunInv, direction' = direction, blocked \subseteq blocked',
         \A f \in failed' \ failed :
           /\ f[3] = "thrown" => f[1] \in blocked'
           /\ f[2] = "pages" => \E t \in Runnable : EndpointOf[t] = f[1] /\ Unfinished(t)',
         \A t \in Runnable : Unfinished(t) => Unfinished(t)'
  PROVE  FailuresSound'
<1>1. Runnable' = Runnable
  BY SameRun, Zenon
<1> SUFFICES ASSUME NEW f \in failed'
             PROVE  /\ f[3] = "thrown" => f[1] \in blocked'
                    /\ f[2] = "pages" =>
                         \E t \in Runnable : EndpointOf[t] = f[1] /\ Unfinished(t)'
  BY <1>1, Zenon DEF FailuresSound
<1>2. CASE f \in failed
  BY <1>2, Zenon DEF RunInv, FailuresSound
<1>3. CASE f \notin failed
  BY <1>3, Zenon
<1> QED
  BY <1>2, <1>3, Zenon

-----------------------------------------------------------------------------
(* The steps. *)

\* The queues after a row is retained, rotated or settled.
LEMMA QueuesTyped ==
  ASSUME TypeOK, NEW t \in Runnable
  PROVE  /\ clock + 1 \in Nat
         /\ pending \in [{QueueOf(u) : u \in Runnable} -> SUBSET (1 .. clock + 1)]
         /\ Retained(QueueOf(t)) \in [{QueueOf(u) : u \in Runnable} -> SUBSET (1 .. clock + 1)]
         /\ Rotated(QueueOf(t)) \in [{QueueOf(u) : u \in Runnable} -> SUBSET (1 .. clock + 1)]
         /\ \A u \in Runnable :
              /\ pending[QueueOf(u)] # {} => Retained(QueueOf(t))[QueueOf(u)] # {}
              /\ pending[QueueOf(u)] # {} => Rotated(QueueOf(t))[QueueOf(u)] # {}
              /\ u = t => Retained(QueueOf(t))[QueueOf(u)] # {}
<1> DEFINE D == {QueueOf(u) : u \in Runnable}
           q == QueueOf(t)
<1>1. /\ pending \in [D -> SUBSET (1 .. clock)] /\ clock \in Nat /\ q \in D
      /\ \A u \in Runnable : QueueOf(u) \in D
  BY Zenon DEF TypeOK
<1>2. \A S \in SUBSET (1 .. clock) : S \in SUBSET (1 .. clock + 1)
  BY <1>1
<1>3. clock + 1 \in Nat /\ clock + 1 \in 1 .. clock + 1
  BY <1>1
<1> HIDE DEF D, q
<1>4. pending \in [D -> SUBSET (1 .. clock + 1)]
  BY <1>1, <1>2, Zenon
<1>5. Retained(q) \in [D -> SUBSET (1 .. clock + 1)] /\ Rotated(q) \in [D -> SUBSET (1 .. clock + 1)]
  BY <1>1, <1>3, <1>4, Zenon DEF Retained, Rotated
<1>6. \A d \in D : /\ pending[d] # {} => Retained(q)[d] # {} /\ Rotated(q)[d] # {}
                   /\ Retained(q)[q] # {}
  BY <1>1, Zenon DEF Retained, Rotated
<1> QED
  BY <1>1, <1>3, <1>4, <1>5, <1>6, Zenon DEF D, q

\* Whatever work ends, the shapes are kept.
LEMMA FinishTyped ==
  ASSUME RunInv, NEW t \in Targets, Finish(t),
         blocked' \subseteq Endpoints, drained' \subseteq Runnable,
         clock' \in Nat, clock <= clock',
         pending' \in [{QueueOf(u) : u \in Runnable} -> SUBSET (1 .. clock')]
  PROVE  TypeOK'
<1>1. /\ UNCHANGED <<direction, phase, limit, waiting, reserved, aborted, requests, permit, failed>>
      /\ work' = [work EXCEPT ![t] = "idle"] /\ made' = [made EXCEPT ![t] = 0]
  BY Zenon DEF Finish, runVars
<1>2. Runnable' = Runnable /\ \A u : QueueOf(u)' = QueueOf(u)
  BY <1>1, SameRun, Zenon
<1>3. {QueueOf(u) : u \in Runnable}' = {QueueOf(u) : u \in Runnable}
  BY <1>2, Zenon
<1>4. [target : Runnable, stamp : 1 .. clock] \subseteq [target : Runnable, stamp : 1 .. clock']
  <2>1. clock \in Nat
    BY Zenon DEF RunInv, RequestsWithinBudget, TypeOK
  <2>2. 1 .. clock \subseteq 1 .. clock'
    BY <2>1
  <2> QED
    BY <2>2, Zenon
<1>5. work' \in [Targets -> {"idle", "run", "wait", "failed", "unavailable"}]
  BY <1>1, Zenon DEF RunInv, RequestsWithinBudget, TypeOK
<1>6. made' \in [Targets -> 0 .. MaxRequests]
  BY <1>1, RunnerAssumption DEF RunInv, RequestsWithinBudget, TypeOK
<1> QED
  BY <1>1, <1>2, <1>3, <1>4, <1>5, <1>6, Zenon DEF RunInv, RequestsWithinBudget, TypeOK

\* The end of a target's work takes nothing from the others.
LEMMA FinishSound ==
  ASSUME RunInv, NEW t \in Targets, Finish(t), TypeOK', FailuresSound',
         work[t] # "idle", permit[EndpointOf[t]] # t, drained' \subseteq drained \cup {t}
  PROVE  RunInv'
<1>1. /\ UNCHANGED <<direction, phase, limit, waiting, reserved, aborted, requests, permit, failed>>
      /\ work' = [work EXCEPT ![t] = "idle"] /\ made' = [made EXCEPT ![t] = 0]
  BY Zenon DEF Finish, runVars
<1>2. /\ Runnable' = Runnable /\ \A u : QueueOf(u)' = QueueOf(u)
      /\ \A u : MinimumRecoveryRequests(u)' = MinimumRecoveryRequests(u)
  BY <1>1, SameRun, Zenon
<1>3. /\ work \in [Targets -> {"idle", "run", "wait", "failed", "unavailable"}]
      /\ made \in [Targets -> 0 .. MaxRequests]
      /\ requests \in Nat /\ t \in Runnable /\ phase \in {"pages", "recovery"}
  BY RunnerAssumption DEF RunInv, RequestsWithinBudget, TypeOK, WorkSound
<1>4. /\ work'[t] = "idle" /\ made'[t] = 0
      /\ \A u \in Targets : u # t => work'[u] = work[u] /\ made'[u] = made[u]
  BY <1>1, <1>3, Zenon
<1>5. RequestsWithinBudget'
  <2>1. RoleTargets \subseteq Targets
    BY RunnerAssumption, Zenon
  <2> QED
    BY <1>1, <1>4, <2>1, Zenon DEF RunInv, RequestsWithinBudget
<1>6. WorkSound'
  <2> SUFFICES ASSUME NEW u \in Targets
               PROVE  /\ made'[u] <= requests
                      /\ work'[u] = "idle" => made'[u] = 0
                      /\ work'[u] # "idle" => u \in Runnable /\ phase \in {"pages", "recovery"}
                      /\ permit[EndpointOf[u]] = u => work'[u] = "run"
                      /\ work'[u] # "idle" /\ phase = "pages" => u \notin drained'
                      /\ phase = "recovery" /\ (work'[u] = "wait" \/ permit[EndpointOf[u]] = u) =>
                           pending'[QueueOf(u)] # {}
    BY <1>1, <1>2, Zenon DEF WorkSound
  <2>1. CASE u = t
    BY <1>3, <1>4, <2>1
  <2>2. CASE u # t
    <3>1. phase = "recovery" => work[u] = "idle"
      BY <2>2, Zenon DEF RunInv, BudgetSound
    <3>2. phase = "recovery" => permit[EndpointOf[u]] # u
      BY <3>1, Zenon DEF RunInv, WorkSound
    <3> QED
      BY <1>4, <2>2, <3>1, <3>2, Zenon DEF RunInv, WorkSound
  <2> QED
    BY <2>1, <2>2, Zenon
<1>7. BudgetSound'
  BY <1>1, <1>2, <1>3, <1>4, Zenon DEF RunInv, BudgetSound
<1> QED
  BY <1>5, <1>6, <1>7, Zenon DEF RunInv

\* What is known of a target whose work may end.
LEMMA WorkerFacts ==
  ASSUME RunInv, NEW t \in Targets
  PROVE  /\ NoRequest(t) => work[t] = "run" /\ permit[EndpointOf[t]] # t
         /\ work[t] # "run" => permit[EndpointOf[t]] # t
         /\ work[t] # "idle" => t \in Runnable /\ QueueOf(t) \in {QueueOf(u) : u \in Runnable}
         /\ clock \in Nat /\ EndpointOf[t] \in Endpoints
         /\ blocked \subseteq Endpoints /\ drained \subseteq Runnable
         /\ pending \in [{QueueOf(u) : u \in Runnable} -> SUBSET (1 .. clock)]
         /\ work \in [Targets -> {"idle", "run", "wait", "failed", "unavailable"}]
         /\ made \in [Targets -> 0 .. MaxRequests]
<1>1. /\ NoRequest(t) => work[t] = "run" /\ permit[EndpointOf[t]] # t
      /\ work[t] # "run" => permit[EndpointOf[t]] # t
      /\ work[t] # "idle" => t \in Runnable
  BY Zenon DEF RunInv, WorkSound, NoRequest
<1>2. EndpointOf[t] \in Endpoints
  BY RunnerAssumption, Zenon
<1>3. work[t] # "idle" => QueueOf(t) \in {QueueOf(u) : u \in Runnable}
  BY <1>1, Zenon
<1> QED
  BY <1>1, <1>2, <1>3, Zenon DEF RunInv, RequestsWithinBudget, TypeOK

\* What the end of a work may do to the endpoints, the feeds and the queues.
LEMMA EndTyped ==
  ASSUME RunInv, NEW t \in Targets, Finish(t), work[t] # "idle",
         blocked' \subseteq blocked \cup {EndpointOf[t]}, drained' \subseteq drained \cup {t},
         \/ pending' = pending /\ clock' = clock
         \/ pending' = Retained(QueueOf(t)) /\ clock' = clock + 1
         \/ pending' = Rotated(QueueOf(t)) /\ clock' = clock + 1
         \/ pending' = [pending EXCEPT ![QueueOf(t)] = @ \ {Oldest(QueueOf(t))}] /\ clock' = clock
  PROVE  TypeOK'
<1> DEFINE D == {QueueOf(u) : u \in Runnable}
<1>1. /\ t \in Runnable /\ QueueOf(t) \in D /\ clock \in Nat
      /\ pending \in [D -> SUBSET (1 .. clock)]
      /\ blocked' \subseteq Endpoints /\ drained' \subseteq Runnable
  BY WorkerFacts
<1>2. /\ Retained(QueueOf(t)) \in [D -> SUBSET (1 .. clock + 1)]
      /\ Rotated(QueueOf(t)) \in [D -> SUBSET (1 .. clock + 1)]
  BY <1>1, QueuesTyped, Zenon DEF RunInv, RequestsWithinBudget
<1>3. [pending EXCEPT ![QueueOf(t)] = @ \ {Oldest(QueueOf(t))}] \in [D -> SUBSET (1 .. clock)]
  BY <1>1, Zenon
<1> HIDE DEF D
<1>4. clock' \in Nat /\ clock <= clock'
  BY <1>1
<1>5. pending' \in [D -> SUBSET (1 .. clock')]
  BY <1>1, <1>2, <1>3, Zenon
<1> QED
  BY <1>1, <1>4, <1>5, FinishTyped, Zenon DEF D

\* Work ends: the invariant is kept when the shapes are, and when no target
\* forgets its failure.
LEMMA FinishStep ==
  ASSUME RunInv, NEW t \in Targets, Finish(t), TypeOK', blocked \subseteq blocked',
         work[t] # "idle", permit[EndpointOf[t]] # t, drained' \subseteq drained \cup {t},
         \A u \in Runnable : Unfinished(u) => Unfinished(u)'
  PROVE  RunInv'
<1>1. direction' = direction /\ failed' = failed
  BY Zenon DEF Finish, runVars
<1>2. FailuresSound'
  BY <1>1, FailuresKept, Zenon
<1> QED
  BY <1>2, FinishSound, Zenon

\* A page of target t ends, with a row retained or not: the target's own
\* failure stays visible, by its feed or by the retained row.
LEMMA PageEndUnfinished ==
  ASSUME RunInv, NEW t \in Targets, Finish(t), phase = "pages", work[t] # "idle",
         blocked \subseteq blocked',
         drained' \subseteq drained \cup {t},
         pending' = pending \/ pending' = Retained(QueueOf(t)),
         \/ work[t] \in {"run", "wait"}
         \/ t \notin drained'
         \/ /\ direction = "push" /\ pending' = Retained(QueueOf(t))
            /\ EndpointOf[t] \in blocked' \/ (work[t] = "failed" /\ EndpointOf[t] \notin blocked)
  PROVE  \A u \in Runnable : Unfinished(u) => Unfinished(u)'
<1> SUFFICES ASSUME NEW u \in Runnable, Unfinished(u) PROVE Unfinished(u)'
  BY Zenon
<1>1. /\ direction' = direction /\ phase' = phase
      /\ work' = [work EXCEPT ![t] = "idle"] /\ made' = [made EXCEPT ![t] = 0]
  BY Zenon DEF Finish, runVars
<1>2. /\ work \in [Targets -> {"idle", "run", "wait", "failed", "unavailable"}]
      /\ made \in [Targets -> 0 .. MaxRequests] /\ u \in Targets /\ t \in Runnable
  BY WorkerFacts, RunnableTargets, Zenon
<1>3. /\ work'[t] = "idle" /\ made'[t] = 0
      /\ u # t => work'[u] = work[u] /\ made'[u] = made[u]
  BY <1>1, <1>2, Zenon
<1>4. direction = "push" /\ pending[u] # {} => pending'[u] # {}
  <2>1. pending[QueueOf(u)] # {} => pending'[QueueOf(u)] # {}
    BY <1>2, QueuesTyped, Zenon DEF RunInv, RequestsWithinBudget
  <2> QED
    BY <2>1, Zenon DEF QueueOf
<1>5. CASE u # t
  BY <1>1, <1>3, <1>4, <1>5, Zenon DEF Unfinished, NotDrained, Retains
<1>6. CASE u = t
  <2>1. NotDrained(t) /\ work[t] \in {"unavailable", "failed"}
        /\ (work[t] = "failed" => EndpointOf[t] \in blocked)
    BY <1>6, Zenon DEF Unfinished, NotDrained, Retains
  <2>2. CASE t \notin drained'
    BY <1>1, <1>3, <1>6, <2>2, Zenon DEF Unfinished, NotDrained
  <2>3. CASE /\ direction = "push" /\ pending' = Retained(QueueOf(t))
             /\ EndpointOf[t] \in blocked'
    <3>1. pending'[QueueOf(t)] # {}
      BY <1>2, <2>3, QueuesTyped, Zenon DEF RunInv, RequestsWithinBudget
    <3>2. pending'[t] # {}
      BY <2>3, <3>1, Zenon DEF QueueOf
    <3> QED
      BY <1>1, <1>3, <1>6, <2>3, <3>2, Zenon DEF Unfinished, Retains
  <2> QED
    BY <2>1, <2>2, <2>3, Zenon
<1> QED
  BY <1>5, <1>6, Zenon

LEMMA PageCommittedStep ==
  ASSUME RunInv, NEW t \in Targets, NEW isDrained \in BOOLEAN, NEW retains \in BOOLEAN,
         PageCommitted(t, isDrained, retains)
  PROVE  RunInv'
<1>1. /\ phase = "pages" /\ Finish(t) /\ blocked' = blocked
      /\ NoRequest(t) \/ (work[t] = "failed" /\ direction = "push" /\ retains)
      /\ drained' = IF isDrained THEN drained \cup {t} ELSE drained
      /\ pending' = IF retains THEN Retained(QueueOf(t)) ELSE pending
      /\ clock' = IF retains THEN clock + 1 ELSE clock
  BY Zenon DEF PageCommitted
<1>2. /\ work[t] \in {"run", "failed"} /\ t \in Runnable /\ permit[EndpointOf[t]] # t
      /\ work[t] = "failed" => direction = "push" /\ retains
  BY <1>1, WorkerFacts, Zenon
<1>3. TypeOK'
  BY <1>1, <1>2, EndTyped, Zenon
<1>4. \A u \in Runnable : Unfinished(u) => Unfinished(u)'
  BY <1>1, <1>2, PageEndUnfinished, Zenon
<1> QED
  BY <1>1, <1>2, <1>3, <1>4, FinishStep, Zenon

LEMMA PageCutStep ==
  ASSUME RunInv, NEW t \in Targets, NEW retains \in BOOLEAN, PageCut(t, retains)
  PROVE  RunInv'
<1>1. /\ phase = "pages" /\ Finish(t) /\ blocked' = blocked /\ drained' = drained
      /\ work[t] = "wait"
      /\ pending' = IF retains THEN Retained(QueueOf(t)) ELSE pending
      /\ clock' = IF retains THEN clock + 1 ELSE clock
  BY Zenon DEF PageCut, Refused
<1>2. t \in Runnable /\ permit[EndpointOf[t]] # t
  BY <1>1, WorkerFacts, Zenon
<1>3. TypeOK'
  BY <1>1, <1>2, EndTyped, Zenon
<1>4. \A u \in Runnable : Unfinished(u) => Unfinished(u)'
  BY <1>1, PageEndUnfinished, Zenon
<1> QED
  BY <1>1, <1>2, <1>3, <1>4, FinishStep, Zenon

LEMMA PageFailedStep ==
  ASSUME RunInv, NEW t \in Targets, PageFailed(t)
  PROVE  RunInv'
<1>1. /\ phase = "pages" /\ Finish(t) /\ blocked' = blocked /\ drained' = drained
      /\ NoRequest(t) \/ work[t] \in {"failed", "unavailable"}
      /\ pending' = pending /\ clock' = clock
  BY Zenon DEF PageFailed
<1>2. t \in Runnable /\ permit[EndpointOf[t]] # t /\ work[t] # "idle"
  BY <1>1, WorkerFacts, Zenon
<1>3. TypeOK'
  BY <1>1, <1>2, EndTyped, Zenon
<1>4. t \notin drained'
  BY <1>1, <1>2, Zenon DEF RunInv, WorkSound
<1>5. \A u \in Runnable : Unfinished(u) => Unfinished(u)'
  BY <1>1, <1>2, <1>4, PageEndUnfinished, Zenon
<1> QED
  BY <1>1, <1>2, <1>3, <1>5, FinishStep, Zenon

LEMMA PageUnavailableStep ==
  ASSUME RunInv, NEW t \in Targets, NEW isDrained \in BOOLEAN, PageUnavailable(t, isDrained)
  PROVE  RunInv'
<1> DEFINE push == direction = "push"
<1>1. /\ phase = "pages" /\ Finish(t) /\ work[t] = "unavailable"
      /\ blocked' = blocked \cup {EndpointOf[t]}
      /\ drained' = IF push /\ isDrained THEN drained \cup {t} ELSE drained
      /\ pending' = IF push THEN Retained(QueueOf(t)) ELSE pending
      /\ clock' = IF push THEN clock + 1 ELSE clock
  BY Zenon DEF PageUnavailable
<1>2. /\ t \in Runnable /\ permit[EndpointOf[t]] # t /\ blocked' \subseteq Endpoints
      /\ t \notin drained
  BY <1>1, WorkerFacts, Zenon DEF RunInv, WorkSound
<1>3. TypeOK'
  BY <1>1, <1>2, EndTyped, Zenon
<1>4. \A u \in Runnable : Unfinished(u) => Unfinished(u)'
  <2>1. t \notin drained' \/ (push /\ pending' = Retained(QueueOf(t)) /\ EndpointOf[t] \in blocked')
    BY <1>1, <1>2, Zenon
  <2> QED
    BY <1>1, <2>1, PageEndUnfinished, Zenon
<1> QED
  BY <1>1, <1>2, <1>3, <1>4, FinishStep, Zenon

\* A retry of target t ends: no other queue that holds a failed entry changes,
\* and t's own keeps its entry unless a request was made.
LEMMA RetryEndUnfinished ==
  ASSUME RunInv, NEW t \in Targets, Finish(t), phase = "recovery", work[t] # "idle",
         blocked \subseteq blocked', drained' = drained,
         \/ pending' = pending
         \/ pending' = Rotated(QueueOf(t))
         \/ /\ pending' = [pending EXCEPT ![QueueOf(t)] = @ \ {Oldest(QueueOf(t))}]
            /\ direction = "push" => made[t] > 0
  PROVE  \A u \in Runnable : Unfinished(u) => Unfinished(u)'
<1> SUFFICES ASSUME NEW u \in Runnable, Unfinished(u) PROVE Unfinished(u)'
  BY Zenon
<1>1. /\ direction' = direction /\ phase' = "recovery"
      /\ work' = [work EXCEPT ![t] = "idle"] /\ made' = [made EXCEPT ![t] = 0]
  BY Zenon DEF Finish, runVars
<1>2. CASE NotDrained(u)
  BY <1>1, <1>2, Zenon DEF Unfinished, NotDrained
<1>3. CASE Retains(u)
  <2>1. /\ direction = "push" /\ EndpointOf[u] \in blocked /\ pending[u] # {} /\ made[u] = 0
        /\ QueueOf(u) = u /\ QueueOf(t) = t
    BY <1>3, Zenon DEF Retains, QueueOf
  <2>2. made'[u] = 0
    BY <1>1, <2>1, WorkerFacts, RunnableTargets, Zenon
  <2>3. t \in Runnable
    BY WorkerFacts, Zenon
  <2>4. pending'[u] # {}
    <3>1. CASE pending' = Rotated(QueueOf(t))
      <4>1. pending'[QueueOf(u)] # {}
        BY <2>1, <2>3, <3>1, QueuesTyped, Zenon DEF RunInv, RequestsWithinBudget
      <4> QED
        BY <2>1, <4>1, Zenon
    <3>2. CASE /\ pending' = [pending EXCEPT ![QueueOf(t)] = @ \ {Oldest(QueueOf(t))}]
               /\ made[t] > 0
      <4>1. u # t
        BY <2>1, <3>2
      <4>2. pending'[u] = pending[u]
        BY <2>1, <3>2, <4>1, WorkerFacts, Zenon
      <4> QED
        BY <2>1, <4>2, Zenon
    <3> QED
      BY <2>1, <3>1, <3>2, Zenon
  <2> QED
    BY <1>1, <2>1, <2>2, <2>4, Zenon DEF Unfinished, Retains
<1> QED
  BY <1>2, <1>3, Zenon DEF Unfinished

LEMMA RetrySettledStep ==
  ASSUME RunInv, NEW t \in Targets, RetrySettled(t)
  PROVE  RunInv'
<1>1. /\ phase = "recovery" /\ Finish(t) /\ blocked' = blocked /\ drained' = drained
      /\ clock' = clock /\ NoRequest(t)
      /\ direction = "push" => made[t] > 0
      /\ pending' = [pending EXCEPT ![QueueOf(t)] = @ \ {Oldest(QueueOf(t))}]
  BY Zenon DEF RetrySettled
<1>2. permit[EndpointOf[t]] # t /\ work[t] # "idle"
  BY <1>1, WorkerFacts, Zenon
<1>3. TypeOK'
  BY <1>1, <1>2, EndTyped, Zenon
<1>4. \A u \in Runnable : Unfinished(u) => Unfinished(u)'
  BY <1>1, <1>2, RetryEndUnfinished, Zenon
<1> QED
  BY <1>1, <1>2, <1>3, <1>4, FinishStep, Zenon

LEMMA RetryRotatedStep ==
  ASSUME RunInv, NEW t \in Targets, RetryRotated(t)
  PROVE  RunInv'
<1>1. /\ phase = "recovery" /\ Finish(t) /\ drained' = drained
      /\ clock' = clock + 1 /\ pending' = Rotated(QueueOf(t))
      /\ blocked \subseteq blocked' /\ blocked' \subseteq blocked \cup {EndpointOf[t]}
      /\ NoRequest(t) \/ work[t] \in {"failed", "unavailable", "wait"}
  BY Zenon DEF RetryRotated, Refused
<1>2. permit[EndpointOf[t]] # t /\ work[t] # "idle"
  BY <1>1, WorkerFacts, Zenon
<1>3. TypeOK'
  BY <1>1, <1>2, EndTyped, Zenon
<1>4. \A u \in Runnable : Unfinished(u) => Unfinished(u)'
  BY <1>1, <1>2, RetryEndUnfinished, Zenon
<1> QED
  BY <1>1, <1>2, <1>3, <1>4, FinishStep, Zenon

LEMMA RetryUnchangedStep ==
  ASSUME RunInv, NEW t \in Targets, RetryUnchanged(t)
  PROVE  RunInv'
<1>1. /\ phase = "recovery" /\ Finish(t) /\ blocked' = blocked /\ drained' = drained
      /\ clock' = clock /\ pending' = pending
      /\ \/ work[t] = "run" /\ pending[QueueOf(t)] = {}
         \/ NoRequest(t) \/ work[t] \in {"failed", "unavailable", "wait"}
  BY Zenon DEF RetryUnchanged, Refused
<1>2. permit[EndpointOf[t]] # t /\ work[t] # "idle"
  BY <1>1, WorkerFacts, Zenon DEF RunInv, WorkSound
<1>3. TypeOK'
  BY <1>1, <1>2, EndTyped, Zenon
<1>4. \A u \in Runnable : Unfinished(u) => Unfinished(u)'
  BY <1>1, <1>2, RetryEndUnfinished, Zenon
<1> QED
  BY <1>1, <1>2, <1>3, <1>4, FinishStep, Zenon

\* A request step of target t: t goes on working, or fails.
LEMMA RequestStep ==
  ASSUME RunInv, NEW t \in Targets,
         NEW how \in {"run", "wait", "failed", "unavailable"}, work[t] \in {"run", "wait"},
         UNCHANGED <<runVars, aborted, drained, pending, clock>>,
         work' = [work EXCEPT ![t] = how],
         \/ UNCHANGED <<requests, made>>
         \/ /\ requests' = requests + 1 /\ made' = [made EXCEPT ![t] = @ + 1]
            /\ requests < limit,
         NEW holder \in {None, t, permit[EndpointOf[t]]},
         permit' = [permit EXCEPT ![EndpointOf[t]] = holder],
         holder = t => how = "run",
         phase = "recovery" /\ (how = "wait" \/ holder = t) => pending[QueueOf(t)] # {},
         blocked' \subseteq Endpoints,
         failed' \subseteq Endpoints \X {"pages", "recovery"} \X {"thrown", "answered"}
  PROVE  RequestsWithinBudget' /\ WorkSound' /\ BudgetSound'
<1>1. UNCHANGED <<direction, phase, limit, waiting, reserved>>
  BY Zenon DEF runVars
<1>2. /\ Runnable' = Runnable /\ \A u : QueueOf(u)' = QueueOf(u)
      /\ \A u : MinimumRecoveryRequests(u)' = MinimumRecoveryRequests(u)
  BY <1>1, SameRun, Zenon
<1>3. /\ work \in [Targets -> {"idle", "run", "wait", "failed", "unavailable"}]
      /\ made \in [Targets -> 0 .. MaxRequests] /\ limit \in 1 .. MaxRequests
      /\ permit \in [Endpoints -> Targets \cup {None}] /\ EndpointOf[t] \in Endpoints
      /\ MaxRequests \in Nat /\ requests \in 0 .. MaxRequests /\ requests <= limit
      /\ t \in Runnable /\ phase \in {"pages", "recovery"} /\ made[t] <= requests
      /\ None \notin Targets
  BY WorkerFacts, RunnerAssumption, Zenon DEF RunInv, RequestsWithinBudget, TypeOK, WorkSound
<1>4. /\ work'[t] = how
      /\ \A u \in Targets : u # t => work'[u] = work[u] /\ made'[u] = made[u]
      /\ \/ requests' = requests /\ made'[t] = made[t]
         \/ requests' = requests + 1 /\ made'[t] = made[t] + 1 /\ requests < limit
      /\ requests <= requests' /\ requests' <= limit /\ requests' \in 0 .. MaxRequests
  BY <1>3
<1>5. TypeOK'
  <2>1. made' \in [Targets -> 0 .. MaxRequests]
    <3>1. made'[t] \in 0 .. MaxRequests
      BY <1>3, <1>4
    <3> QED
      BY <1>3, <3>1, Zenon
  <2>2. permit' \in [Endpoints -> Targets \cup {None}]
    BY <1>3, Zenon
  <2>3. work' \in [Targets -> {"idle", "run", "wait", "failed", "unavailable"}]
    BY <1>3, Zenon
  <2>4. {QueueOf(u) : u \in Runnable}' = {QueueOf(u) : u \in Runnable}
    BY <1>2, Zenon
  <2> QED
    BY <1>1, <1>2, <1>4, <2>1, <2>2, <2>3, <2>4, Zenon DEF RunInv, RequestsWithinBudget, TypeOK
<1>6. phase = "recovery" => \A u \in Targets : u # t => work[u] = "idle"
  BY Zenon DEF RunInv, BudgetSound
<1>7. RequestsWithinBudget'
  <2> SUFFICES ASSUME phase = "recovery", direction = "pull", NEW u \in RoleTargets,
                      work'[u] \in {"run", "wait"}, made'[u] < 2
               PROVE  requests' + (2 - made'[u]) <= MaxRequests
    BY <1>1, <1>4, <1>5, Zenon DEF RequestsWithinBudget
  <2>1. u \in Targets
    BY RunnerAssumption, Zenon
  <2>2. u = t
    BY <1>4, <1>6, <2>1, Zenon
  <2>3. work[t] \in {"run", "wait"} /\ made[t] < 2 => requests + (2 - made[t]) <= MaxRequests
    BY <2>2, Zenon DEF RunInv, RequestsWithinBudget
  <2> QED
    BY <1>3, <1>4, <2>2, <2>3
<1>8. WorkSound'
  <2> SUFFICES ASSUME NEW u \in Targets
               PROVE  /\ made'[u] <= requests'
                      /\ work'[u] = "idle" => made'[u] = 0
                      /\ work'[u] # "idle" => u \in Runnable /\ phase \in {"pages", "recovery"}
                      /\ permit'[EndpointOf[u]] = u => work'[u] = "run"
                      /\ work'[u] # "idle" /\ phase = "pages" => u \notin drained
                      /\ phase = "recovery" /\ (work'[u] = "wait" \/ permit'[EndpointOf[u]] = u) =>
                           pending[QueueOf(u)] # {}
    BY <1>1, <1>2, Zenon DEF WorkSound
  <2>1. EndpointOf[u] \in Endpoints
    BY RunnerAssumption, Zenon
  <2>2. CASE u = t
    <3>1. permit'[EndpointOf[t]] = holder
      BY <1>3, Zenon
    <3>2. phase = "pages" => t \notin drained
      BY Zenon DEF RunInv, WorkSound
    <3> QED
      BY <1>3, <1>4, <2>2, <3>1, <3>2
  <2>3. CASE u # t
    <3>1. permit'[EndpointOf[u]] = u => permit[EndpointOf[u]] = u
      BY <1>3, <2>1, <2>3, Zenon
    <3>2. made[u] <= requests' /\ made[u] \in Nat
      BY <1>3, <1>4 DEF RunInv, WorkSound
    <3> QED
      BY <1>4, <2>3, <3>1, <3>2, Zenon DEF RunInv, WorkSound
  <2> QED
    BY <2>2, <2>3, Zenon
<1>9. BudgetSound'
  BY <1>1, <1>2, <1>3, <1>4, <1>6, Zenon DEF RunInv, BudgetSound
<1> QED
  BY <1>7, <1>8, <1>9, Zenon

LEMMA RequestQueuedStep ==
  ASSUME RunInv, NEW t \in Targets, RequestQueued(t)
  PROVE  RunInv'
<1>1. /\ NoRequest(t)
      /\ phase = "recovery" => pending[QueueOf(t)] # {}
      /\ work' = [work EXCEPT ![t] = "wait"]
      /\ UNCHANGED <<runVars, aborted, made, drained, pending, clock>>
      /\ UNCHANGED <<requests, blocked, permit, failed>>
  BY Zenon DEF RequestQueued, requestVars
<1>2. work[t] = "run" /\ permit[EndpointOf[t]] # t /\ EndpointOf[t] \in Endpoints
  BY <1>1, WorkerFacts, Zenon
<1>3. /\ permit \in [Endpoints -> Targets \cup {None}] /\ blocked \subseteq Endpoints
      /\ failed \subseteq Endpoints \X {"pages", "recovery"} \X {"thrown", "answered"}
  BY Zenon DEF RunInv, RequestsWithinBudget, TypeOK
<1>4. permit' = [permit EXCEPT ![EndpointOf[t]] = permit[EndpointOf[t]]]
  BY <1>1, <1>3, Zenon
<1>5. RequestsWithinBudget' /\ WorkSound' /\ BudgetSound'
  BY <1>1, <1>2, <1>3, <1>4, RequestStep, Zenon
<1>6. ASSUME NEW u \in Runnable, Unfinished(u) PROVE Unfinished(u)'
  <2>1. /\ direction' = direction /\ phase' = phase
        /\ u # t => work'[u] = work[u]
    BY <1>1, WorkerFacts, RunnableTargets, Zenon DEF runVars
  <2> QED
    BY <1>1, <1>2, <1>6, <2>1, Zenon DEF Unfinished, NotDrained, Retains
<1>7. FailuresSound'
  BY <1>1, <1>6, FailuresKept, Zenon DEF runVars
<1> QED
  BY <1>5, <1>7, Zenon DEF RunInv

LEMMA RequestBeginStep ==
  ASSUME RunInv, NEW t \in Targets, RequestBegin(t)
  PROVE  RunInv'
<1>1. /\ work[t] = "wait" /\ EndpointOf[t] \notin blocked /\ ~(requests >= limit)
      /\ requests' = requests + 1
      /\ permit' = [permit EXCEPT ![EndpointOf[t]] = t]
      /\ made' = [made EXCEPT ![t] = @ + 1]
      /\ work' = [work EXCEPT ![t] = "run"]
      /\ UNCHANGED <<runVars, aborted, drained, pending, clock>>
      /\ UNCHANGED <<blocked, failed>>
  BY Zenon DEF RequestBegin, OutOfBudget
<1>2. /\ blocked \subseteq Endpoints /\ requests < limit
      /\ failed \subseteq Endpoints \X {"pages", "recovery"} \X {"thrown", "answered"}
  BY <1>1, RunnerAssumption DEF RunInv, RequestsWithinBudget, TypeOK
<1>3. phase = "recovery" => pending[QueueOf(t)] # {}
  BY <1>1, Zenon DEF RunInv, WorkSound
<1>4. RequestsWithinBudget' /\ WorkSound' /\ BudgetSound'
  BY <1>1, <1>2, <1>3, RequestStep, Zenon
<1>5. ASSUME NEW u \in Runnable, Unfinished(u) PROVE Unfinished(u)'
  <2>1. /\ direction' = direction /\ phase' = phase
        /\ u # t => work'[u] = work[u] /\ made'[u] = made[u]
    BY <1>1, WorkerFacts, RunnableTargets, Zenon DEF runVars
  <2> QED
    BY <1>1, <1>5, <2>1, Zenon DEF Unfinished, NotDrained, Retains
<1>6. FailuresSound'
  BY <1>1, <1>5, FailuresKept, Zenon DEF runVars
<1> QED
  BY <1>4, <1>6, Zenon DEF RunInv

\* A request ends: its target goes on, or its page or retry has failed.
LEMMA RequestEndStep ==
  ASSUME RunInv, NEW t \in Targets, NEW how \in {"run", "failed", "unavailable"},
         permit[EndpointOf[t]] = t,
         permit' = [permit EXCEPT ![EndpointOf[t]] = None],
         work' = [work EXCEPT ![t] = how],
         UNCHANGED <<runVars, requests, aborted, made, drained, pending, clock>>,
         \/ blocked' = blocked /\ failed' = failed
         \/ /\ how = "failed" /\ blocked' = blocked \cup {EndpointOf[t]}
            /\ failed' = failed \cup {<<EndpointOf[t], phase, "thrown">>}
         \/ /\ how = "unavailable" /\ blocked' = blocked
            /\ failed' = failed \cup {<<EndpointOf[t], phase, "answered">>}
  PROVE  RunInv'
<1>1. /\ work[t] = "run" /\ t \in Runnable /\ phase \in {"pages", "recovery"}
      /\ EndpointOf[t] \in Endpoints /\ None # t
      /\ phase = "pages" => t \notin drained
  BY WorkerFacts, RunnerAssumption, Zenon DEF RunInv, WorkSound
<1>2. /\ blocked' \subseteq Endpoints
      /\ failed' \subseteq Endpoints \X {"pages", "recovery"} \X {"thrown", "answered"}
  BY <1>1 DEF RunInv, RequestsWithinBudget, TypeOK
<1>3. RequestsWithinBudget' /\ WorkSound' /\ BudgetSound'
  BY <1>1, <1>2, RequestStep, Zenon
<1>4. direction' = direction /\ phase' = phase /\ work'[t] = how
  BY WorkerFacts, Zenon DEF runVars
<1>5. ASSUME NEW u \in Runnable, Unfinished(u) PROVE Unfinished(u)'
  <2>1. u # t => work'[u] = work[u]
    BY WorkerFacts, RunnableTargets, Zenon
  <2> QED
    BY <1>1, <1>4, <1>5, <2>1, Zenon DEF Unfinished, NotDrained, Retains
<1>6. ASSUME NEW f \in failed' \ failed
      PROVE  /\ f[3] = "thrown" => f[1] \in blocked'
             /\ f[2] = "pages" => \E u \in Runnable : EndpointOf[u] = f[1] /\ Unfinished(u)'
  <2>1. /\ f[1] = EndpointOf[t] /\ f[2] = phase
        /\ f[3] = "thrown" => how = "failed" /\ EndpointOf[t] \in blocked'
        /\ how = "unavailable" \/ (how = "failed" /\ EndpointOf[t] \in blocked')
    BY <1>6
  <2>2. phase = "pages" => Unfinished(t)'
    BY <1>1, <1>4, <2>1, Zenon DEF Unfinished, NotDrained
  <2> QED
    BY <1>1, <2>1, <2>2, Zenon
<1>7. FailuresSound'
  <2>1. blocked \subseteq blocked'
    BY Zenon
  <2> QED
    BY <1>4, <1>5, <1>6, <2>1, FailuresKept, Zenon
<1> QED
  BY <1>3, <1>7, Zenon DEF RunInv

LEMMA RequestAnswerStep ==
  ASSUME RunInv, NEW t \in Targets,
         \/ RequestReturns(t)
         \/ \E endpointWide \in BOOLEAN : RequestThrows(t, endpointWide)
         \/ AnsweredUnavailable(t)
  PROVE  RunInv'
<1>1. CASE RequestReturns(t)
  <2>1. permit[EndpointOf[t]] = t
    BY <1>1, Zenon DEF RequestReturns
  <2>2. work[t] = "run"
    BY <2>1, Zenon DEF RunInv, WorkSound
  <2>3. work' = [work EXCEPT ![t] = "run"]
    BY <1>1, <2>2, WorkerFacts, Zenon DEF RequestReturns
  <2> QED
    BY <1>1, <2>3, RequestEndStep, Zenon DEF RequestReturns
<1>2. ASSUME NEW endpointWide \in BOOLEAN, RequestThrows(t, endpointWide) PROVE RunInv'
  BY <1>2, RequestEndStep, Zenon DEF RequestThrows
<1>3. CASE AnsweredUnavailable(t)
  BY <1>3, RequestEndStep, Zenon DEF AnsweredUnavailable
<1> QED
  BY <1>1, <1>2, <1>3, Zenon

-----------------------------------------------------------------------------
(* The phases of a run. *)

\* A step that starts no work and ends none.
LEMMA PhaseStep ==
  ASSUME RunInv, UNCHANGED <<direction, requests, blocked, permit, failed, made, drained,
                             pending, clock>>,
         aborted' \in BOOLEAN, phase' \in {"start", "pages", "recovery", "done"},
         limit' \in 1 .. MaxRequests, requests <= limit',
         waiting' \subseteq [target : Runnable, stamp : 1 .. clock], reserved' \subseteq Runnable,
         work' \in [Targets -> {"idle", "run", "wait", "failed", "unavailable"}]
  PROVE  /\ TypeOK'
         /\ Runnable' = Runnable /\ \A u : QueueOf(u)' = QueueOf(u)
         /\ \A u : MinimumRecoveryRequests(u)' = MinimumRecoveryRequests(u)
<1>1. /\ Runnable' = Runnable /\ \A u : QueueOf(u)' = QueueOf(u)
      /\ \A u : MinimumRecoveryRequests(u)' = MinimumRecoveryRequests(u)
  BY SameRun, Zenon
<1>2. {QueueOf(u) : u \in Runnable}' = {QueueOf(u) : u \in Runnable}
  BY <1>1, Zenon
<1> QED
  BY <1>1, <1>2, Zenon DEF RunInv, RequestsWithinBudget, TypeOK

\* With no work in progress there is no request.
LEMMA IdleRun ==
  ASSUME RunInv, \A t \in Targets : work[t] = "idle"
  PROVE  \A t \in Targets : made[t] = 0 /\ permit[EndpointOf[t]] # t
BY Zenon DEF RunInv, WorkSound

LEMMA StartPagesStep ==
  ASSUME RunInv, StartPages
  PROVE  RunInv'
<1>1. /\ phase = "start" /\ phase' = "pages" /\ limit' = PageLimit
      /\ reserved' = {c.target : c \in RecoveryCandidates}
      /\ work' = [t \in Targets |-> IF t \in Runnable /\ ~aborted THEN "run" ELSE "idle"]
      /\ UNCHANGED <<direction, requests, blocked, permit, failed, aborted, made, drained,
                     pending, clock, waiting>>
  BY Zenon DEF StartPages, requestVars
<1>2. /\ \A t \in Targets : work[t] = "idle"
      /\ drained = {} /\ failed = {}
  BY <1>1, Zenon DEF RunInv, WorkSound, BudgetSound
<1>3. requests = 0
  BY <1>1, Zenon DEF RunInv, BudgetSound
<1>4. PageLimit \in 1 .. MaxRequests
  BY PageLimitLeaves, Zenon
<1>5. TypeOK /\ reserved' \subseteq Runnable
  BY <1>1, CandidatesTyped, Zenon DEF RunInv, RequestsWithinBudget
<1>6. /\ aborted' \in BOOLEAN /\ requests <= limit'
      /\ waiting' \subseteq [target : Runnable, stamp : 1 .. clock]
      /\ work' \in [Targets -> {"idle", "run", "wait", "failed", "unavailable"}]
  BY <1>1, <1>3, <1>4, <1>5 DEF TypeOK
<1>7. /\ TypeOK'
      /\ Runnable' = Runnable /\ \A u : QueueOf(u)' = QueueOf(u)
      /\ \A u : MinimumRecoveryRequests(u)' = MinimumRecoveryRequests(u)
  BY <1>1, <1>4, <1>5, <1>6, PhaseStep, Zenon
<1>8. RequestsWithinBudget'
  BY <1>1, <1>6, <1>7, Zenon DEF RequestsWithinBudget
<1>9. WorkSound'
  BY <1>1, <1>2, <1>3, <1>7, IdleRun DEF WorkSound
<1>10. BudgetSound'
  BY <1>1, <1>7, PageLimitLeaves, Zenon DEF BudgetSound
<1>11. FailuresSound'
  BY <1>1, <1>2, Zenon DEF FailuresSound
<1> QED
  BY <1>8, <1>9, <1>10, <1>11, Zenon DEF RunInv

LEMMA StartRecoveryStep ==
  ASSUME RunInv, StartRecovery
  PROVE  RunInv'
<1>1. /\ phase = "pages" /\ phase' = "recovery" /\ limit' = MaxRequests
      /\ waiting' = RecoveryCandidates /\ \A t \in Targets : work[t] = "idle"
      /\ UNCHANGED <<direction, requests, blocked, permit, failed, aborted, made, drained,
                     pending, clock, work, reserved>>
  BY Zenon DEF StartRecovery, requestVars
<1>2. /\ TypeOK /\ requests \in 0 .. MaxRequests /\ MaxRequests \in Nat /\ MaxRequests >= 3
      /\ waiting' \subseteq [target : Runnable, stamp : 1 .. clock]
  BY <1>1, CandidatesTyped, RunnerAssumption, Zenon DEF RunInv, RequestsWithinBudget, TypeOK
<1>3. /\ limit' \in 1 .. MaxRequests /\ requests <= limit'
      /\ aborted' \in BOOLEAN /\ reserved' \subseteq Runnable
      /\ work' \in [Targets -> {"idle", "run", "wait", "failed", "unavailable"}]
  BY <1>1, <1>2 DEF TypeOK
<1>4. /\ TypeOK'
      /\ Runnable' = Runnable /\ \A u : QueueOf(u)' = QueueOf(u)
  BY <1>1, <1>2, <1>3, PhaseStep, Zenon
<1>5. RequestsWithinBudget'
  <2>1. RoleTargets \subseteq Targets
    BY RunnerAssumption, Zenon
  <2> QED
    BY <1>1, <1>3, <1>4, <2>1, Zenon DEF RequestsWithinBudget
<1>6. WorkSound'
  BY <1>1, <1>4, IdleRun, Zenon DEF RunInv, WorkSound
<1>7. BudgetSound'
  BY <1>1, Zenon DEF BudgetSound
<1>8. ASSUME NEW u \in Runnable, Unfinished(u) PROVE Unfinished(u)'
  BY <1>1, <1>8, Zenon DEF Unfinished, NotDrained, Retains
<1>9. FailuresSound'
  BY <1>1, <1>8, FailuresKept, Zenon
<1> QED
  BY <1>5, <1>6, <1>7, <1>9, Zenon DEF RunInv

LEMMA RecoveryStartStep ==
  ASSUME RunInv, NEW c \in waiting, RecoveryStart(c)
  PROVE  RunInv'
<1> DEFINE t == c.target
<1>1. /\ phase = "recovery" /\ phase' = "recovery" /\ \A u \in Targets : work[u] = "idle"
      /\ waiting' = waiting \ {c} /\ limit - requests >= MinimumRecoveryRequests(t)
      /\ work' = [work EXCEPT ![t] = "run"]
      /\ UNCHANGED <<direction, limit, requests, blocked, permit, failed, aborted, made,
                     drained, pending, clock, reserved>>
  BY Zenon DEF RecoveryStart, RecoveryTurn, MayRecover, requestVars
<1>2. /\ TypeOK /\ limit = MaxRequests /\ requests <= limit /\ t \in Runnable /\ t \in Targets
      /\ requests \in Nat /\ MaxRequests \in Nat
  BY <1>1, RunnableTargets, RunnerAssumption DEF RunInv, RequestsWithinBudget, TypeOK, BudgetSound
<1>3. /\ limit' \in 1 .. MaxRequests /\ requests <= limit'
      /\ aborted' \in BOOLEAN /\ reserved' \subseteq Runnable
      /\ waiting' \subseteq [target : Runnable, stamp : 1 .. clock]
      /\ work' \in [Targets -> {"idle", "run", "wait", "failed", "unavailable"}]
  BY <1>1, <1>2, Zenon DEF TypeOK
<1>4. /\ TypeOK'
      /\ Runnable' = Runnable /\ \A u : QueueOf(u)' = QueueOf(u)
  BY <1>1, <1>3, PhaseStep, Zenon
<1>5. /\ work'[t] = "run" /\ \A u \in Targets : u # t => work'[u] = "idle"
      /\ \A u \in Targets : made[u] = 0 /\ permit[EndpointOf[u]] # u
  BY <1>1, <1>2, IdleRun, Zenon DEF TypeOK
<1>6. RequestsWithinBudget'
  <2> SUFFICES ASSUME direction = "pull", NEW u \in RoleTargets, work'[u] \in {"run", "wait"},
                      made[u] < 2
               PROVE  requests + (2 - made[u]) <= MaxRequests
    BY <1>1, <1>3, <1>4, Zenon DEF RequestsWithinBudget
  <2>1. u = t /\ made[u] = 0
    BY <1>5, RunnerAssumption, Zenon
  <2>2. MinimumRecoveryRequests(t) = 2
    BY <2>1, Zenon DEF MinimumRecoveryRequests
  <2> QED
    BY <1>1, <1>2, <2>1, <2>2
<1>7. WorkSound'
  BY <1>1, <1>2, <1>4, <1>5, Zenon DEF RunInv, WorkSound
<1>8. BudgetSound'
  BY <1>1, <1>2, <1>5, Zenon DEF BudgetSound
<1>9. ASSUME NEW u \in Runnable, Unfinished(u) PROVE Unfinished(u)'
  BY <1>1, <1>9, Zenon DEF Unfinished, NotDrained, Retains
<1>10. FailuresSound'
  BY <1>1, <1>9, FailuresKept, Zenon
<1> QED
  BY <1>6, <1>7, <1>8, <1>10, Zenon DEF RunInv

\* Steps that change the work of no target.
LEMMA QuietStep ==
  ASSUME RunInv,
         \/ \E c \in waiting : RecoverySkip(c)
         \/ RecoveryEnds
         \/ Abort
         \/ UNCHANGED vars
  PROVE  RunInv'
<1>1. /\ UNCHANGED <<direction, limit, requests, blocked, permit, failed, made, drained,
                     pending, clock, reserved, work>>
      /\ waiting' \subseteq waiting /\ aborted' \in {aborted, TRUE}
      /\ phase' = phase \/ (phase = "recovery" /\ phase' = "done" /\ \A t \in Targets : work[t] = "idle")
  BY Zenon DEF RecoverySkip, RecoveryTurn, RecoveryEnds, Abort, vars, runVars, requestVars
<1>2. /\ TypeOK /\ limit' \in 1 .. MaxRequests /\ requests <= limit'
      /\ aborted' \in BOOLEAN /\ reserved' \subseteq Runnable
      /\ waiting' \subseteq [target : Runnable, stamp : 1 .. clock]
      /\ phase' \in {"start", "pages", "recovery", "done"}
      /\ work' \in [Targets -> {"idle", "run", "wait", "failed", "unavailable"}]
  BY <1>1, Zenon DEF RunInv, RequestsWithinBudget, TypeOK
<1>3. /\ TypeOK'
      /\ Runnable' = Runnable /\ \A u : QueueOf(u)' = QueueOf(u)
      /\ \A u : MinimumRecoveryRequests(u)' = MinimumRecoveryRequests(u)
  BY <1>1, <1>2, PhaseStep, Zenon
<1>4. RequestsWithinBudget'
  BY <1>1, <1>2, <1>3, Zenon DEF RunInv, RequestsWithinBudget
<1>5. WorkSound'
  BY <1>1, <1>3, IdleRun, Zenon DEF RunInv, WorkSound
<1>6. BudgetSound'
  BY <1>1, <1>3, Zenon DEF RunInv, BudgetSound
<1>7. ASSUME NEW u \in Runnable, Unfinished(u) PROVE Unfinished(u)'
  BY <1>1, <1>7, Zenon DEF Unfinished, NotDrained, Retains
<1>8. FailuresSound'
  BY <1>1, <1>7, FailuresKept, Zenon
<1> QED
  BY <1>4, <1>5, <1>6, <1>8, Zenon DEF RunInv

-----------------------------------------------------------------------------
\* RunInv holds of every reachable state of a run.
THEOREM RunInvariant == Spec => []RunInv
<1>1. Init => RunInv
  <2> SUFFICES ASSUME Init PROVE RunInv
    BY Zenon
  <2>1. /\ MaxRequests \in Nat /\ MaxRequests >= 3 /\ FirstStamps \in Nat /\ None \notin Targets
        /\ EndpointOf \in [Targets -> Endpoints] /\ RoleTargets \subseteq Targets
    BY RunnerAssumption, Zenon
  <2>2. TypeOK
    <3>1. /\ made \in [Targets -> 0 .. MaxRequests] /\ limit \in 1 .. MaxRequests
          /\ requests \in 0 .. MaxRequests
      BY <2>1 DEF Init
    <3>2. permit \in [Endpoints -> Targets \cup {None}]
      BY Zenon DEF Init
    <3>3. work \in [Targets -> {"idle", "run", "wait", "failed", "unavailable"}]
      BY Zenon DEF Init
    <3>4. /\ direction \in {"pull", "push"} /\ phase \in {"start", "pages", "recovery", "done"}
          /\ aborted \in BOOLEAN /\ blocked = {} /\ drained = {} /\ waiting = {}
          /\ reserved = {} /\ failed = {} /\ clock \in Nat
      BY <2>1, Zenon DEF Init
    <3>5. pending \in [{QueueOf(t) : t \in Runnable} -> SUBSET (1 .. clock)]
      BY Zenon DEF Init
    <3> QED
      BY <3>1, <3>2, <3>3, <3>4, <3>5, Zenon DEF TypeOK
  <2>3. \A t \in Targets : permit[EndpointOf[t]] # t /\ work[t] = "idle" /\ made[t] = 0
    BY <2>1, Zenon DEF Init
  <2>4. WorkSound
    BY <2>3 DEF Init, WorkSound
  <2>5. RequestsWithinBudget
    BY <2>1, <2>2 DEF Init, RequestsWithinBudget
  <2>6. BudgetSound /\ FailuresSound
    BY Zenon DEF Init, BudgetSound, FailuresSound
  <2> QED
    BY <2>4, <2>5, <2>6, Zenon DEF RunInv
<1>2. RunInv /\ [Next]_vars => RunInv'
  <2> SUFFICES ASSUME RunInv, [Next]_vars PROVE RunInv'
    BY Zenon
  <2>1. CASE StartPages
    BY <2>1, StartPagesStep, Zenon
  <2>2. ASSUME NEW t \in Targets, Request(t) PROVE RunInv'
    BY <2>2, RequestQueuedStep, RequestBeginStep, RequestAnswerStep, Zenon DEF Request
  <2>3. ASSUME NEW t \in Targets, Page(t) PROVE RunInv'
    BY <2>3, PageCommittedStep, PageCutStep, PageFailedStep, PageUnavailableStep, Zenon DEF Page
  <2>4. CASE StartRecovery
    BY <2>4, StartRecoveryStep, Zenon
  <2>5. CASE Recovery
    BY <2>5, RecoveryStartStep, RetrySettledStep, RetryRotatedStep, RetryUnchangedStep,
       QuietStep, Zenon DEF Recovery
  <2>6. CASE Abort \/ UNCHANGED vars
    BY <2>6, QuietStep, Zenon
  <2> QED
    BY <2>1, <2>2, <2>3, <2>4, <2>5, <2>6, Zenon DEF Next
<1> QED
  BY <1>1, <1>2, PTL DEF Spec

\* A run keeps within its request budget, the pages within their share, and a
\* role attempt that has started keeps both of its reads (requestRunner,
\* runRecoveryPhase), for every set of targets and every budget.
THEOREM BudgetKept == Spec => []RequestsWithinBudget
<1>1. RunInv => RequestsWithinBudget
  BY Zenon DEF RunInv
<1> QED
  BY <1>1, RunInvariant, PTL

\* The pages of a run leave every recovery that was pending at its start the
\* requests of one attempt (run's page limit).
THEOREM RecoveryIsFunded == Spec => RecoveryNotStarved
<1> DEFINE Step == phase = "pages" /\ phase' = "recovery" =>
                     \A t \in reserved : MaxRequests - requests >= MinimumRecoveryRequests(t)
<1>1. RunInv => (phase = "pages" =>
        \A t \in reserved : MaxRequests - requests >= MinimumRecoveryRequests(t))
  <2> SUFFICES ASSUME RunInv, phase = "pages", NEW t \in reserved
               PROVE  MaxRequests - requests >= MinimumRecoveryRequests(t)
    BY Zenon
  <2>1. MinimumRecoveryRequests(t) \in Nat
    BY Zenon DEF MinimumRecoveryRequests
  <2>2. MaxRequests - limit >= MinimumRecoveryRequests(t)
    BY Zenon DEF RunInv, BudgetSound
  <2> QED
    BY <2>1, <2>2, RunnerAssumption DEF RunInv, RequestsWithinBudget, TypeOK
<1>2. RunInv /\ [Next]_vars => [Step]_vars
  BY <1>1, Zenon
<1> QED
  BY <1>2, RunInvariant, PTL DEF Spec, RecoveryNotStarved

\* A failed page is never reported as no work remaining (buildResult), however
\* the other pages, the retries and the cancellation interleave.
THEOREM FailuresAreReported == Spec => []FailedPageReported
<1>1. RunInv => FailedPageReported
  <2> SUFFICES ASSUME RunInv, phase = "done", NEW f \in failed, f[2] = "pages"
               PROVE  WorkRemaining
    BY Zenon DEF FailedPageReported
  <2>1. PICK t \in Runnable : Unfinished(t)
    BY Zenon DEF RunInv, FailuresSound
  <2>2. t \notin drained \/ (direction = "push" /\ pending[t] # {})
    BY <2>1, Zenon DEF Unfinished, NotDrained, Retains
  <2> QED
    BY <2>2, Zenon DEF WorkRemaining, QueueOf
<1> QED
  BY <1>1, RunInvariant, PTL

\* A request that threw for its endpoint is the last the run sends there
\* (requestRunner blocks the endpoint before it releases the permit).
THEOREM ThrowIsLast == Spec => ThrowStopsEndpoint
<1> DEFINE Step == \A f \in failed : f[3] = "thrown" => permit'[f[1]] \in {None, permit[f[1]]}
<1>1. ASSUME RunInv, [Next]_vars, NEW f \in failed, f[3] = "thrown"
      PROVE  permit'[f[1]] \in {None, permit[f[1]]}
  <2>1. /\ f[1] \in blocked /\ f[1] \in Endpoints
        /\ permit \in [Endpoints -> Targets \cup {None}]
    BY <1>1, Zenon DEF RunInv, FailuresSound, RequestsWithinBudget, TypeOK
  <2>2. CASE permit' = permit
    BY <2>2, Zenon
  <2>3. ASSUME NEW t \in Targets, Request(t) PROVE permit'[f[1]] \in {None, permit[f[1]]}
    <3>1. CASE RequestBegin(t)
      BY <2>1, <3>1, Zenon DEF RequestBegin
    <3>2. CASE ~RequestBegin(t)
      <4>1. permit' \in {permit, [permit EXCEPT ![EndpointOf[t]] = None]}
        BY <2>3, <3>2, Zenon DEF Request, RequestQueued, RequestReturns, RequestThrows,
                          AnsweredUnavailable, requestVars
      <4> QED
        BY <2>1, <4>1, Zenon
    <3> QED
      BY <3>1, <3>2, Zenon
  <2>4. ASSUME NEW t \in Targets, Page(t) PROVE permit' = permit
    BY <2>4, Zenon DEF Page, PageCommitted, PageCut, PageFailed, PageUnavailable, Finish
  <2>5. CASE StartPages \/ StartRecovery \/ Abort \/ UNCHANGED vars
    BY <2>2, <2>5, Zenon DEF StartPages, StartRecovery, Abort, requestVars, vars
  <2>6. CASE Recovery
    BY <2>2, <2>6, Zenon DEF Recovery, RecoveryStart, RecoverySkip, RetrySettled, RetryRotated,
                      RetryUnchanged, RecoveryEnds, Finish, requestVars
  <2> QED
    BY <1>1, <2>2, <2>3, <2>4, <2>5, <2>6, Zenon DEF Next
<1>2. RunInv /\ [Next]_vars => [Step]_vars
  BY <1>1, Zenon
<1> QED
  BY <1>2, RunInvariant, PTL DEF Spec, ThrowStopsEndpoint
=============================================================================
