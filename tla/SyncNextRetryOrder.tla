------------------------- MODULE SyncNextRetryOrder -------------------------
(***************************************************************************)
(* The order in which retained rows are retried: each row carries the time *)
(* of its last attempt (lastAttemptAt, in milliseconds), the oldest row is *)
(* selected first with the receipt key as tie break                        *)
(* (compareSyncNextRetryOrder), and an attempt that does not settle the    *)
(* row moves its time past the present and past its former value           *)
(* (nextAttemptAt).  One retry runs at a time, as quarantine retries of a  *)
(* projection do.                                                          *)
(*                                                                         *)
(* The rows are the numbers 1 .. Rows in the order of their receipt keys,  *)
(* and absent rows have no stamp.                                          *)
(***************************************************************************)
EXTENDS Integers, TLAPS

CONSTANTS
  Rows,     \* number of receipts
  MaxTime,  \* bound: milliseconds of the clock
  MaxStamp, \* bound: attempt times
  SameMs    \* whether two attempts may fall into one millisecond

ASSUME OrderAssumption ==
  /\ Rows \in Nat \ {0}
  /\ MaxTime \in Nat
  /\ MaxStamp \in Nat
  /\ SameMs \in BOOLEAN

VARIABLES
  now,      \* Date.now()
  stamp,    \* lastAttemptAt of each row, or Absent
  tried,    \* history: the time of the last attempt
  waited    \* history: waited[r][s] attempts on s since the last turn of r
            \* and since s was retained

vars == <<now, stamp, tried, waited>>

Receipts == 1 .. Rows
Absent == -1
Present == {r \in Receipts : stamp[r] # Absent}

Max2(a, b) == IF a >= b THEN a ELSE b

\* compareSyncNextRetryOrder: the oldest attempt first, then the receipt key.
Precedes(r, s) == stamp[r] < stamp[s] \/ (stamp[r] = stamp[s] /\ r < s)

IsOldest(r) == r \in Present /\ \A s \in Present \ {r} : Precedes(r, s)

\* Mutant: an attempt is stamped with the present.
NextAttemptAtNow(previous) == now

NextAttemptAt(previous) == Max2(now + 1, previous + 1)

-----------------------------------------------------------------------------
Init ==
  /\ now = 0
  /\ stamp = [r \in Receipts |-> Absent]
  /\ tried = -1
  /\ waited = [r \in Receipts |-> [s \in Receipts |-> 0]]

Tick ==
  /\ now < MaxTime
  /\ now' = now + 1
  /\ UNCHANGED <<stamp, tried, waited>>

\* createPendingEntry: a page commit retains a root (or retains it anew).
Retain(r) ==
  /\ stamp' = [stamp EXCEPT ![r] = now]
  /\ waited' = [q \in Receipts |-> [s \in Receipts |->
                  IF r \in {q, s} THEN 0 ELSE waited[q][s]]]
  /\ UNCHANGED <<now, tried>>

MayTry(r) == IsOldest(r) /\ (SameMs \/ now > tried)

Turn(r) ==
  [q \in Receipts |-> [s \in Receipts |->
     IF q = r THEN 0 ELSE IF s = r THEN waited[q][s] + 1 ELSE waited[q][s]]]

\* The oldest row is tried and stays pending.
RetryPending(r) ==
  /\ MayTry(r)
  /\ NextAttemptAt(stamp[r]) <= MaxStamp
  /\ stamp' = [stamp EXCEPT ![r] = NextAttemptAt(stamp[r])]
  /\ tried' = now
  /\ waited' = Turn(r)
  /\ UNCHANGED now

\* The oldest row is tried and settled.
RetrySettled(r) ==
  /\ MayTry(r)
  /\ stamp' = [stamp EXCEPT ![r] = Absent]
  /\ tried' = now
  /\ waited' = Turn(r)
  /\ UNCHANGED now

Next ==
  \/ Tick
  \/ \E r \in Receipts : Retain(r) \/ RetryPending(r) \/ RetrySettled(r)

Spec == Init /\ [][Next]_vars

-----------------------------------------------------------------------------
\* Times are within their bounds, and an attempt is not in the future.
TypeOK ==
  /\ now \in 0 .. MaxTime
  /\ stamp \in [Receipts -> {Absent} \cup Nat]
  /\ tried \in -1 .. now
  /\ waited \in [Receipts -> [Receipts -> Nat]]

\* Round robin: between two turns of a retained row every other row is tried
\* at most once for each time it is retained, however rows come, go and come
\* back, so no row starves.
RoundRobin ==
  /\ TypeOK
  /\ \A r \in Present : \A s \in Receipts : waited[r][s] <= 1

\* "Pending and failed attempts advance their timestamp so another row gets
\* the next retry, including when attempts land within the same millisecond":
\* a row that was tried and stays pending is not the oldest any more when
\* another row is retained.
AnotherRowGetsNextRetry ==
  [][\A r \in Receipts :
       RetryPending(r) /\ Present # {r} => ~IsOldest(r)']_vars

-----------------------------------------------------------------------------
\* Attempts a millisecond apart are stamped past every other row, and a row
\* tried once since another's turn is behind it.
StampsBehind ==
  \A r \in Present : stamp[r] <= Max2(now, tried + 1)
TriedIsBehind ==
  \A r \in Present : \A s \in Receipts :
    /\ waited[r][s] <= 1
    /\ waited[r][s] = 1 /\ s \in Present => stamp[r] < stamp[s]

\* The inductive invariant.
OrderInv == TypeOK /\ StampsBehind /\ TriedIsBehind

\* A turn of the oldest row r, which gets the stamp t or leaves: every other
\* retained row precedes it from then on.
LEMMA TurnStep ==
  ASSUME OrderInv, NEW r \in Receipts, MayTry(r), ~SameMs,
         NEW t \in {Absent, now + 1}, stamp' = [stamp EXCEPT ![r] = t],
         tried' = now, waited' = Turn(r), now' = now
  PROVE  OrderInv'
<1>1. /\ now \in Nat /\ now <= MaxTime /\ tried \in Int /\ tried < now
      /\ stamp \in [Receipts -> {Absent} \cup Nat]
      /\ waited \in [Receipts -> [Receipts -> Nat]]
      /\ r \in Present /\ \A s \in Present \ {r} : stamp[r] <= stamp[s]
  BY OrderAssumption DEF OrderInv, TypeOK, MayTry, IsOldest, Precedes, Present, Absent
<1>2. /\ stamp'[r] = t /\ \A s \in Receipts : s # r => stamp'[s] = stamp[s]
      /\ \A s \in Receipts : s # r => (s \in Present' <=> s \in Present)
  BY <1>1 DEF Present, Absent
<1>3. \A q, s \in Receipts : waited'[q][s] =
        IF q = r THEN 0 ELSE IF s = r THEN waited[q][s] + 1 ELSE waited[q][s]
  BY DEF Turn
<1>4. \A s \in Present : s \in Receipts /\ stamp[s] \in Nat /\ stamp[s] <= now
  BY <1>1 DEF OrderInv, StampsBehind, Present, Max2, Absent
<1>5. TypeOK'
  <2>1. stamp' \in [Receipts -> {Absent} \cup Nat]
    BY <1>1
  <2>2. waited' \in [Receipts -> [Receipts -> Nat]]
    BY <1>1 DEF Turn
  <2> QED
    BY <1>1, <2>1, <2>2 DEF OrderInv, TypeOK
<1>6. StampsBehind'
  <2> SUFFICES ASSUME NEW s \in Present' PROVE stamp'[s] <= now + 1
    BY <1>1 DEF StampsBehind, Max2
  <2>1. s \in Receipts /\ stamp'[s] # Absent
    BY DEF Present
  <2> QED
    BY <1>1, <1>2, <1>4, <2>1
<1>7. TriedIsBehind'
  <2> SUFFICES ASSUME NEW q \in Present', NEW s \in Receipts
               PROVE  /\ waited'[q][s] <= 1
                      /\ waited'[q][s] = 1 /\ s \in Present' => stamp'[q] < stamp'[s]
    BY DEF TriedIsBehind
  <2>1. q \in Receipts
    BY DEF Present
  <2>2. CASE q = r
    BY <1>3, <2>1, <2>2
  <2>3. CASE q # r /\ s = r
    <3>1. q \in Present
      BY <1>2, <2>1, <2>3
    <3>2. waited[q][r] = 0
      <4>1. /\ waited[q][r] <= 1
            /\ waited[q][r] = 1 => stamp[q] < stamp[r]
        BY <1>1, <3>1 DEF OrderInv, TriedIsBehind
      <4>2. waited[q][r] \in Nat
        BY <1>1, <2>1
      <4>3. stamp[r] <= stamp[q] /\ stamp[r] \in Nat /\ stamp[q] \in Nat
        BY <1>1, <1>4, <2>3, <3>1
      <4> QED
        BY <4>1, <4>2, <4>3
    <3>3. waited'[q][s] = 1
      BY <1>3, <2>1, <2>3, <3>2
    <3>4. s \in Present' => stamp'[s] = now + 1
      BY <1>2, <2>3 DEF Present
    <3> QED
      BY <1>1, <1>2, <1>4, <2>1, <2>3, <3>1, <3>3, <3>4
  <2>4. CASE q # r /\ s # r
    <3>1. q \in Present /\ (s \in Present' <=> s \in Present) /\ waited'[q][s] = waited[q][s]
      BY <1>2, <1>3, <2>1, <2>4
    <3> QED
      BY <1>2, <2>1, <2>4, <3>1 DEF OrderInv, TriedIsBehind
  <2> QED
    BY <2>2, <2>3, <2>4
<1> QED
  BY <1>5, <1>6, <1>7 DEF OrderInv

LEMMA RetainStep ==
  ASSUME OrderInv, NEW r \in Receipts, Retain(r)
  PROVE  OrderInv'
<1>1. /\ now \in Nat /\ tried \in Int /\ now' = now /\ tried' = tried
      /\ stamp \in [Receipts -> {Absent} \cup Nat]
      /\ waited \in [Receipts -> [Receipts -> Nat]]
  BY DEF OrderInv, TypeOK, Retain
<1>2. /\ stamp' \in [Receipts -> {Absent} \cup Nat]
      /\ stamp'[r] = now /\ \A s \in Receipts : s # r => stamp'[s] = stamp[s]
      /\ \A s \in Receipts : s # r => (s \in Present' <=> s \in Present)
  BY <1>1 DEF Retain, Present, Absent
<1>3. /\ waited' \in [Receipts -> [Receipts -> Nat]]
      /\ \A q, s \in Receipts : waited'[q][s] = IF r \in {q, s} THEN 0 ELSE waited[q][s]
  BY <1>1 DEF Retain
<1>4. TypeOK'
  BY <1>1, <1>2, <1>3 DEF OrderInv, TypeOK
<1>5. StampsBehind'
  <2> SUFFICES ASSUME NEW s \in Present' PROVE stamp'[s] <= Max2(now, tried + 1)
    BY <1>1 DEF StampsBehind, Max2
  <2>1. s \in Receipts
    BY DEF Present
  <2> QED
    BY <1>1, <1>2, <2>1 DEF OrderInv, StampsBehind, Max2
<1>6. TriedIsBehind'
  <2> SUFFICES ASSUME NEW q \in Present', NEW s \in Receipts
               PROVE  /\ waited'[q][s] <= 1
                      /\ waited'[q][s] = 1 /\ s \in Present' => stamp'[q] < stamp'[s]
    BY DEF TriedIsBehind
  <2>1. q \in Receipts
    BY DEF Present
  <2>2. CASE r \in {q, s}
    BY <1>3, <2>1, <2>2
  <2>3. CASE r \notin {q, s}
    BY <1>2, <1>3, <2>1, <2>3 DEF OrderInv, TriedIsBehind
  <2> QED
    BY <2>2, <2>3
<1> QED
  BY <1>4, <1>5, <1>6 DEF OrderInv

\* Retained rows take turns, for any number of rows, any bounds and any
\* arrivals, as long as attempts are a millisecond apart: the stamp that
\* nextAttemptAt gives is then past that of every other row.
THEOREM RowsTakeTurns == ASSUME ~SameMs PROVE Spec => []RoundRobin
<1>1. Init => OrderInv
  BY OrderAssumption DEF Init, OrderInv, TypeOK, StampsBehind, TriedIsBehind, Present, Absent
<1>2. OrderInv /\ [Next]_vars => OrderInv'
  <2> SUFFICES ASSUME OrderInv, [Next]_vars PROVE OrderInv'
    OBVIOUS
  <2>1. CASE Tick \/ UNCHANGED vars
    <3>1. /\ UNCHANGED <<stamp, tried, waited>> /\ Present' = Present
          /\ now' \in 0 .. MaxTime /\ now <= now' /\ now \in Nat /\ tried \in Int
      BY <2>1, OrderAssumption DEF Tick, vars, OrderInv, TypeOK, Present
    <3>2. \A r \in Present : stamp[r] \in Nat
      BY DEF OrderInv, TypeOK, Present
    <3>3. TypeOK' /\ TriedIsBehind'
      BY <3>1 DEF OrderInv, TypeOK, TriedIsBehind
    <3>4. StampsBehind'
      BY <3>1, <3>2 DEF OrderInv, StampsBehind, Max2
    <3> QED
      BY <3>3, <3>4 DEF OrderInv
  <2>2. ASSUME NEW r \in Receipts, Retain(r) PROVE OrderInv'
    BY <2>2, RetainStep
  <2>3. ASSUME NEW r \in Receipts, RetryPending(r) PROVE OrderInv'
    <3>1. r \in Present /\ tried < now /\ now \in Nat /\ tried \in Int
      BY <2>3 DEF RetryPending, MayTry, IsOldest, OrderInv, TypeOK
    <3>2. stamp[r] \in Nat /\ stamp[r] <= now
      BY <3>1 DEF OrderInv, TypeOK, StampsBehind, Present, Max2
    <3>3. NextAttemptAt(stamp[r]) = now + 1
      BY <3>1, <3>2 DEF NextAttemptAt, Max2
    <3> QED
      BY <2>3, <3>3, TurnStep, Zenon DEF RetryPending
  <2>4. ASSUME NEW r \in Receipts, RetrySettled(r) PROVE OrderInv'
    BY <2>4, TurnStep, Zenon DEF RetrySettled
  <2> QED
    BY <2>1, <2>2, <2>3, <2>4 DEF Next
<1>3. OrderInv => RoundRobin
  BY DEF OrderInv, TriedIsBehind, RoundRobin
<1> QED
  BY <1>1, <1>2, <1>3, PTL DEF Spec
=============================================================================
